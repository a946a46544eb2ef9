SPECIFICATION Spec
CONSTANTS
    Builders = {p1, p2}
    Artifacts = {k1, k2}
    Absent = Absent
    Broken = Broken
    MaxRecipe = 2
    MaxHeader = 2
    MaxEdits = 1
    Modes = {"plain", "verify"}
VIEW Remembered
SYMMETRY Symmetry
INVARIANTS
    TypeOK
    TargetIsOneBuild
    CheckIsSound
    VerifiedIsUniform
    QuietBuildRepairs
CHECK_DEADLOCK FALSE

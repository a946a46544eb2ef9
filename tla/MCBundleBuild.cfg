SPECIFICATION Spec
CONSTANTS
    Builders = {p1, p2}
    Artifacts = {asm, hip}
    Assembly = {asm}
    Processes = {q}
    Absent = Absent
    Broken = Broken
    MaxEdits = 1
VIEW Remembered
SYMMETRY Symmetry
INVARIANTS
    TypeOK
    QuietBuildRepairs
    CleanProcessAgrees
CHECK_DEADLOCK FALSE

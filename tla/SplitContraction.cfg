SPECIFICATION Spec
CONSTANTS
    RowCounts = {1, 3, 4}
    OutFeatures = {2, 3, 4, 6}
    SliceCounts = {1, 2, 4}
    StageWidths = {1, 2, 3}
    DecodeStep = 2
    RowTile = 2
    ReduceBlock = 2
    MaxReduceBlocks = 1
INVARIANTS
    TypeOK
    ExactGradient
    PartialsStored
    NoTruncatedStage
PROPERTY
    GradientCompletes
CHECK_DEADLOCK FALSE

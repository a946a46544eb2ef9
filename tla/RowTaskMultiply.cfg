CONSTANTS
    Groups = 4
    Rows = 3
    RowTile = 2
    NumExperts = 1
    MaxOffset = 4
    ExpertIds = {0, 1}
    Lanes = 3
    ColumnTiles = 1
    TileHeight = 2
SPECIFICATION LaunchSpec
INVARIANTS
    TypeOK
    WithinCapacity
    SlotsDisjoint
    CountCoversBank
    BankComplete
PROPERTY ImplementsRoutedOutput
\* Both kernels end and the launch with them.
CHECK_DEADLOCK FALSE

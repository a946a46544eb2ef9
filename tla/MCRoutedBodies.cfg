CONSTANTS
    Groups = 2
    Rows = 6
    RowTile = 3
    NumExperts = 2
    PhysicalExperts = 2
    MaxRouteEntries = 2
    MaxOffset = 7
    ExpertIds = {0, 1, 2}
    ColumnTiles = 1
    TileSets = {{}, {2}, {1}, {1, 2}}
    Policies <- MCPolicies
SPECIFICATION Spec
PROPERTY ImplementsRoutedOutput
\* The launch ends when every workgroup has returned.
CHECK_DEADLOCK FALSE

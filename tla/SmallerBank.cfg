CONSTANTS
    Groups = 2
    Rows = 5
    RowTile = 2
    NumExperts = 2
    PhysicalExperts = 3
    MaxRouteEntries = 2
    MaxOffset = 6
    ExpertIds = {0, 1, 2}
    ColumnTiles = 1
    Policies <- MCPolicies
SPECIFICATION Spec
INVARIANTS
    SmallerBankServed
\* The launch ends when every workgroup has returned.
CHECK_DEADLOCK FALSE

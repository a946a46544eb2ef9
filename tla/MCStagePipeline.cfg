CONSTANTS
    Waves = 3
    Shapes <- MCShapes
SPECIFICATION Spec
INVARIANTS
    TypeOK
    NoTileRace
    FullContraction
PROPERTY Drains
\* The workgroup ends when its waves have stored their last row tile.
CHECK_DEADLOCK FALSE

CONSTANTS
    Waves = {0, 1}
    Programs <- MCPipelined
SPECIFICATION Spec
INVARIANTS
    OperandsReady

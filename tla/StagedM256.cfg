CONSTANTS
    Waves = 2
    Shapes <- MCStagedM256
SPECIFICATION Spec
INVARIANT OneBarrierPerStageSuffices
\* The workgroup ends when its waves have stored their last row tile.
CHECK_DEADLOCK FALSE

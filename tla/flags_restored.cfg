\* Violated: ori of SCILENT_ENABLE_MT after the flags are back.
CONSTANTS
    Patterns <- AllPatterns
    Registers <- SomeRegisters
    Flags <- SomeFlags
    KernelRegisters <- ThreeTimes
    SpawnAt = 240
    StartAt = 65520
    YieldAt = 1280
    TimerAt = 1792
    IdleAt = 2304
    WorkerAt = 98304
SPECIFICATION Spec
PROPERTIES FlagsRestored

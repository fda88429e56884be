\* Every instruction of the switch, with the timer anywhere in task code.
CONSTANTS
    Patterns <- AllPatterns
    Registers <- SomeRegisters
    Flags <- SomeFlags
    KernelRegisters <- ThreeTimes
    SpawnAt = 240
    StartAt = 65520
    YieldAt = 1280
    TimerAt = 1792
    IdleAt = 2304
    WorkerAt = 98304
SPECIFICATION Spec
INVARIANTS TypeOK MaskedThroughout NeverLost
PROPERTIES ContextRestored

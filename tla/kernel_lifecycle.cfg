\* Spawning, ending, yielding, preempting and waiting, with more tasks created than slots.
CONSTANTS
    tasks_max = 4
    UINT8_MAX <- MaxUInt8
    Priorities <- OnePriority
    task_memory_size <- BlockBytes
    MaxPid = 5
    BootOverrun = FALSE
    SchedulerOverrun = TRUE
    LateMatch = FALSE
SPECIFICATION Spec
INVARIANTS
    TypeOK StackOwnership OneRunning ReadyIntact PreemptedIntact
    QueueTailReady HandoverMasked TaskPreemptible NoInternalFault PidSafe
PROPERTIES WaitReturnsAfterExit ImplementsAbstractTasks

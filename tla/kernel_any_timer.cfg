\* A timer that may match anywhere, even where it crashes the kernel, and tasks that are
\* never scheduled.
CONSTANTS
    tasks_max = 4
    UINT8_MAX <- MaxUInt8
    Priorities <- LowestAndUnlisted
    task_memory_size <- BlockBytes
    MaxPid = 4
    BootOverrun = TRUE
    SchedulerOverrun = TRUE
    LateMatch = TRUE
SPECIFICATION Spec
INVARIANTS ReadyIntact PidSafe
PROPERTIES WildOnlyInKnownWindows RoundListsReadyBelowMax

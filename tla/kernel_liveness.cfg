\* Progress and order, whatever the tasks do and wherever in a pass of the scheduler a match
\* falls, of the lowest and the highest listed priority, beside tasks of the one that is not.
CONSTANTS
    tasks_max = 3
    UINT8_MAX <- MaxUInt8
    Priorities <- LowestHighestUnlisted
    task_memory_size <- BlockBytes
    MaxPid = 4
    BootOverrun = FALSE
    SchedulerOverrun = TRUE
    LateMatch = FALSE
SPECIFICATION FairSpec
PROPERTIES ReadyTaskRuns WaiterReturns HighestPriorityFirst

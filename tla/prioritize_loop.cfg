\* Every table of three tasks, with the priority that is never listed too.
CONSTANTS
    tasks_max = 3
    UINT8_MAX = 4
    Priorities = {0, 1, 3, 4}
SPECIFICATION FairSpec
INVARIANTS TypeOK ReturnsPrioritized
PROPERTIES Returns
CHECK_DEADLOCK FALSE

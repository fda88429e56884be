\* The example program in five slots.
CONSTANTS
    tasks_max = 5
    UINT8_MAX = 255
    Priorities = {0, 1, 2}
    MaxPid = 8
SPECIFICATION UserSpec
INVARIANTS UserTypeOK UserSafe DoneMeansDone FullOnlyBesideWorker2
PROPERTIES Stops

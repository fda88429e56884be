\* Four slots and six pids: the counter wraps while ended tasks still hold pids.
CONSTANTS
    tasks_max = 4
    pid_values = 6
SPECIFICATION Spec
INVARIANTS TypeOK AloneIsFound

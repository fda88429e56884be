\* The header's layout.
CONSTANTS
    tasks_max = 5
    registers_start = 511
    canary_start = 516
    canary_end = 512
    os_stack_start = 1023
    os_stack_end = 517
    task_ram_start = 4095
    task_ram_end = 848
    num_context_switch_overhead_bytes = 36
    Steps = {37}
    MaxGrowth = 37
SPECIFICATION Spec
INVARIANTS RejectsNoStackWithRoom

\* Four blocks of 300 bytes where the header has five of 649, and areas shorter than the
\* header's, in its order and with its overlap of the OS stack and the first block.  A task
\* grows in steps of 37 bytes, by up to three between two switches.
CONSTANTS
    tasks_max = 4
    registers_start = 511
    canary_start = 516
    canary_end = 512
    os_stack_start = 623
    os_stack_end = 517
    task_ram_start = 1783
    task_ram_end = 583
    num_context_switch_overhead_bytes = 36
    Steps = {37}
    MaxGrowth = 111
SPECIFICATION Spec
INVARIANTS TypeOK SpillBounded RejectsOnlyFullStacks

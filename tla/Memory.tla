------------------------------- MODULE Memory -------------------------------
(***************************************************************************)
(* The layout of the RAM (memory_layout.hpp, memory.cpp) and the checks of *)
(* a stack pointer the scheduler makes before and after a task has the     *)
(* CPU, by address.  Nothing stops a task at the end of its block: what    *)
(* keeps it out of its neighbour's is that a saved stack pointer must      *)
(* leave room for one more context.  What it takes between two switches no *)
(* check sees, and no check sees what it has given back by then.           *)
(*                                                                         *)
(* The order in which tasks run is Simplos's business; here it is any.     *)
(* Writes by the scheduler to its own stack are left out: each pass starts *)
(* at the same stack pointer, which no check looks at again.               *)
(***************************************************************************)
EXTENDS Integers

CONSTANTS
    tasks_max,
    registers_start, canary_start, canary_end, os_stack_start, os_stack_end,
    task_ram_start, task_ram_end,       \* an area's start is its highest address
    num_context_switch_overhead_bytes,
    Steps,          \* the bytes a task takes or gives back at a time
    MaxGrowth       \* what a task takes, at most, below where it was resumed

task_memory_size == (task_ram_start - task_ram_end) \div tasks_max

ASSUME TasksMaxAssumption == tasks_max \in Nat /\ tasks_max >= 2
ASSUME LayoutAssumption ==
    /\ {registers_start, canary_start, canary_end, os_stack_start, os_stack_end,
        task_ram_start, task_ram_end} \subseteq Nat
    /\ registers_start < canary_end /\ canary_end =< canary_start
    /\ canary_start < task_ram_end
    /\ task_ram_end < task_ram_start /\ task_ram_start < 65536
ASSUME UseAssumption ==
    /\ num_context_switch_overhead_bytes \in 0..task_ram_end
    /\ Steps \subseteq Nat \ {0}
    /\ MaxGrowth \in Nat
\* 649 bytes and 36 in the header.
ASSUME RoomAssumption == 2 * num_context_switch_overhead_bytes < task_memory_size

VARIABLES
    status,             \* of the task in each block
    task_sp_adr,        \* its saved stack pointer: the address below its last byte
    active_task_block,
    SP,
    resumed_at,         \* SP when the active task last got the CPU
    beyond,             \* how far below its own block a task has written, at most
    overwritten,        \* blocks of tasks that another block's task has written to
    canary_bytes,       \* what the bytes between the registers and the stacks hold
    mode

vars == <<status, task_sp_adr, active_task_block, SP, resumed_at, beyond, overwritten,
          canary_bytes, mode>>

Blocks == 0..(tasks_max - 1)
SchedulerBlock == 1

task_sp_range_low_downward(block) == task_ram_end - task_memory_size * block

task_sp_range_low(block) == task_ram_end + task_memory_size * block
task_sp_range_high(block) == task_sp_range_low(block) + task_memory_size - 1

in_region(address, region_start, region_end) ==
    region_end =< address /\ address =< region_start

\* memory_region, when the answer is TASK_RAM: none of the regions asked for before it.
in_task_ram(sp) ==
    /\ ~in_region(sp, registers_start, 0)
    /\ ~in_region(sp, canary_start, canary_end)
    /\ ~in_region(sp, os_stack_start, os_stack_end)
    /\ in_region(sp, task_ram_start, task_ram_end)

mem_adr_belongs_to_task(adr, block) ==
    in_region(adr, task_sp_range_high(block), task_sp_range_low(block))

assert_task_pointer_integrity_present_only(block, sp, canaries) ==
    in_task_ram(sp) /\ mem_adr_belongs_to_task(sp, block) /\ canaries = "set"

assert_task_pointer_integrity_two_contexts(block, sp, canaries) ==
    /\ in_task_ram(sp) /\ canaries = "set"
    /\ mem_adr_belongs_to_task(sp - 2 * num_context_switch_overhead_bytes, block)

\* The saved stack pointer, and what it will be with one more context: uint16_t.
assert_task_pointer_integrity(block, sp, canaries) ==
    /\ in_task_ram(sp)
    /\ mem_adr_belongs_to_task(sp, block)
    /\ mem_adr_belongs_to_task((sp - num_context_switch_overhead_bytes) % 65536, block)
    /\ canaries = "set"

-----------------------------------------------------------------------------
\* Pushing `bytes' writes the addresses SP - bytes + 1 to SP.
Hit(low, high, bytes) == low =< SP /\ SP - bytes < high

Victims(bytes) ==
    {b \in Blocks \ {active_task_block} :
        status[b] # "EMPTY" /\ Hit(task_sp_range_low(b), task_sp_range_high(b), bytes)}

\* A byte that overwrites a canary may be the canary's value.
CanariesAfter(bytes) ==
    IF Hit(canary_end, canary_start, bytes) THEN {canary_bytes, "changed"} ELSE {canary_bytes}

Larger(a, b) == IF a < b THEN b ELSE a

\* A push; who has no task any more has nothing to lose.  Pushes that would reach the
\* registers, beyond the canaries, are not followed.
Pushed(bytes) ==
    /\ registers_start =< SP - bytes
    /\ beyond' = Larger(beyond, task_sp_range_low(active_task_block) - (SP - bytes + 1))
    /\ overwritten' = {b \in overwritten \cup Victims(bytes) : status'[b] # "EMPTY"}
    /\ canary_bytes' \in CanariesAfter(bytes)

\* Who gets the CPU goes on from its own stack, or anywhere if another has written to it.
GoesOn(block, next_mode) ==
    mode' \in {next_mode} \cup (IF block \in overwritten' THEN {"astray"} ELSE {})

Runs(block, sp) == active_task_block' = block /\ SP' = sp /\ resumed_at' = sp

\* The first task runs in block 0 and has started the scheduler in block 1.
Init ==
    /\ status = [b \in Blocks |-> IF b = 0 THEN "RUNNING" ELSE
                                  IF b = SchedulerBlock THEN "SCHEDULER" ELSE "EMPTY"]
    /\ task_sp_adr = [b \in Blocks |-> task_sp_range_high(b)]
    /\ active_task_block = 0
    /\ SP = task_sp_range_high(0) /\ resumed_at = SP
    /\ beyond = 0 /\ overwritten = {}
    /\ canary_bytes = "set"
    /\ mode = "task"

Call(bytes) ==
    /\ mode = "task"
    /\ resumed_at - (SP - bytes) =< MaxGrowth
    /\ UNCHANGED <<status, task_sp_adr, active_task_block, resumed_at, mode>>
    /\ Pushed(bytes)
    /\ SP' = SP - bytes

Return(bytes) ==
    /\ mode = "task"
    /\ SP + bytes =< task_sp_range_high(active_task_block)
    /\ SP' = SP + bytes
    /\ UNCHANGED <<status, task_sp_adr, active_task_block, resumed_at, beyond, overwritten,
                   canary_bytes, mode>>

\* A yield or the timer, and handle_previous_task.
Suspend ==
    LET saved == SP - num_context_switch_overhead_bytes
    IN  /\ mode = "task"
        /\ status' = [status EXCEPT ![active_task_block] = "READY"]
        /\ Pushed(num_context_switch_overhead_bytes)
        /\ task_sp_adr' = [task_sp_adr EXCEPT ![active_task_block] = saved]
        /\ GoesOn(SchedulerBlock,
                  IF assert_task_pointer_integrity(active_task_block, saved, canary_bytes')
                  THEN "scheduler" ELSE "halted")
        /\ UNCHANGED <<active_task_block, SP, resumed_at>>

\* spawn_task: the caller is saved without a check, and the new task runs.
Spawn(new) ==
    /\ mode = "task"
    /\ status[new] = "EMPTY"
    /\ status' = [status EXCEPT ![active_task_block] = "READY", ![new] = "RUNNING"]
    /\ Pushed(num_context_switch_overhead_bytes)
    /\ task_sp_adr' = [task_sp_adr EXCEPT ![active_task_block] =
                          SP - num_context_switch_overhead_bytes]
    /\ Runs(new, task_sp_range_high(new))
    /\ UNCHANGED mode

\* kill_current_task, when the task's function has returned.  Its k_yield still pushes a
\* context, and handle_previous_task looks at no stack pointer of an EMPTY task.
Exit ==
    /\ mode = "task"
    /\ active_task_block # 0 /\ SP = task_sp_range_high(active_task_block)
    /\ status' = [status EXCEPT ![active_task_block] = "EMPTY"]
    /\ Pushed(num_context_switch_overhead_bytes)
    /\ task_sp_adr' = [task_sp_adr EXCEPT ![active_task_block] =
                          task_sp_range_high(active_task_block)]
    /\ GoesOn(SchedulerBlock, "scheduler")
    /\ UNCHANGED <<active_task_block, SP, resumed_at>>

\* prepare_next_task, and the switch that goes to the task.
Resume(block) ==
    /\ mode = "scheduler"
    /\ status[block] = "READY"
    /\ UNCHANGED <<task_sp_adr, beyond, overwritten, canary_bytes>>
    /\ IF assert_task_pointer_integrity(block, task_sp_adr[block], canary_bytes)
       THEN /\ status' = [status EXCEPT ![block] = "RUNNING"]
            /\ Runs(block, task_sp_adr[block] + num_context_switch_overhead_bytes)
            /\ GoesOn(block, "task")
       ELSE /\ mode' = "halted"
            /\ active_task_block' = block
            /\ UNCHANGED <<status, SP, resumed_at>>

halt_exec == mode = "halted" /\ UNCHANGED vars

\* What follows on an overwritten stack is not followed.
GoneAstray == mode = "astray" /\ UNCHANGED vars

Next ==
    \/ \E bytes \in Steps : Call(bytes) \/ Return(bytes)
    \/ Suspend \/ Exit
    \/ \E block \in Blocks : Spawn(block) \/ Resume(block)
    \/ halt_exec \/ GoneAstray

Spec == Init /\ [][Next]_vars

-----------------------------------------------------------------------------
(* Properties *)

\* Type correctness.
TypeOK ==
    /\ status \in [Blocks -> {"EMPTY", "READY", "RUNNING", "SCHEDULER"}]
    /\ task_sp_adr \in [Blocks -> Nat]
    /\ active_task_block \in Blocks
    /\ SP \in Nat /\ resumed_at \in Nat /\ beyond \in Nat
    /\ overwritten \subseteq Blocks
    /\ canary_bytes \in {"set", "changed"}
    /\ mode \in {"task", "scheduler", "halted", "astray"}

\* The part of a task's growth between two switches that the checks make no room for: they
\* leave it a context and a byte, and the context the next switch saves.
Unprotected == Larger(0, MaxGrowth - num_context_switch_overhead_bytes - 1)

\* However often a task is suspended and resumed ever deeper, with a check or, by
\* spawn_task, without one, it never writes further below its block than the growth of a
\* single turn takes it: the checks (assert_task_pointer_integrity) stop the kernel before
\* the next.  As long as no task grows so far, no stack and no canary is written to by a
\* task they do not belong to.
SpillBounded ==
    /\ beyond =< Unprotected
    /\ beyond = 0 => overwritten = {} /\ canary_bytes = "set"

\* Bytes left for the context that stopped the kernel.
RoomLeft == task_sp_adr[active_task_block] + 1 - task_sp_range_low(active_task_block)

\* The checks stop no task that has room for another context below the one it saved, as
\* long as the canaries are whole; in the blocks memory_region sees as task RAM, which the
\* first is not (see RejectsNoStackWithRoom).
RejectsOnlyFullStacks ==
    mode = "halted" /\ os_stack_start < task_sp_range_low(active_task_block) =>
        RoomLeft =< num_context_switch_overhead_bytes \/ canary_bytes = "changed"

\* memory_layout.hpp:9-10, "0x205 - 0x34F # OS stack" and "0x350 - 0xFFF # (5) task stack":
\* the same of every block.  Does not hold: os_stack_start is 0x3FF.
RejectsNoStackWithRoom ==
    mode = "halted" => RoomLeft =< num_context_switch_overhead_bytes \/ canary_bytes = "changed"

=============================================================================

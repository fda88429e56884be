------------------------- MODULE SimplosRefinement -------------------------
(***************************************************************************)
(* Simplos implements AbstractTasks: the refinement mapping.  A task's     *)
(* abstract state is read from its slot and from the one place its context *)
(* is in: the CPU, the stack pointer stored for it, or, between a switch   *)
(* and the scheduler's next step, the globals of the switch.               *)
(***************************************************************************)
EXTENDS Simplos

InTaskSlot(s) == tasks[s].status \in {"READY", "RUNNING"}

\* The scheduler is created like a task, and is one no longer once it runs its function.
IsScheduler(s) ==
    \/ tasks[s].status = "SCHEDULER"
    \/ cpu.at = "sched_start" /\ s = active_task_block

TasksNow == {s \in Slots : InTaskSlot(s) /\ ~IsScheduler(s)}

TaskCodeAt == cpu.at \in TaskLabels

\* Where the context of a living task is when the CPU does not hold it.
ContextPlace(s) ==
    IF tasks[s].status = "READY" THEN tasks[s].task_sp_adr
    ELSE IF mode = "switch" THEN next_task_sp ELSE prev_task_sp

\* A task whose context is nowhere waits for a task that will never be.
Lost == [at |-> "dead", i |-> FALSE, pid |-> MaxPid, ptr |-> 0]

Context(s) ==
    IF TaskCodeAt /\ s = active_task_block THEN cpu
    ELSE IF ContextPlace(s) \in DOMAIN frames THEN frames[ContextPlace(s)] ELSE Lost

Doing(context) ==
    IF context.at \in {"idle", "user"} THEN [waiting |-> FALSE, pid |-> 0]
                                       ELSE [waiting |-> TRUE, pid |-> context.pid]

task_bar ==
    [s \in TasksNow |-> [pid |-> tasks[s].pid, priority |-> tasks[s].priority,
                         doing |-> Doing(Context(s))]]

running_bar ==
    IF TaskCodeAt /\ mode \in {"run", "halted"} THEN active_task_block ELSE tasks_max

\* Chosen by select_next_task, and on its way to the CPU through the scheduler's yield.
chosen_bar ==
    IF \/ cpu.at = "sched_prepare"
       \/ cpu.at = "sched_loop" /\ mode = "switch"
       \/ TaskCodeAt /\ mode = "tail"
    THEN active_task_block
    ELSE tasks_max

order_bar == [k \in 0..(queue_position - 1) |-> task_index_queue[k]]

scheduler_bar ==
    IF cpu.at \notin {"main", "idle", "sched_start"} THEN scheduler_task_sp.block
    ELSE IF cpu.at = "sched_start" THEN active_task_block ELSE tasks_max

halted_bar == mode = "halted"

Abstract ==
    INSTANCE AbstractTasks
    WITH task <- task_bar, running <- running_bar, chosen <- chosen_bar, order <- order_bar,
         scheduler <- scheduler_bar, halted <- halted_bar

\* The kernel keeps the promises of AbstractTasks: through every preemption, spawn, exit and
\* reuse of a slot, a task goes on exactly where it was, in rounds of descending priority.
ImplementsAbstractTasks == Abstract!Spec

=============================================================================

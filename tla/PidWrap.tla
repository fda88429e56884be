------------------------------ MODULE PidWrap ------------------------------
(***************************************************************************)
(* The pid counter beyond its range.  pid_cnt is a uint16_t: after 65536   *)
(* tasks the pids repeat.  Simplos stops short of that (MaxPid); here only *)
(* the task table and the counter are kept, and the counter wraps.         *)
(***************************************************************************)
EXTENDS Integers, FiniteSetsExt

CONSTANTS
    tasks_max,
    pid_values      \* 65536

ASSUME TasksMaxAssumption == tasks_max \in Nat /\ tasks_max >= 2
ASSUME PidAssumption == pid_values \in Nat /\ pid_values > 0

VARIABLES
    status,     \* of each slot: "EMPTY" or "LIVING"
    pid,        \* of each slot's task, living or ended
    alone,      \* living tasks whose pid no other living task has had in their time
    pid_cnt,
    mode        \* "startup": at the start of main

vars == <<status, pid, alone, pid_cnt, mode>>

Slots == 0..(tasks_max - 1)
Living == {s \in Slots : status[s] = "LIVING"}

add_to_task_list_last(empty) == Max(empty)

\* The first EMPTY slot.
add_to_task_list(empty) == Min(empty)

wrapped_too_late(n) == n % (pid_values + 1)

\* What a uint16_t holds of n.
wrapped(n) == n % pid_values

\* A new task, in one of the slots that are `empty'.
create_simplos_task(empty) ==
    LET new == add_to_task_list(empty)
        twins == {s \in Slots \ empty : pid[s] = pid_cnt}
    IN  /\ status' = [s \in Slots |-> IF s = new \/ s \notin empty THEN "LIVING" ELSE "EMPTY"]
        /\ pid' = [pid EXCEPT ![new] = pid_cnt]
        /\ alone' = IF twins = {} THEN (alone \ empty) \cup {new} ELSE alone \ (twins \cup empty)
        /\ pid_cnt' = wrapped(pid_cnt + 1)

\* The globals are zeroed.
Init ==
    /\ status = [s \in Slots |-> "EMPTY"]
    /\ pid = [s \in Slots |-> 0]
    /\ alone = {}
    /\ pid_cnt = 0
    /\ mode = "startup"

FATAL_ERROR == mode' = "halted" /\ UNCHANGED <<status, pid, alone, pid_cnt>>

\* main: verify_that_kernel_is_uninitilized, then init_task_list and the idle task.
main ==
    /\ mode = "startup"
    /\ IF pid_cnt # 0 THEN FATAL_ERROR ELSE create_simplos_task(Slots) /\ mode' = "run"

spawn_task ==
    /\ mode = "run"
    /\ IF Living = Slots THEN FATAL_ERROR
                         ELSE create_simplos_task(Slots \ Living) /\ mode' = mode

\* kill_current_task leaves the pid in the slot.  The first two tasks are the idle task and
\* the scheduler, which do not end.
kill_current_task(s) ==
    /\ mode = "run" /\ s \in Living \ {0, 1}
    /\ status' = [status EXCEPT ![s] = "EMPTY"]
    /\ alone' = alone \ {s}
    /\ UNCHANGED <<pid, pid_cnt, mode>>

\* "Memory corruption might cause the uC to wrap aroud and re-intiate the starup process."
WrapAround ==
    /\ mode = "run"
    /\ mode' = "startup"
    /\ UNCHANGED <<status, pid, alone, pid_cnt>>

halt_exec == mode = "halted" /\ UNCHANGED vars

Next == main \/ spawn_task \/ WrapAround \/ halt_exec \/ \E s \in Slots : kill_current_task(s)

Spec == Init /\ [][Next]_vars

-----------------------------------------------------------------------------
Holding(p) == {s \in Slots : pid[s] = p}

\* The first slot with the pid, its task living or not.
get_task(p) == Min(Holding(p))

\* Type correctness.
TypeOK ==
    /\ status \in [Slots -> {"EMPTY", "LIVING"}]
    /\ pid \in [Slots -> 0..(pid_values - 1)]
    /\ alone \subseteq Living
    /\ pid_cnt \in 0..(pid_values - 1)
    /\ mode \in {"startup", "run", "halted"}

\* A living task is found by its pid, though ended tasks of an earlier round of the counter
\* have left theirs in other slots, as long as no other task with its pid has lived beside it.
AloneIsFound == \A s \in alone : get_task(pid[s]) = s

=============================================================================

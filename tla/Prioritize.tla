----------------------------- MODULE Prioritize -----------------------------
(***************************************************************************)
(* prioritize_tasks (scheduler.cpp): the order in which one scheduling     *)
(* round serves the READY tasks.  The program scans the priorities upward  *)
(* and, for each, the task list upward; here the result of that scan is    *)
(* given in closed form: a task's place in the list is the number of       *)
(* schedulable tasks that precede it.  PrioritizeLoop has the scan itself  *)
(* and shows the two equal.                                                *)
(***************************************************************************)
EXTENDS Integers, FiniteSets

CONSTANTS
    tasks_max,      \* number of task slots; 5 in memory_layout.hpp
    UINT8_MAX,      \* largest priority a uint8_t holds; 255
    Priorities      \* the priorities tasks may have

ASSUME TasksMaxAssumption == tasks_max \in Nat /\ tasks_max >= 2
ASSUME UInt8Assumption == UINT8_MAX \in Nat /\ tasks_max =< UINT8_MAX
ASSUME PrioritiesAssumption == 0 \in Priorities /\ Priorities \subseteq 0..UINT8_MAX

Slots == 0..(tasks_max - 1)

Schedulable_one_short(tasks) ==
    {s \in Slots : tasks[s].status = "READY" /\ tasks[s].priority < UINT8_MAX - 1}

Schedulable_not_empty(tasks) ==
    {s \in Slots : tasks[s].status # "EMPTY" /\ tasks[s].priority < UINT8_MAX}

\* The scan stops below UINT8_MAX: a task of that priority is never listed.
Schedulable(tasks) ==
    {s \in Slots : tasks[s].status = "READY" /\ tasks[s].priority < UINT8_MAX}

Precedes_descending(tasks, s, t) ==
    \/ tasks[s].priority > tasks[t].priority
    \/ tasks[s].priority = tasks[t].priority /\ s < t

Precedes(tasks, s, t) ==
    \/ tasks[s].priority < tasks[t].priority
    \/ tasks[s].priority = tasks[t].priority /\ s < t

PlaceOf(tasks, t) == Cardinality({s \in Schedulable(tasks) : Precedes(tasks, s, t)})

num_prioritized(tasks) == Cardinality(Schedulable(tasks))

\* out_priority_list after the call; entries from num_prioritized on are kept.
prioritize_tasks(tasks, out_priority_list) ==
    [k \in DOMAIN out_priority_list |->
        IF k < num_prioritized(tasks)
        THEN CHOOSE t \in Schedulable(tasks) : PlaceOf(tasks, t) = k
        ELSE out_priority_list[k]]

=============================================================================

--------------------------- MODULE PrioritizeLoop ---------------------------
(***************************************************************************)
(* The scan of prioritize_tasks (scheduler.cpp) as the program makes it:   *)
(* for every priority below UINT8_MAX, for every task.  It is called with  *)
(* MT disabled, so the table does not change while it runs.                *)
(***************************************************************************)
EXTENDS Prioritize

VARIABLES
    tasks,              \* the table, a parameter
    given,              \* *out_priority_list as the call found it
    out_priority_list,
    num_sored, priority, i      \* the locals; num_sored as the source spells it

loop == <<out_priority_list, num_sored, priority, i>>
vars == <<tasks, given, loop>>

Tables == [Slots -> [status : {"READY", "EMPTY"}, priority : Priorities]]
Lists == [0..tasks_max -> Slots]

Init ==
    /\ tasks \in Tables
    /\ given \in {[k \in 0..tasks_max |-> s] : s \in Slots}
    /\ out_priority_list = given
    /\ num_sored = 0
    /\ priority = 0
    /\ i = 0

\* `priority <= UINT8_MAX' is true of every uint8_t.
Scanning_for_ever == priority =< UINT8_MAX

Scanning == priority < UINT8_MAX

\* One task of the inner loop; the locals are uint8_t.
Visit ==
    /\ Scanning /\ i < tasks_max
    /\ IF tasks[i].status = "READY" /\ tasks[i].priority = priority
       THEN /\ out_priority_list' = [out_priority_list EXCEPT ![num_sored] = i]
            /\ num_sored' = (num_sored + 1) % (UINT8_MAX + 1)
       ELSE UNCHANGED <<out_priority_list, num_sored>>
    /\ i' = i + 1
    /\ UNCHANGED <<tasks, given, priority>>

next_priority_one_short ==
    /\ Scanning /\ i >= tasks_max - 1
    /\ priority' = (priority + 1) % (UINT8_MAX + 1)
    /\ i' = 0
    /\ UNCHANGED <<tasks, given, out_priority_list, num_sored>>

\* The next pass of the outer loop.
next_priority ==
    /\ Scanning /\ i = tasks_max
    /\ priority' = (priority + 1) % (UINT8_MAX + 1)
    /\ i' = 0
    /\ UNCHANGED <<tasks, given, out_priority_list, num_sored>>

Next == Visit \/ next_priority

Spec == Init /\ [][Next]_vars
FairSpec == Spec /\ WF_vars(Next)

-----------------------------------------------------------------------------
\* The scan stays inside the list it fills, whose length is task_queue_length.
TypeOK ==
    /\ tasks \in Tables
    /\ {given, out_priority_list} \subseteq Lists
    /\ num_sored \in 0..tasks_max
    /\ priority \in 0..UINT8_MAX
    /\ i \in 0..tasks_max

\* The call returns the list and the count that Prioritize gives in closed form, which the
\* kernel's model uses as one step.
ReturnsPrioritized ==
    ~Scanning =>
        /\ out_priority_list = prioritize_tasks(tasks, given)
        /\ num_sored = num_prioritized(tasks)

\* The call returns: the outer loop's bound is one a uint8_t can reach.
Returns == <>~Scanning

=============================================================================

--------------------------- MODULE AbstractTasks ---------------------------
(***************************************************************************)
(* What simplos promises its tasks, without stacks, stack pointers,        *)
(* interrupts or a scheduler that takes time: a task, once given the CPU,  *)
(* goes on exactly where it was when it lost it; one task runs at a time;  *)
(* the CPU goes round the tasks in order of priority, but for those of the *)
(* one priority it leaves out; a wait ends when the task waited for has    *)
(* ended, not before.                                                      *)
(*                                                                         *)
(* The slots are places for a stack: which of the free ones a task gets is *)
(* left open.  The scheduler holds one of them and is no task.             *)
(***************************************************************************)
EXTENDS Integers, FiniteSets

CONSTANTS
    tasks_max,      \* places for tasks, the scheduler's among them
    UINT8_MAX,      \* the priority the rounds leave out
    Priorities,     \* the priorities a task may ask for
    MaxPid          \* bound: tasks created in a behaviour

VARIABLES
    task,           \* by slot, the living tasks: pid, priority and what each is doing
    running,        \* the slot of the task that executes, or Nobody
    chosen,         \* the slot of the task that is given the CPU next, or Nobody
    order,          \* the rest of the round, in ascending order, served from its end
    scheduler,      \* the scheduler's slot, Nobody before it has started
    pid_cnt,        \* tasks created so far, the scheduler included
    halted

vars == <<task, running, chosen, order, scheduler, pid_cnt, halted>>

Slots == 0..(tasks_max - 1)
Nobody == tasks_max
SchedulerPid == 1

\* A task works, or is in a wait for the task `pid'.
Working == [waiting |-> FALSE, pid |-> 0]
WaitingFor(pid) == [waiting |-> TRUE, pid |-> pid]

Task(pid, priority) == [pid |-> pid, priority |-> priority, doing |-> Working]
With(s, t) == [x \in DOMAIN task \cup {s} |-> IF x = s THEN t ELSE task[x]]
Without(s) == [x \in DOMAIN task \ {s} |-> task[x]]

Free == Slots \ (DOMAIN task \cup {scheduler})
NoRound == [k \in {} |-> 0]

Listed == {s \in DOMAIN task : task[s].priority < UINT8_MAX}

\* A round: every listed task once, none before one of lower priority.
Round(list) ==
    /\ {list[k] : k \in DOMAIN list} = Listed
    /\ \A j, k \in DOMAIN list :
          j < k => /\ list[j] # list[k]
                   /\ task[list[j]].priority =< task[list[k]].priority

Runs(s) == running = s /\ s \in DOMAIN task /\ ~halted
Works(s) == Runs(s) /\ ~task[s].doing.waiting

-----------------------------------------------------------------------------
Init ==
    /\ task = [s \in {} |-> 0]
    /\ running = Nobody /\ chosen = Nobody
    /\ order = NoRound
    /\ scheduler = Nobody
    /\ pid_cnt = 0
    /\ halted = FALSE

\* The first task, and the scheduler, which it starts before anything else.
Boot ==
    /\ pid_cnt = 0
    /\ \E s \in Slots : task' = With(s, Task(0, 0)) /\ running' = s
    /\ pid_cnt' = 1
    /\ UNCHANGED <<chosen, order, scheduler, halted>>

StartScheduler ==
    /\ pid_cnt = SchedulerPid /\ running # Nobody
    /\ scheduler' \in Free
    /\ running' = Nobody
    /\ pid_cnt' = pid_cnt + 1
    /\ UNCHANGED <<task, chosen, order, halted>>

\* The new task runs at once; the next choice starts a new round.
Spawn(s, priority) ==
    /\ Works(s) /\ scheduler # Nobody /\ pid_cnt < MaxPid
    /\ \E new \in Free :
          /\ task' = With(new, Task(pid_cnt, priority))
          /\ running' = new
    /\ pid_cnt' = pid_cnt + 1
    /\ order' = NoRound
    /\ UNCHANGED <<chosen, scheduler, halted>>

Exit(s) ==
    /\ Works(s) /\ task[s].pid # 0
    /\ task' = Without(s)
    /\ running' = Nobody
    /\ order' = NoRound
    /\ UNCHANGED <<chosen, scheduler, pid_cnt, halted>>

\* A task loses the CPU, by its own yield, in a wait, or to the timer.
Release(s) ==
    /\ Runs(s) /\ scheduler # Nobody
    /\ running' = Nobody
    /\ UNCHANGED <<task, chosen, order, scheduler, pid_cnt, halted>>

Rounds(list) == IF order = NoRound THEN Round(list) ELSE list = order

\* The next task of the round, or the first of a new one.
Choose ==
    /\ running = Nobody /\ chosen = Nobody /\ scheduler # Nobody /\ ~halted
    /\ \E n \in 1..tasks_max : \E list \in [0..(n - 1) -> DOMAIN task] :
          /\ Rounds(list)
          /\ chosen' = list[n - 1]
          /\ order' = [k \in 0..(n - 2) |-> list[k]]
    /\ UNCHANGED <<task, running, scheduler, pid_cnt, halted>>

\* It goes on where it was: task is unchanged.
Resume ==
    /\ chosen # Nobody /\ ~halted
    /\ running' = chosen
    /\ chosen' = Nobody
    /\ UNCHANGED <<task, order, scheduler, pid_cnt, halted>>

SetPriority(s, priority) ==
    /\ Works(s)
    /\ task' = With(s, [task[s] EXCEPT !.priority = priority])
    /\ UNCHANGED <<running, chosen, order, scheduler, pid_cnt, halted>>

Wait(s, pid) ==
    /\ Works(s)
    /\ task' = With(s, [task[s] EXCEPT !.doing = WaitingFor(pid)])
    /\ UNCHANGED <<running, chosen, order, scheduler, pid_cnt, halted>>

Ended(pid) == pid # SchedulerPid /\ \A s \in DOMAIN task : task[s].pid # pid

WaitOver(s) ==
    /\ Runs(s) /\ task[s].doing.waiting
    /\ Ended(task[s].doing.pid)
    /\ task' = With(s, [task[s] EXCEPT !.doing = Working])
    /\ UNCHANGED <<running, chosen, order, scheduler, pid_cnt, halted>>

\* terminate, or a spawn when every place is taken.
Terminate(s) ==
    /\ Works(s)
    /\ halted' = TRUE
    /\ UNCHANGED <<task, running, chosen, order, scheduler, pid_cnt>>

\* What is no promise: the scheduler may find fault with a task that lost the CPU, or find
\* none to give it to.
Reject ==
    /\ running = Nobody /\ chosen = Nobody /\ scheduler # Nobody
    /\ halted' = TRUE
    /\ UNCHANGED <<task, running, chosen, order, scheduler, pid_cnt>>

Next ==
    \/ Boot \/ StartScheduler \/ Choose \/ Resume \/ Reject
    \/ \E s \in Slots :
          \/ \E priority \in Priorities : Spawn(s, priority) \/ SetPriority(s, priority)
          \/ \E pid \in 0..(MaxPid - 1) : Wait(s, pid)
          \/ Exit(s) \/ Release(s) \/ WaitOver(s) \/ Terminate(s)

Spec == Init /\ [][Next]_vars

=============================================================================

----------------------------- MODULE UserTasks -----------------------------
(***************************************************************************)
(* The example program (user_tasks.cpp): run_idle_fn and the tasks it      *)
(* starts, on the kernel's promises of AbstractTasks, which Simplos        *)
(* implements.  Five slots hold the scheduler and four tasks; the program  *)
(* has six tasks in all, and counts on some having ended.                  *)
(***************************************************************************)
EXTENDS AbstractTasks, Sequences

VARIABLES
    pids,       \* by task of the program, what spawn returned; NoPid before
    at          \* by task, the next step of its function

program == <<pids, at>>

\* memory_layout.hpp has five; MaxPid is also what stands for no pid.
ASSUME PlacesAssumption == tasks_max \in Nat /\ tasks_max > 4 /\ MaxPid \in Nat \ {0}

NoPid == MaxPid

Loop == [op |-> "loop"]         \* prints, yields or spins a fixed number of times
start(name, priority) == [op |-> "spawn", name |-> name, priority |-> priority]
wait_for(name) == [op |-> "wait", name |-> name]
Stop == [op |-> "terminate"]

wait_for_child == <<Loop, start("yielder", 1), wait_for("yielder")>>

run_idle_fn_no_wait_for_worker1 ==
    <<start("looper", 0), wait_for("looper"),
      start("worker2", 1), start("waiter", 2), start("worker1", 1),
      wait_for("waiter"), Stop>>

run_idle_fn_no_wait_for_looper ==
    <<start("looper", 0), start("worker2", 1), start("waiter", 2), start("worker1", 1),
      wait_for("waiter"), wait_for("worker1"), Stop>>

run_idle_fn_waits_for_itself ==
    <<start("looper", 0), wait_for("looper"),
      start("worker2", 1), start("waiter", 2), start("worker1", 1),
      wait_for("waiter"), wait_for("idle"), Stop>>

\* After the scheduler is started (StartScheduler).
run_idle_fn ==
    <<start("looper", 0), wait_for("looper"),
      start("worker2", 1), start("waiter", 2), start("worker1", 1),
      wait_for("waiter"), wait_for("worker1"), Stop>>

Function ==
    [idle |-> run_idle_fn, waiter |-> wait_for_child,
     looper |-> <<Loop>>, worker1 |-> <<Loop>>, worker2 |-> <<Loop>>, yielder |-> <<Loop>>]

Names == DOMAIN Function
Advanced(name) == at' = [at EXCEPT ![name] = @ + 1]

\* `name' has the CPU, in slot s, and its next step is an `op'.
Does(name, s, op) ==
    /\ Works(s) /\ scheduler # Nobody
    /\ task[s].pid = pids[name]
    /\ at[name] \in DOMAIN Function[name] /\ Function[name][at[name]].op = op

Step(name) == Function[name][at[name]]

new_task_pid_of_the_caller(s) == task[s].pid

\* What spawn returns to the task in s.
new_task_pid(s) == pid_cnt

-----------------------------------------------------------------------------
UserInit ==
    /\ Init
    /\ pids = [name \in Names |-> NoPid]
    /\ at = [name \in Names |-> 1]

Start ==
    \/ Boot /\ pids' = [pids EXCEPT !.idle = pid_cnt] /\ UNCHANGED at
    \/ StartScheduler /\ UNCHANGED program

\* The kernel halts on the scheduler's behalf.
Rejected == Reject /\ UNCHANGED program

Kernel ==
    /\ \/ Choose \/ Resume
       \/ \E s \in Slots : Release(s)
    /\ UNCHANGED program

FinishLoop(name) ==
    \E s \in Slots :
        /\ Does(name, s, "loop")
        /\ Advanced(name)
        /\ UNCHANGED <<vars, pids>>

spawn(name) ==
    \E s \in Slots :
        /\ Does(name, s, "spawn")
        /\ IF Free = {}
           THEN Terminate(s) /\ UNCHANGED program
           ELSE /\ Spawn(s, Step(name).priority)
                /\ pids' = [pids EXCEPT ![Step(name).name] = new_task_pid(s)]
                /\ Advanced(name)

wait_for_task_finnish(name) ==
    \E s \in Slots :
        \/ Does(name, s, "wait") /\ Wait(s, pids[Step(name).name]) /\ UNCHANGED program
        \/ WaitOver(s) /\ task[s].pid = pids[name] /\ Advanced(name) /\ UNCHANGED pids

terminate(name) ==
    \E s \in Slots :
        Does(name, s, "terminate") /\ Terminate(s) /\ Advanced(name) /\ UNCHANGED pids

FunctionReturns(name) ==
    \E s \in Slots :
        /\ Works(s) /\ task[s].pid = pids[name]
        /\ at[name] = Len(Function[name]) + 1
        /\ Exit(s)
        /\ UNCHANGED program

TaskStep(name) ==
    \/ FinishLoop(name) \/ spawn(name) \/ wait_for_task_finnish(name)
    \/ terminate(name) \/ FunctionReturns(name)

Stopped == halted /\ UNCHANGED <<vars, program>>

\* add_to_task_list takes the first EMPTY slot, which AbstractTasks leaves open.
add_to_task_list ==
    \A new \in (DOMAIN task' \cup {scheduler'}) \ (DOMAIN task \cup {scheduler}) :
        \A slot \in Free : new =< slot

UserNext ==
    /\ \/ Start \/ Kernel \/ Rejected \/ Stopped
       \/ \E name \in Names : TaskStep(name)
    /\ add_to_task_list

\* The loops of the tasks are finite: a task that keeps getting the CPU comes to the end of
\* its step.  Whoever has the CPU loses it, at the latest to the timer.
UserSpec ==
    /\ UserInit /\ [][UserNext]_<<vars, program>>
    /\ WF_<<vars, program>>(Start)
    /\ WF_<<vars, program>>(Kernel)
    /\ \A name \in Names : SF_<<vars, program>>(TaskStep(name))

-----------------------------------------------------------------------------
(* Properties *)

Alive(name) == pids[name] # NoPid /\ \E s \in DOMAIN task : task[s].pid = pids[name]
Terminated == at.idle > Len(run_idle_fn)

\* Type correctness, and one task per name.
UserTypeOK ==
    /\ pids \in [Names -> 0..MaxPid]
    /\ \A name \in Names : at[name] \in 1..(Len(Function[name]) + 1)
    /\ \A m, n \in Names : pids[m] = pids[n] /\ pids[m] # NoPid => m = n

\* "DONE" is printed, and the system stopped, only after the tasks run_idle_fn waits for and
\* the child one of them waits for have run to their ends; worker2 may still be at work.
DoneMeansDone ==
    Terminated =>
        \A name \in Names \ {"idle", "worker2"} :
            ~Alive(name) /\ at[name] = Len(Function[name]) + 1

\* The list of tasks overflows only while worker2, which nobody waits for, is alive: a spawn
\* of worker1 or of the yielder comes while the others hold the slots.  Whoever spawns has
\* the CPU; when the scheduler halts nobody has.
FullOnlyBesideWorker2 ==
    halted /\ running # Nobody /\ ~Terminated => Alive("worker2")

\* The program ends, or fills the list of tasks, unless the scheduler halts it before.
Stops == <>halted

=============================================================================

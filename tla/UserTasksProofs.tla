-------------------------- MODULE UserTasksProofs --------------------------
(***************************************************************************)
(* The example program's safety, on any kernel that keeps the promises of  *)
(* AbstractTasks and has five slots or more: whatever order the kernel     *)
(* runs the tasks in, and whenever it takes the CPU from them.  That a new *)
(* task gets the first free slot is not used.                              *)
(***************************************************************************)
EXTENDS UserTasks, TLAPS

Spawned(name) == pids[name] # NoPid
StepAt(name, k) == Function[name][k]
Returned(name) == at[name] = Len(Function[name]) + 1

TaskRecords ==
    [pid : 0..(MaxPid - 1), priority : Nat, doing : [waiting : BOOLEAN, pid : 0..MaxPid]]

DataOK ==
    /\ pid_cnt \in Nat /\ at \in [Names -> Nat]
    /\ \A s \in DOMAIN task : s \in Slots /\ task[s] \in TaskRecords

\* The tasks are the program's, each in one place, and a pid is given to one.
TasksNamed ==
    /\ \A s \in DOMAIN task : \E name \in Names : Spawned(name) /\ pids[name] = task[s].pid
    /\ \A s, t \in DOMAIN task : task[s].pid = task[t].pid => s = t
    /\ \A name \in Names : Spawned(name) => pids[name] < pid_cnt

\* Who has been started: whoever a step started that has been taken.
Starts ==
    /\ Spawned("idle") <=> pid_cnt > 0
    /\ \A name \in Names : \A k \in DOMAIN Function[name] :
          StepAt(name, k).op = "spawn" => (Spawned(StepAt(name, k).name) <=> at[name] > k)

\* A task that is in a wait waits for the one its function names.
WaitsNow ==
    \A name \in Names : \A s \in DOMAIN task :
        task[s].pid = pids[name] /\ task[s].doing.waiting =>
            /\ at[name] \in DOMAIN Function[name] /\ Step(name).op = "wait"
            /\ task[s].doing.pid = pids[Step(name).name]

\* Whom a task has waited for is gone for ever.
WaitsOver ==
    \A name \in Names : \A k \in DOMAIN Function[name] :
        StepAt(name, k).op = "wait" /\ at[name] > k => ~Alive(StepAt(name, k).name)

\* A function starts at its beginning, and a task ends at its end.
Lives ==
    \A name \in Names :
        /\ ~Spawned(name) => at[name] = 1
        /\ Spawned(name) /\ ~Alive(name) => Returned(name)

\* The inductive invariant: the program and the kernel agree on who has been started, who has gone
\* and whom each task waits for (spawn, wait_for_task_finnish, FunctionReturns).
UserSafe ==
    /\ UserTypeOK /\ DataOK /\ TasksNamed
    /\ Starts /\ WaitsNow /\ WaitsOver /\ Lives
    /\ FullOnlyBesideWorker2

\* Nothing halts a kernel that has not started.
NotStarted == pid_cnt = 0 => scheduler = Nobody /\ ~halted

-----------------------------------------------------------------------------
(* The program *)

LEMMA FunctionIs ==
    /\ Names = {"idle", "waiter", "looper", "worker1", "worker2", "yielder"}
    /\ Function["idle"] = run_idle_fn /\ Function["waiter"] = wait_for_child
    /\ \A name \in Names \ {"idle", "waiter"} : Function[name] = <<Loop>>
PROOF BY DEF Names, Function

LEMMA FunctionsAre ==
    /\ Len(run_idle_fn) = 8 /\ DOMAIN run_idle_fn = 1..8
    /\ run_idle_fn[1] = start("looper", 0) /\ run_idle_fn[2] = wait_for("looper")
    /\ run_idle_fn[3] = start("worker2", 1) /\ run_idle_fn[4] = start("waiter", 2)
    /\ run_idle_fn[5] = start("worker1", 1) /\ run_idle_fn[6] = wait_for("waiter")
    /\ run_idle_fn[7] = wait_for("worker1") /\ run_idle_fn[8] = Stop
    /\ Len(wait_for_child) = 3 /\ DOMAIN wait_for_child = 1..3
    /\ wait_for_child[1] = Loop /\ wait_for_child[2] = start("yielder", 1)
    /\ wait_for_child[3] = wait_for("yielder")
    /\ Len(<<Loop>>) = 1 /\ DOMAIN <<Loop>> = 1..1 /\ <<Loop>>[1] = Loop
PROOF BY DEF run_idle_fn, wait_for_child

LEMMA OpsAre ==
    /\ Loop.op = "loop" /\ Stop.op = "terminate"
    /\ \A name, priority : /\ start(name, priority).op = "spawn"
                           /\ start(name, priority).name = name
                           /\ start(name, priority).priority = priority
    /\ \A name : wait_for(name).op = "wait" /\ wait_for(name).name = name
PROOF BY DEF Loop, Stop, start, wait_for

\* Where the functions start and where they wait.
LEMMA StartsAre ==
    ASSUME NEW name \in Names, NEW k \in DOMAIN Function[name]
    PROVE  /\ StepAt(name, k).op = "spawn" =>
                 /\ StepAt(name, k).priority \in 0..2
                 /\ \/ name = "idle" /\ k = 1 /\ StepAt(name, k).name = "looper"
                    \/ name = "idle" /\ k = 3 /\ StepAt(name, k).name = "worker2"
                    \/ name = "idle" /\ k = 4 /\ StepAt(name, k).name = "waiter"
                    \/ name = "idle" /\ k = 5 /\ StepAt(name, k).name = "worker1"
                    \/ name = "waiter" /\ k = 2 /\ StepAt(name, k).name = "yielder"
           /\ StepAt(name, k).op = "wait" =>
                 \/ name = "idle" /\ k = 2 /\ StepAt(name, k).name = "looper"
                 \/ name = "idle" /\ k = 6 /\ StepAt(name, k).name = "waiter"
                 \/ name = "idle" /\ k = 7 /\ StepAt(name, k).name = "worker1"
                 \/ name = "waiter" /\ k = 3 /\ StepAt(name, k).name = "yielder"
PROOF
<1>1. CASE name = "idle"
  BY <1>1, FunctionIs, FunctionsAre, OpsAre DEF StepAt
<1>2. CASE name = "waiter"
  BY <1>2, FunctionIs, FunctionsAre, OpsAre DEF StepAt
<1>3. CASE name \notin {"idle", "waiter"}
  BY <1>3, FunctionIs, FunctionsAre, OpsAre DEF StepAt
<1> QED BY <1>1, <1>2, <1>3

\* What the proofs need to know of it: a task is started at one place of the program, not the
\* idle task, and waited for after it, by whoever has started it.
LEMMA ProgramIs ==
    /\ \A name \in Names : Len(Function[name]) \in Nat
                           /\ DOMAIN Function[name] = 1..Len(Function[name])
    /\ \A m, n \in Names : \A j \in DOMAIN Function[m], k \in DOMAIN Function[n] :
          StepAt(m, j).op = "spawn" /\ StepAt(n, k).op = "spawn"
                /\ StepAt(m, j).name = StepAt(n, k).name => m = n /\ j = k
    /\ \A m \in Names : \A k \in DOMAIN Function[m] :
          /\ StepAt(m, k).op \in {"spawn", "wait"} => StepAt(m, k).name \in Names \ {"idle"}
          /\ StepAt(m, k).op = "spawn" => StepAt(m, k).priority \in Nat
          /\ StepAt(m, k).op = "wait" =>
                \E j \in 1..(k - 1) :
                    StepAt(m, j).op = "spawn" /\ StepAt(m, j).name = StepAt(m, k).name
PROOF
<1>1. \A name \in Names : Len(Function[name]) \in Nat
                          /\ DOMAIN Function[name] = 1..Len(Function[name])
  BY FunctionIs, FunctionsAre
<1>2. ASSUME NEW m \in Names, NEW k \in DOMAIN Function[m]
      PROVE  /\ StepAt(m, k).op \in {"spawn", "wait"} => StepAt(m, k).name \in Names \ {"idle"}
             /\ StepAt(m, k).op = "spawn" => StepAt(m, k).priority \in Nat
  BY StartsAre, FunctionIs
<1>3. ASSUME NEW m \in Names, NEW k \in DOMAIN Function[m], StepAt(m, k).op = "wait"
      PROVE  \E j \in 1..(k - 1) :
                 StepAt(m, j).op = "spawn" /\ StepAt(m, j).name = StepAt(m, k).name
  <2>1. /\ StepAt("idle", 1) = start("looper", 0) /\ StepAt("idle", 4) = start("waiter", 2)
        /\ StepAt("idle", 5) = start("worker1", 1) /\ StepAt("waiter", 2) = start("yielder", 1)
    BY FunctionIs, FunctionsAre DEF StepAt
  <2>2. CASE m = "idle" /\ k = 2 /\ StepAt(m, k).name = "looper"
    BY <2>1, <2>2, OpsAre
  <2>3. CASE m = "idle" /\ k = 6 /\ StepAt(m, k).name = "waiter"
    BY <2>1, <2>3, OpsAre
  <2>4. CASE m = "idle" /\ k = 7 /\ StepAt(m, k).name = "worker1"
    BY <2>1, <2>4, OpsAre
  <2>5. CASE m = "waiter" /\ k = 3 /\ StepAt(m, k).name = "yielder"
    BY <2>1, <2>5, OpsAre
  <2> QED BY <1>3, <2>2, <2>3, <2>4, <2>5, StartsAre
<1>4. ASSUME NEW m \in Names, NEW n \in Names,
             NEW j \in DOMAIN Function[m], NEW k \in DOMAIN Function[n],
             StepAt(m, j).op = "spawn", StepAt(n, k).op = "spawn",
             StepAt(m, j).name = StepAt(n, k).name
      PROVE  m = n /\ j = k
  BY <1>4, StartsAre
<1> QED BY <1>1, <1>2, <1>3, <1>4

-----------------------------------------------------------------------------
(* The steps *)

LEMMA TypeIs ==
    ASSUME UserTypeOK
    PROVE  /\ pids \in [Names -> 0..MaxPid] /\ NoPid = MaxPid
           /\ \A name \in Names : at[name] \in Nat \ {0}
PROOF BY ProgramIs, PlacesAssumption DEF UserTypeOK, NoPid

\* A step of the kernel that leaves the tasks and the program as they are.
LEMMA KernelStep ==
    ASSUME UserSafe, UNCHANGED <<task, pids, at>>,
           halted' /\ running' # Nobody => halted /\ running # Nobody,
           pid_cnt' \in Nat, pid_cnt' >= pid_cnt, pid_cnt' > 0 <=> pid_cnt > 0
    PROVE  UserSafe'
PROOF
<1>1. UserTypeOK' /\ DataOK'
  BY DEF UserSafe, UserTypeOK, DataOK
<1>2. TasksNamed'
  BY TypeIs, PlacesAssumption DEF UserSafe, DataOK, TasksNamed, Spawned
<1>3. Starts' /\ WaitsNow'
  BY DEF UserSafe, Starts, WaitsNow, Spawned, Step
<1>4. \A name : Alive(name)' <=> Alive(name)
  BY DEF Alive
<1>5. WaitsOver' /\ Lives'
  BY <1>4 DEF UserSafe, WaitsOver, Lives, Spawned, Returned
<1>6. FullOnlyBesideWorker2'
  BY <1>4 DEF UserSafe, FullOnlyBesideWorker2, Terminated
<1> QED BY <1>1, <1>2, <1>3, <1>5, <1>6 DEF UserSafe

\* Whoever executes is one task of the program, in one place.
LEMMA Executes ==
    ASSUME UserSafe, NEW name \in Names, NEW s \in Slots, Runs(s), task[s].pid = pids[name]
    PROVE  /\ s \in DOMAIN task /\ task[s] \in TaskRecords /\ ~halted
           /\ Spawned(name) /\ Alive(name)
           /\ \A t \in DOMAIN task : task[t].pid = pids[name] => t = s
           /\ \A n \in Names : pids[n] = pids[name] => n = name
PROOF
<1>1. s \in DOMAIN task /\ task[s] \in TaskRecords /\ ~halted
  BY DEF UserSafe, DataOK, Runs
<1>2. Spawned(name)
  BY <1>1, PlacesAssumption DEF TaskRecords, Spawned, NoPid
<1> QED BY <1>1, <1>2 DEF UserSafe, TasksNamed, UserTypeOK, Alive, Spawned

\* What a step that is taken does to the functions' places.
LEMMA Advances ==
    ASSUME UserSafe, NEW name \in Names, at[name] \in DOMAIN Function[name], Advanced(name)
    PROVE  /\ at'[name] = at[name] + 1 /\ at' \in [Names -> Nat]
           /\ \A n \in Names \ {name} : at'[n] = at[n]
           /\ \A n \in Names : at'[n] \in 1..(Len(Function[n]) + 1)
           /\ \A n \in Names : \A k \in DOMAIN Function[n] :
                 at'[n] > k <=> at[n] > k \/ (n = name /\ k = at[name])
PROOF
<1>1. at \in [Names -> Nat] /\ at' = [at EXCEPT ![name] = @ + 1]
  BY DEF UserSafe, DataOK, Advanced
<1>2. /\ at'[name] = at[name] + 1 /\ at' \in [Names -> Nat]
      /\ \A n \in Names \ {name} : at'[n] = at[n]
  BY <1>1
<1>3. ASSUME NEW n \in Names
      PROVE  /\ at'[n] \in 1..(Len(Function[n]) + 1)
             /\ \A k \in DOMAIN Function[n] :
                   at'[n] > k <=> at[n] > k \/ (n = name /\ k = at[name])
  BY <1>1, <1>2, ProgramIs DEF UserSafe, UserTypeOK
<1> QED BY <1>2, <1>3

\* A task comes to the end of a loop.
LEMMA LoopStep ==
    ASSUME UserSafe, NEW name \in Names, FinishLoop(name)
    PROVE  UserSafe'
PROOF
<1>1. PICK s \in Slots : Does(name, s, "loop")
  BY DEF FinishLoop
<1>2. Advanced(name) /\ UNCHANGED <<task, halted, pid_cnt, pids>>
  BY DEF FinishLoop, vars
<1>3. /\ at[name] \in DOMAIN Function[name] /\ StepAt(name, at[name]).op = "loop"
      /\ Runs(s) /\ ~task[s].doing.waiting /\ task[s].pid = pids[name]
  BY <1>1 DEF Does, Works, StepAt
<1>4. /\ s \in DOMAIN task /\ ~halted /\ Spawned(name) /\ Alive(name)
      /\ \A t \in DOMAIN task : task[t].pid = pids[name] => t = s
  BY <1>3, Executes
<1>5. UserTypeOK' /\ DataOK' /\ TasksNamed'
  BY <1>2, <1>3, Advances DEF UserSafe, UserTypeOK, DataOK, TasksNamed, Spawned
<1>6. Starts'
  BY <1>2, <1>3, Advances DEF UserSafe, Starts, Spawned, StepAt
<1>7. WaitsNow'
  BY <1>2, <1>3, <1>4, Advances DEF UserSafe, WaitsNow, Step
<1>8. \A n : Alive(n)' <=> Alive(n)
  BY <1>2 DEF Alive
<1>9. WaitsOver'
  BY <1>2, <1>3, <1>8, Advances DEF UserSafe, WaitsOver, StepAt
<1>10. Lives'
  BY <1>2, <1>3, <1>4, <1>8, Advances DEF UserSafe, Lives, Spawned, Returned
<1>11. FullOnlyBesideWorker2'
  BY <1>2, <1>4 DEF FullOnlyBesideWorker2
<1> QED BY <1>5, <1>6, <1>7, <1>9, <1>10, <1>11 DEF UserSafe

\* One task comes to do something else.
LEMMA DoingChanges ==
    ASSUME UserSafe, NEW s \in DOMAIN task, NEW doing \in [waiting : BOOLEAN, pid : 0..MaxPid],
           task' = With(s, [task[s] EXCEPT !.doing = doing]), pids' = pids
    PROVE  /\ DOMAIN task' = DOMAIN task
           /\ \A t \in DOMAIN task : task'[t].pid = task[t].pid /\ task'[t] \in TaskRecords
           /\ task'[s].doing = doing
           /\ \A t \in DOMAIN task \ {s} : task'[t] = task[t]
           /\ \A name : Alive(name)' <=> Alive(name)
PROOF
<1>1. DOMAIN task' = DOMAIN task
  BY DEF With
<1>2. \A t \in DOMAIN task : task'[t] = IF t = s THEN [task[s] EXCEPT !.doing = doing] ELSE task[t]
  BY DEF With
<1>3. \A t \in DOMAIN task : task[t] \in TaskRecords
  BY DEF UserSafe, DataOK
<1>4. /\ \A t \in DOMAIN task : task'[t].pid = task[t].pid /\ task'[t] \in TaskRecords
      /\ task'[s].doing = doing
      /\ \A t \in DOMAIN task \ {s} : task'[t] = task[t]
  BY <1>2, <1>3 DEF TaskRecords
<1>5. \A name : Alive(name)' <=> Alive(name)
  BY <1>1, <1>4 DEF Alive
<1> QED BY <1>1, <1>4, <1>5

\* A task begins to wait.
LEMMA WaitStep ==
    ASSUME UserSafe, NEW name \in Names, NEW s \in Slots, Does(name, s, "wait"),
           Wait(s, pids[Step(name).name]), UNCHANGED program
    PROVE  UserSafe'
PROOF
<1>1. UNCHANGED <<pids, at, pid_cnt, halted>>
  BY DEF Wait, program
<1>2. /\ at[name] \in DOMAIN Function[name] /\ Step(name).op = "wait"
      /\ Runs(s) /\ task[s].pid = pids[name] /\ Step(name) = StepAt(name, at[name])
  BY DEF Does, Works, Step, StepAt
<1>3. /\ s \in DOMAIN task /\ task[s] \in TaskRecords /\ ~halted
      /\ \A t \in DOMAIN task : task[t].pid = pids[name] => t = s
      /\ \A n \in Names : pids[n] = pids[name] => n = name
  BY <1>2, Executes
<1> DEFINE doing == WaitingFor(pids[Step(name).name])
<1>4. doing \in [waiting : BOOLEAN, pid : 0..MaxPid] /\ doing.pid = pids[Step(name).name]
  BY <1>2, ProgramIs DEF UserSafe, UserTypeOK, WaitingFor
<1>5. task' = With(s, [task[s] EXCEPT !.doing = doing])
  BY DEF Wait
<1> HIDE DEF doing
<1>6. /\ DOMAIN task' = DOMAIN task
      /\ \A t \in DOMAIN task : task'[t].pid = task[t].pid /\ task'[t] \in TaskRecords
      /\ task'[s].doing = doing
      /\ \A t \in DOMAIN task \ {s} : task'[t] = task[t]
      /\ \A n : Alive(n)' <=> Alive(n)
  BY <1>1, <1>3, <1>4, <1>5, DoingChanges
<1>7. UserTypeOK' /\ DataOK' /\ TasksNamed' /\ Starts'
  BY <1>1, <1>6 DEF UserSafe, UserTypeOK, DataOK, TasksNamed, Starts, Spawned
<1>8. WaitsNow'
  BY <1>1, <1>2, <1>3, <1>4, <1>6 DEF UserSafe, WaitsNow, Step
<1>9. WaitsOver' /\ Lives' /\ FullOnlyBesideWorker2'
  BY <1>1, <1>3, <1>6
  DEF UserSafe, WaitsOver, Lives, Spawned, Returned, FullOnlyBesideWorker2
<1> QED BY <1>7, <1>8, <1>9 DEF UserSafe

\* A wait is over: nobody has the pid any more, and whoever had it was the one waited for.
LEMMA WaitOverStep ==
    ASSUME UserSafe, NEW name \in Names, NEW s \in Slots, WaitOver(s),
           task[s].pid = pids[name], Advanced(name), UNCHANGED pids
    PROVE  UserSafe'
PROOF
<1>1. UNCHANGED <<pids, pid_cnt, halted>>
  BY DEF WaitOver
<1>2. Runs(s) /\ task[s].doing.waiting /\ Ended(task[s].doing.pid)
  BY DEF WaitOver
<1>3. /\ s \in DOMAIN task /\ task[s] \in TaskRecords /\ ~halted /\ Alive(name) /\ Spawned(name)
      /\ \A t \in DOMAIN task : task[t].pid = pids[name] => t = s
      /\ \A n \in Names : pids[n] = pids[name] => n = name
  BY <1>2, Executes
<1>4. /\ at[name] \in DOMAIN Function[name] /\ Step(name).op = "wait"
      /\ task[s].doing.pid = pids[Step(name).name] /\ Step(name) = StepAt(name, at[name])
  BY <1>2, <1>3 DEF UserSafe, WaitsNow, Step, StepAt
<1>5. ~Alive(Step(name).name)
  BY <1>2, <1>4 DEF Ended, Alive
<1>6. Working \in [waiting : BOOLEAN, pid : 0..MaxPid] /\ ~Working.waiting
  BY PlacesAssumption DEF Working
<1>7. /\ DOMAIN task' = DOMAIN task
      /\ \A t \in DOMAIN task : task'[t].pid = task[t].pid /\ task'[t] \in TaskRecords
      /\ task'[s].doing = Working
      /\ \A t \in DOMAIN task \ {s} : task'[t] = task[t]
      /\ \A n : Alive(n)' <=> Alive(n)
  BY <1>1, <1>3, <1>6, DoingChanges DEF WaitOver
<1>8. UserTypeOK' /\ DataOK' /\ TasksNamed'
  BY <1>1, <1>4, <1>7, Advances DEF UserSafe, UserTypeOK, DataOK, TasksNamed, Spawned
<1>9. Starts'
  BY <1>1, <1>4, Advances DEF UserSafe, Starts, Spawned, StepAt
<1>10. WaitsNow'
  BY <1>1, <1>3, <1>4, <1>6, <1>7, Advances DEF UserSafe, WaitsNow, Step
<1>11. WaitsOver'
  BY <1>1, <1>4, <1>5, <1>7, Advances DEF UserSafe, WaitsOver, StepAt
<1>12. Lives'
  BY <1>1, <1>3, <1>4, <1>7, Advances DEF UserSafe, Lives, Spawned, Returned
<1>13. FullOnlyBesideWorker2'
  BY <1>1, <1>3 DEF FullOnlyBesideWorker2
<1> QED BY <1>8, <1>9, <1>10, <1>11, <1>12, <1>13 DEF UserSafe

\* The idle task stops the system at the end of its function.
LEMMA TerminateStep ==
    ASSUME UserSafe, NEW name \in Names, terminate(name)
    PROVE  UserSafe'
PROOF
<1>1. PICK s \in Slots : Does(name, s, "terminate") /\ Terminate(s) /\ Advanced(name)
  BY DEF terminate
<1>2. UNCHANGED <<pids, task, pid_cnt>>
  BY <1>1 DEF terminate, Terminate
<1>3. /\ at[name] \in DOMAIN Function[name] /\ StepAt(name, at[name]).op = "terminate"
      /\ Runs(s) /\ ~task[s].doing.waiting /\ task[s].pid = pids[name]
  BY <1>1 DEF Does, Works, StepAt
<1>4. /\ s \in DOMAIN task /\ ~halted /\ Spawned(name) /\ Alive(name)
      /\ \A t \in DOMAIN task : task[t].pid = pids[name] => t = s
  BY <1>3, Executes
<1>5. UserTypeOK' /\ DataOK' /\ TasksNamed'
  BY <1>1, <1>2, <1>3, Advances DEF UserSafe, UserTypeOK, DataOK, TasksNamed, Spawned
<1>6. Starts'
  BY <1>1, <1>2, <1>3, Advances DEF UserSafe, Starts, Spawned, StepAt
<1>7. WaitsNow'
  BY <1>1, <1>2, <1>3, <1>4, Advances DEF UserSafe, WaitsNow, Step
<1>8. \A n : Alive(n)' <=> Alive(n)
  BY <1>2 DEF Alive
<1>9. WaitsOver'
  BY <1>1, <1>2, <1>3, <1>8, Advances DEF UserSafe, WaitsOver, StepAt
<1>10. Lives'
  BY <1>1, <1>2, <1>3, <1>4, <1>8, Advances DEF UserSafe, Lives, Spawned, Returned
<1>11. name = "idle" /\ at[name] = 8
  <2>1. CASE name = "idle"
    BY <1>3, <2>1, FunctionIs, FunctionsAre, OpsAre DEF StepAt
  <2>2. CASE name = "waiter"
    BY <1>3, <2>2, FunctionIs, FunctionsAre, OpsAre DEF StepAt
  <2>3. CASE name \notin {"idle", "waiter"}
    BY <1>3, <2>3, FunctionIs, FunctionsAre, OpsAre DEF StepAt
  <2> QED BY <2>1, <2>2, <2>3
<1>12. Terminated'
  <2>1. at'["idle"] = 9
    BY <1>1, <1>3, <1>11, Advances
  <2> QED BY <2>1, FunctionsAre DEF Terminated
<1> QED BY <1>5, <1>6, <1>7, <1>9, <1>10, <1>12 DEF UserSafe, FullOnlyBesideWorker2

\* A task returns from its function.
LEMMA ReturnStep ==
    ASSUME UserSafe, NEW name \in Names, FunctionReturns(name)
    PROVE  UserSafe'
PROOF
<1>1. PICK s \in Slots : Works(s) /\ task[s].pid = pids[name] /\ Exit(s)
  BY DEF FunctionReturns
<1>2. /\ UNCHANGED <<pids, at, pid_cnt, halted>> /\ Returned(name)
      /\ task' = Without(s)
  BY <1>1 DEF FunctionReturns, program, Exit, Returned
<1>3. /\ s \in DOMAIN task /\ ~halted /\ \A n \in Names : pids[n] = pids[name] => n = name
  BY <1>1, Executes DEF Works
<1>4. /\ DOMAIN task' = DOMAIN task \ {s}
      /\ \A t \in DOMAIN task' : task'[t] = task[t]
  BY <1>2 DEF Without
<1>5. UserTypeOK' /\ DataOK' /\ TasksNamed' /\ Starts' /\ WaitsNow'
  BY <1>2, <1>4
  DEF UserSafe, UserTypeOK, DataOK, TasksNamed, Starts, WaitsNow, Spawned, Step
<1>6. /\ \A n : Alive(n)' => Alive(n)
      /\ \A n \in Names \ {name} : Alive(n) => Alive(n)'
  BY <1>1, <1>2, <1>3, <1>4 DEF Alive
<1>7. WaitsOver'
  BY <1>2, <1>6 DEF UserSafe, WaitsOver
<1>8. Lives'
  BY <1>2, <1>6 DEF UserSafe, Lives, Spawned, Returned
<1>9. FullOnlyBesideWorker2'
  BY <1>2, <1>3 DEF FullOnlyBesideWorker2
<1> QED BY <1>5, <1>7, <1>8, <1>9 DEF UserSafe

\* Whoever is waited for has been started.
LEMMA WaitedForIsSpawned ==
    ASSUME UserSafe, NEW m \in Names, NEW k \in DOMAIN Function[m],
           StepAt(m, k).op = "wait", at[m] >= k
    PROVE  Spawned(StepAt(m, k).name)
PROOF
<1>1. PICK j \in 1..(k - 1) :
         StepAt(m, j).op = "spawn" /\ StepAt(m, j).name = StepAt(m, k).name
  BY ProgramIs
<1>2. j \in DOMAIN Function[m] /\ at[m] > j
  BY ProgramIs DEF UserSafe, UserTypeOK
<1> QED BY <1>1, <1>2 DEF UserSafe, Starts

\* A task starts another.
LEMMA SpawnStep ==
    ASSUME UserSafe, NEW name \in Names, NEW s \in Slots, Does(name, s, "spawn"),
           Spawn(s, Step(name).priority),
           pids' = [pids EXCEPT ![Step(name).name] = new_task_pid(s)], Advanced(name)
    PROVE  UserSafe'
PROOF
<1>1. /\ at[name] \in DOMAIN Function[name] /\ StepAt(name, at[name]).op = "spawn"
      /\ Step(name) = StepAt(name, at[name])
      /\ Runs(s) /\ ~task[s].doing.waiting /\ task[s].pid = pids[name]
  BY DEF Does, Works, Step, StepAt
<1>2. /\ s \in DOMAIN task /\ ~halted /\ Spawned(name) /\ Alive(name)
      /\ \A t \in DOMAIN task : task[t].pid = pids[name] => t = s
  BY <1>1, Executes
<1>3. PICK c \in Names \ {"idle"} : c = Step(name).name
  BY <1>1, ProgramIs
<1>4. ~Spawned(c) /\ c # name
  BY <1>1, <1>2, <1>3, TypeIs DEF UserSafe, Starts
<1>5. PICK new \in Free : task' = With(new, Task(pid_cnt, Step(name).priority))
  BY DEF Spawn
<1>6. pid_cnt < MaxPid /\ pid_cnt' = pid_cnt + 1 /\ UNCHANGED halted
  BY DEF Spawn
<1>7. pids \in [Names -> 0..MaxPid] /\ pids' = [pids EXCEPT ![c] = pid_cnt] /\ pid_cnt \in Nat
  BY <1>3, TypeIs DEF UserSafe, DataOK, new_task_pid
<1>8. pids'[c] = pid_cnt /\ \A n \in Names \ {c} : pids'[n] = pids[n]
  BY <1>3, <1>7
<1>9. /\ \A n \in Names : Spawned(n)' <=> Spawned(n) \/ n = c
      /\ \A n \in Names : Spawned(n) => pids[n] < pid_cnt /\ pids'[n] = pids[n]
  BY <1>3, <1>4, <1>6, <1>7, <1>8, PlacesAssumption
  DEF UserSafe, TasksNamed, Spawned, NoPid
<1>10. new \in Slots /\ new \notin DOMAIN task
  BY DEF Free
<1>11. /\ DOMAIN task' = DOMAIN task \cup {new}
       /\ task'[new] = Task(pid_cnt, Step(name).priority)
       /\ \A t \in DOMAIN task : task'[t] = task[t]
  BY <1>5, <1>10 DEF With
<1>12. task'[new] \in TaskRecords /\ task'[new].pid = pid_cnt /\ ~task'[new].doing.waiting
  BY <1>1, <1>6, <1>7, <1>11, ProgramIs, PlacesAssumption DEF Task, Working, TaskRecords
<1>13. \A t \in DOMAIN task : task[t].pid < pid_cnt
  BY DEF UserSafe, TasksNamed
<1>14. UserTypeOK'
  <2>1. pids' \in [Names -> 0..MaxPid]
    <3>1. pid_cnt \in 0..MaxPid
      BY <1>6, <1>7, PlacesAssumption
    <3> QED BY <1>7, <3>1
  <2>2. ASSUME NEW m \in Names, NEW n \in Names, pids'[m] = pids'[n], pids'[m] # NoPid
        PROVE  m = n
    <3>1. Spawned(m)' /\ Spawned(n)'
      BY <2>2 DEF Spawned
    <3>2. CASE m = c \/ n = c
      BY <1>7, <1>8, <1>9, <2>2, <3>1, <3>2
    <3>3. CASE m # c /\ n # c
      BY <1>8, <1>9, <2>2, <3>1, <3>3 DEF UserSafe, UserTypeOK
    <3> QED BY <3>2, <3>3
  <2> QED BY <1>1, <2>1, <2>2, Advances DEF UserTypeOK
<1>15. DataOK'
  BY <1>1, <1>6, <1>7, <1>10, <1>11, <1>12, Advances DEF UserSafe, DataOK
<1>16. TasksNamed'
  <2>1. ASSUME NEW t \in DOMAIN task'
        PROVE  \E n \in Names : Spawned(n)' /\ pids'[n] = task'[t].pid
    <3>1. CASE t = new
      BY <1>3, <1>8, <1>9, <1>12, <3>1
    <3>2. CASE t # new
      <4>1. PICK n \in Names : Spawned(n) /\ pids[n] = task[t].pid
        BY <1>11, <2>1, <3>2 DEF UserSafe, TasksNamed
      <4> QED BY <1>9, <1>11, <2>1, <3>2, <4>1
    <3> QED BY <3>1, <3>2
  <2>2. ASSUME NEW t \in DOMAIN task', NEW u \in DOMAIN task', task'[t].pid = task'[u].pid
        PROVE  t = u
    BY <1>7, <1>11, <1>12, <1>13, <2>2 DEF UserSafe, TasksNamed
  <2>3. \A n \in Names : Spawned(n)' => pids'[n] < pid_cnt'
    BY <1>6, <1>7, <1>8, <1>9
  <2> QED BY <2>1, <2>2, <2>3 DEF TasksNamed
<1>17. Starts'
  <2>1. pid_cnt > 0
    BY <1>2, <1>7, <1>9, TypeIs DEF UserSafe
  <2>2. Spawned("idle")' <=> pid_cnt' > 0
    BY <1>3, <1>6, <1>7, <1>9, <2>1, FunctionIs DEF UserSafe, Starts
  <2>3. ASSUME NEW m \in Names, NEW k \in DOMAIN Function[m], StepAt(m, k).op = "spawn"
        PROVE  Spawned(StepAt(m, k).name)' <=> at'[m] > k
    <3>1. StepAt(m, k).name = c <=> m = name /\ k = at[name]
      BY <1>1, <1>3, <2>3, ProgramIs
    <3>2. at'[m] > k <=> at[m] > k \/ (m = name /\ k = at[name])
      BY <1>1, Advances
    <3>3. StepAt(m, k).name \in Names
      BY <2>3, ProgramIs
    <3>4. Spawned(StepAt(m, k).name)' <=> Spawned(StepAt(m, k).name) \/ StepAt(m, k).name = c
      BY <1>9, <3>3
    <3> QED BY <2>3, <3>1, <3>2, <3>4 DEF UserSafe, Starts
  <2>4. \A m \in Names : \A k \in DOMAIN Function[m] :
           StepAt(m, k).op = "spawn" => (Spawned(StepAt(m, k).name)' <=> at'[m] > k)
    BY <2>3
  <2> QED BY <2>2, <2>4 DEF Starts, StepAt, Spawned
<1>18. WaitsNow'
  <2>1. ASSUME NEW n \in Names, NEW t \in DOMAIN task',
               task'[t].pid = pids'[n], task'[t].doing.waiting
        PROVE  /\ at'[n] \in DOMAIN Function[n] /\ Function[n][at'[n]].op = "wait"
               /\ task'[t].doing.pid = pids'[Function[n][at'[n]].name]
    <3>1. t \in DOMAIN task /\ task'[t] = task[t]
      BY <1>11, <1>12, <2>1
    <3>2. n # c /\ pids[n] = task[t].pid
      BY <1>7, <1>8, <1>13, <2>1, <3>1
    <3>3. /\ at[n] \in DOMAIN Function[n] /\ StepAt(n, at[n]).op = "wait"
          /\ task[t].doing.pid = pids[StepAt(n, at[n]).name]
      BY <2>1, <3>1, <3>2 DEF UserSafe, WaitsNow, Step, StepAt
    <3>4. n # name
      BY <1>1, <3>3
    <3>5. Spawned(StepAt(n, at[n]).name) /\ StepAt(n, at[n]).name \in Names
      BY <3>3, WaitedForIsSpawned, ProgramIs
    <3>6. at'[n] = at[n]
      BY <1>1, <3>4, Advances
    <3> QED BY <1>9, <3>1, <3>3, <3>5, <3>6 DEF StepAt
  <2> QED BY <2>1 DEF WaitsNow, Step
<1>19. /\ \A n \in Names \ {c} : Alive(n)' <=> Alive(n)
       /\ Alive(c)'
  <2>1. ASSUME NEW n \in Names, n # c PROVE Alive(n)' <=> Alive(n)
    <3>1. pids'[n] = pids[n] /\ (Spawned(n) => pids[n] < pid_cnt)
      BY <1>8, <1>9, <2>1
    <3>2. CASE ~Spawned(n)
      BY <3>1, <3>2 DEF Alive, Spawned
    <3>3. CASE Spawned(n)
      BY <1>7, <1>11, <1>12, <3>1, <3>3 DEF Alive, Spawned
    <3> QED BY <3>2, <3>3
  <2>2. Alive(c)'
    BY <1>3, <1>8, <1>9, <1>11, <1>12 DEF Alive, Spawned
  <2> QED BY <2>1, <2>2
<1>20. WaitsOver'
  <2>1. ASSUME NEW m \in Names, NEW k \in DOMAIN Function[m],
               StepAt(m, k).op = "wait", at'[m] > k
        PROVE  ~Alive(StepAt(m, k).name)'
    <3>1. at[m] > k
      BY <1>1, <2>1, Advances
    <3>2. StepAt(m, k).name \in Names /\ Spawned(StepAt(m, k).name)
      BY <2>1, <3>1, WaitedForIsSpawned, ProgramIs DEF UserSafe, DataOK
    <3>3. ~Alive(StepAt(m, k).name)
      BY <2>1, <3>1 DEF UserSafe, WaitsOver
    <3> QED BY <1>4, <1>19, <3>2, <3>3
  <2>2. \A m \in Names : \A k \in DOMAIN Function[m] :
           StepAt(m, k).op = "wait" /\ at'[m] > k => ~Alive(StepAt(m, k).name)'
    BY <2>1
  <2> QED BY <2>2 DEF WaitsOver, StepAt, Alive
<1>21. Lives'
  <2>1. ASSUME NEW n \in Names
        PROVE  /\ ~Spawned(n)' => at'[n] = 1
               /\ Spawned(n)' /\ ~Alive(n)' => at'[n] = Len(Function[n]) + 1
    <3>1. CASE n = name
      BY <1>2, <1>4, <1>9, <1>19, <3>1
    <3>2. CASE n # name
      BY <1>1, <1>9, <1>19, <2>1, <3>2, Advances DEF UserSafe, Lives, Returned
    <3> QED BY <3>1, <3>2
  <2> QED BY <2>1 DEF Lives, Returned
<1>22. FullOnlyBesideWorker2'
  BY <1>2, <1>6 DEF FullOnlyBesideWorker2
<1> QED BY <1>14, <1>15, <1>16, <1>17, <1>18, <1>20, <1>21, <1>22 DEF UserSafe

\* Who has been started, step by step.
LEMMA SpawnedAre ==
    ASSUME UserSafe
    PROVE  /\ Spawned("looper") <=> at["idle"] > 1
           /\ Spawned("worker2") <=> at["idle"] > 3
           /\ Spawned("waiter") <=> at["idle"] > 4
           /\ Spawned("worker1") <=> at["idle"] > 5
           /\ Spawned("yielder") <=> at["waiter"] > 2
PROOF
<1>1. /\ StepAt("idle", 1) = start("looper", 0) /\ StepAt("idle", 3) = start("worker2", 1)
      /\ StepAt("idle", 4) = start("waiter", 2) /\ StepAt("idle", 5) = start("worker1", 1)
      /\ StepAt("waiter", 2) = start("yielder", 1)
      /\ {1, 3, 4, 5} \subseteq DOMAIN Function["idle"] /\ 2 \in DOMAIN Function["waiter"]
      /\ {"idle", "waiter"} \subseteq Names
  BY FunctionIs, FunctionsAre DEF StepAt
<1> QED BY <1>1, OpsAre DEF UserSafe, Starts

\* And who has gone.
LEMMA GoneAre ==
    ASSUME UserSafe
    PROVE  /\ at["idle"] > 2 => ~Alive("looper")
           /\ at["idle"] > 6 => ~Alive("waiter")
           /\ at["idle"] > 7 => ~Alive("worker1")
           /\ at["waiter"] > 3 => ~Alive("yielder")
PROOF
<1>1. /\ StepAt("idle", 2) = wait_for("looper") /\ StepAt("idle", 6) = wait_for("waiter")
      /\ StepAt("idle", 7) = wait_for("worker1") /\ StepAt("waiter", 3) = wait_for("yielder")
      /\ {2, 6, 7} \subseteq DOMAIN Function["idle"] /\ 3 \in DOMAIN Function["waiter"]
      /\ {"idle", "waiter"} \subseteq Names
  BY FunctionIs, FunctionsAre DEF StepAt
<1> QED BY <1>1, OpsAre DEF UserSafe, WaitsOver

\* Three tasks and the scheduler leave a place.
LEMMA ThreeLeaveAPlace ==
    ASSUME UserSafe, NEW a \in Names, NEW b \in Names, NEW c \in Names,
           \A n \in Names : Alive(n) => n \in {a, b, c}
    PROVE  Free # {}
PROOF
<1>1. \A t \in DOMAIN task : task[t].pid \in {pids[a], pids[b], pids[c]}
  BY DEF UserSafe, TasksNamed, Alive, Spawned
<1>2. \A t, u \in DOMAIN task : task[t].pid = task[u].pid => t = u
  BY DEF UserSafe, TasksNamed
<1>3. SUFFICES ASSUME Free = {} PROVE FALSE
  OBVIOUS
<1>4. \A t \in 0..4 : t = scheduler \/ t \in DOMAIN task
  BY <1>3, PlacesAssumption DEF Free, Slots
<1>5. PICK t1, t2, t3, t4 \in 0..4 :
         /\ {t1, t2, t3, t4} \subseteq DOMAIN task
         /\ t1 # t2 /\ t1 # t3 /\ t1 # t4 /\ t2 # t3 /\ t2 # t4 /\ t3 # t4
  <2>1. CASE scheduler \in {0, 1}
    <3>1. PICK first \in {0, 1} : first # scheduler
      OBVIOUS
    <3>2. {first, 2, 3, 4} \subseteq DOMAIN task
      BY <1>4, <2>1, <3>1
    <3> QED BY <3>2
  <2>2. CASE scheduler \in {2, 3}
    <3>1. PICK third \in {2, 3} : third # scheduler
      OBVIOUS
    <3>2. {0, 1, third, 4} \subseteq DOMAIN task
      BY <1>4, <2>2, <3>1
    <3> QED BY <3>2
  <2>3. CASE scheduler \notin {0, 1, 2, 3}
    <3>1. {0, 1, 2, 3} \subseteq DOMAIN task
      BY <1>4, <2>3
    <3> QED BY <3>1
  <2> QED BY <2>1, <2>2, <2>3
<1>6. /\ task[t1].pid # task[t2].pid /\ task[t1].pid # task[t3].pid
      /\ task[t1].pid # task[t4].pid /\ task[t2].pid # task[t3].pid
      /\ task[t2].pid # task[t4].pid /\ task[t3].pid # task[t4].pid
  BY <1>2, <1>5
<1>7. {task[t1].pid, task[t2].pid, task[t3].pid, task[t4].pid} \subseteq {pids[a], pids[b], pids[c]}
  BY <1>1, <1>5
<1> QED BY <1>6, <1>7

\* A task finds no free slot to start another in.
LEMMA FullStep ==
    ASSUME UserSafe, NEW name \in Names, NEW s \in Slots, Does(name, s, "spawn"),
           Free = {}, Terminate(s), UNCHANGED program
    PROVE  UserSafe'
PROOF
<1>1. UNCHANGED <<task, pids, at, pid_cnt>>
  BY DEF Terminate, program
<1>2. /\ at[name] \in DOMAIN Function[name] /\ StepAt(name, at[name]).op = "spawn"
  BY DEF Does, StepAt
<1>3. \/ name = "idle" /\ at[name] \in {1, 3, 4, 5}
      \/ name = "waiter" /\ at[name] = 2
  BY <1>2, StartsAre
<1>4. Spawned(name)
  BY Executes DEF Does, Works
<1>5. at["idle"] \in Nat /\ at["waiter"] \in Nat
  BY FunctionIs DEF UserSafe, DataOK
<1>6. ~Alive("looper") /\ (~Alive("worker1") \/ ~Alive("yielder"))
  BY <1>3, <1>4, <1>5, SpawnedAre, GoneAre DEF Alive, Spawned
<1>7. Alive("worker2")
  <2>1. SUFFICES ASSUME ~Alive("worker2") PROVE FALSE
    OBVIOUS
  <2>2. PICK last \in {"worker1", "yielder"} :
           \A n \in Names : Alive(n) => n \in {"idle", "waiter", last}
    BY <1>6, <2>1, FunctionIs
  <2> QED BY <2>2, FunctionIs, ThreeLeaveAPlace
<1>8. \A n : Alive(n)' <=> Alive(n)
  BY <1>1 DEF Alive
<1>9. UserTypeOK' /\ DataOK' /\ TasksNamed' /\ Starts' /\ WaitsNow'
  BY <1>1 DEF UserSafe, UserTypeOK, DataOK, TasksNamed, Starts, WaitsNow, Spawned, Step
<1>10. WaitsOver' /\ Lives'
  BY <1>1, <1>8 DEF UserSafe, WaitsOver, Lives, Spawned, Returned
<1> QED BY <1>7, <1>8, <1>9, <1>10 DEF UserSafe, FullOnlyBesideWorker2

\* The first task.
LEMMA BootStep ==
    ASSUME UserSafe, NotStarted, Boot, pids' = [pids EXCEPT !.idle = pid_cnt], UNCHANGED at
    PROVE  UserSafe'
PROOF
<1>1. pid_cnt = 0 /\ pid_cnt' = 1 /\ UNCHANGED halted
  BY DEF Boot
<1>2. PICK s \in Slots : task' = With(s, Task(0, 0))
  BY DEF Boot
<1>3. \A n \in Names : ~Spawned(n)
  BY <1>1, TypeIs, PlacesAssumption DEF UserSafe, TasksNamed
<1>4. DOMAIN task = {} /\ \A n : ~Alive(n)
  <2>1. DOMAIN task = {}
    BY <1>3 DEF UserSafe, TasksNamed
  <2> QED BY <2>1 DEF Alive
<1>5. \A n \in Names : at[n] = 1
  BY <1>3 DEF UserSafe, Lives
<1>6. pids'["idle"] = 0 /\ \A n \in Names \ {"idle"} : pids'[n] = NoPid
  BY <1>1, <1>3, FunctionIs, TypeIs DEF UserSafe, Spawned
<1>7. \A n \in Names : Spawned(n)' <=> n = "idle"
  BY <1>6, PlacesAssumption DEF Spawned, NoPid
<1>8. DOMAIN task' = {s} /\ task'[s] = Task(0, 0)
  BY <1>2, <1>4 DEF With
<1>9. task'[s] \in TaskRecords /\ task'[s].pid = 0 /\ ~task'[s].doing.waiting
  BY <1>8, PlacesAssumption DEF Task, Working, TaskRecords
<1>10. UserTypeOK'
  <2>1. pids' \in [Names -> 0..MaxPid]
    BY <1>1, TypeIs, PlacesAssumption DEF UserSafe
  <2> QED BY <1>6, <1>7, <2>1 DEF UserSafe, UserTypeOK, Spawned
<1>11. DataOK' /\ TasksNamed'
  BY <1>1, <1>6, <1>7, <1>8, <1>9, FunctionIs DEF UserSafe, DataOK, TasksNamed
<1>12. Starts'
  <2>1. ASSUME NEW m \in Names, NEW k \in DOMAIN Function[m], StepAt(m, k).op = "spawn"
        PROVE  ~Spawned(StepAt(m, k).name)' /\ ~(at'[m] > k)
    BY <1>5, <1>7, <2>1, ProgramIs
  <2>2. Spawned("idle")' /\ pid_cnt' > 0
    BY <1>1, <1>7, FunctionIs
  <2> QED BY <2>1, <2>2 DEF Starts, StepAt, Spawned
<1>13. WaitsNow' /\ WaitsOver'
  <2>1. \A m \in Names : \A k \in DOMAIN Function[m] : ~(at'[m] > k)
    BY <1>5, ProgramIs
  <2> QED BY <1>8, <1>9, <2>1 DEF WaitsNow, WaitsOver
<1>14. Lives'
  <2>1. Alive("idle")'
    BY <1>6, <1>7, <1>8, <1>9, FunctionIs DEF Alive, Spawned
  <2> QED BY <1>5, <1>7, <2>1 DEF Lives
<1>15. ~halted
  BY <1>1 DEF NotStarted
<1> QED BY <1>1, <1>10, <1>11, <1>12, <1>13, <1>14, <1>15 DEF UserSafe, FullOnlyBesideWorker2

-----------------------------------------------------------------------------
(* The theorems *)

LEMMA InitUserSafe == UserInit => UserSafe /\ NotStarted
PROOF
<1> SUFFICES ASSUME UserInit PROVE UserSafe /\ NotStarted
  OBVIOUS
<1>1. /\ pids = [name \in Names |-> NoPid] /\ at = [name \in Names |-> 1]
      /\ DOMAIN task = {} /\ pid_cnt = 0 /\ halted = FALSE /\ scheduler = Nobody
  BY DEF UserInit, Init
<1>2. \A n \in Names : ~Spawned(n) /\ ~Alive(n)
  BY <1>1 DEF Spawned, Alive
<1>3. UserTypeOK /\ DataOK /\ TasksNamed
  BY <1>1, <1>2, ProgramIs, PlacesAssumption DEF UserTypeOK, DataOK, TasksNamed, NoPid
<1>4. Starts
  <2>1. ~Spawned("idle") /\ ~(pid_cnt > 0)
    BY <1>1, <1>2, FunctionIs
  <2>2. ASSUME NEW name \in Names, NEW k \in DOMAIN Function[name],
               StepAt(name, k).op = "spawn"
        PROVE  ~Spawned(StepAt(name, k).name) /\ ~(at[name] > k)
    <3>1. StepAt(name, k).name \in Names
      BY <2>2, ProgramIs
    <3>2. at[name] = 1 /\ k \in Nat /\ k >= 1
      BY <1>1, ProgramIs
    <3> QED BY <1>2, <3>1, <3>2
  <2> QED BY <2>1, <2>2 DEF Starts
<1>5. WaitsNow /\ WaitsOver /\ Lives
  BY <1>1, <1>2, ProgramIs DEF WaitsNow, WaitsOver, Lives
<1> QED BY <1>1, <1>3, <1>4, <1>5 DEF UserSafe, FullOnlyBesideWorker2, NotStarted

LEMMA NextNotStarted ==
    ASSUME UserSafe, NotStarted, [UserNext]_<<vars, program>>
    PROVE  NotStarted'
PROOF
<1> SUFFICES ASSUME pid_cnt' = 0 PROVE scheduler' = Nobody /\ ~halted'
  BY DEF NotStarted, Nobody
<1>1. pid_cnt \in Nat
  BY DEF UserSafe, DataOK
<1>2. CASE UNCHANGED <<vars, program>>
  BY <1>2 DEF vars, NotStarted
<1>3. CASE Start \/ Kernel \/ Rejected \/ Stopped
  BY <1>1, <1>3
  DEF Start, Boot, StartScheduler, SchedulerPid, Kernel, Choose, Resume, Release, Rejected, Reject,
      Stopped, vars, NotStarted
<1>4. ASSUME NEW name \in Names, TaskStep(name) PROVE scheduler' = Nobody /\ ~halted'
  <2>1. pid_cnt = 0 => \A s, op : ~Does(name, s, op)
    BY DEF Does, NotStarted
  <2>2. CASE FinishLoop(name) \/ spawn(name) \/ terminate(name)
    <3>1. pid_cnt # 0 /\ pid_cnt' >= pid_cnt
      BY <1>1, <2>1, <2>2 DEF FinishLoop, spawn, terminate, Spawn, Terminate, vars
    <3> QED BY <1>1, <3>1
  <2>3. CASE wait_for_task_finnish(name) \/ FunctionReturns(name)
    <3>1. UNCHANGED <<pid_cnt, scheduler, halted>>
      BY <2>3 DEF wait_for_task_finnish, FunctionReturns, Wait, WaitOver, Exit
    <3> QED BY <3>1 DEF NotStarted
  <2> QED BY <1>4, <2>2, <2>3 DEF TaskStep
<1> QED BY <1>2, <1>3, <1>4 DEF UserNext

LEMMA NextUserSafe ==
    ASSUME UserSafe, NotStarted, [UserNext]_<<vars, program>>
    PROVE  UserSafe'
PROOF
<1>1. CASE UNCHANGED <<vars, program>>
  <2>1. UNCHANGED <<task, running, pids, at, halted, pid_cnt>>
    BY <1>1 DEF vars, program
  <2> QED BY <2>1, KernelStep DEF UserSafe, DataOK
<1>2. CASE Boot /\ pids' = [pids EXCEPT !.idle = pid_cnt] /\ UNCHANGED at
  BY <1>2, BootStep
<1>3. CASE StartScheduler /\ UNCHANGED program
  <2>1. UNCHANGED <<task, pids, at>> /\ pid_cnt = 1 /\ pid_cnt' = 2 /\ running' = Nobody
    BY <1>3 DEF StartScheduler, SchedulerPid, program, Nobody
  <2> QED BY <2>1, KernelStep
<1>4. CASE Kernel
  <2>1. UNCHANGED <<task, pids, at, halted, pid_cnt>> /\ ~halted
    BY <1>4 DEF Kernel, Choose, Resume, Release, Runs, program
  <2> QED BY <2>1, KernelStep DEF UserSafe, DataOK
<1>7. CASE Rejected
  <2>1. UNCHANGED <<task, running, pids, at, pid_cnt>> /\ running = Nobody
    BY <1>7 DEF Rejected, Reject, program
  <2> QED BY <2>1, KernelStep DEF UserSafe, DataOK
<1>5. CASE Stopped
  <2>1. UNCHANGED <<task, running, pids, at, halted, pid_cnt>>
    BY <1>5 DEF Stopped, vars, program
  <2> QED BY <2>1, KernelStep DEF UserSafe, DataOK
<1>6. ASSUME NEW name \in Names, TaskStep(name) PROVE UserSafe'
  <2>1. CASE FinishLoop(name)
    BY <2>1, LoopStep
  <2>2. CASE spawn(name)
    <3>1. PICK s \in Slots :
             /\ Does(name, s, "spawn")
             /\ IF Free = {}
                THEN Terminate(s) /\ UNCHANGED program
                ELSE /\ Spawn(s, Step(name).priority)
                     /\ pids' = [pids EXCEPT ![Step(name).name] = new_task_pid(s)]
                     /\ Advanced(name)
      BY <2>2 DEF spawn
    <3> QED BY <3>1, SpawnStep, FullStep
  <2>3. CASE wait_for_task_finnish(name)
    BY <2>3, WaitStep, WaitOverStep DEF wait_for_task_finnish
  <2>4. CASE terminate(name)
    BY <2>4, TerminateStep
  <2>5. CASE FunctionReturns(name)
    BY <2>5, ReturnStep
  <2> QED BY <1>6, <2>1, <2>2, <2>3, <2>4, <2>5 DEF TaskStep
<1> QED BY <1>1, <1>2, <1>3, <1>4, <1>5, <1>6, <1>7 DEF UserNext, Start

\* The program's tasks and the kernel's agree: who has been started, who has gone, and whom
\* each waits for.
THEOREM ProgramSafe == UserSpec => []UserSafe
PROOF
<1>1. UserSafe /\ NotStarted /\ [UserNext]_<<vars, program>> => UserSafe' /\ NotStarted'
  BY NextUserSafe, NextNotStarted
<1> QED BY <1>1, InitUserSafe, PTL DEF UserSpec

\* Every task has a pid of its own, and its function goes from step to step.
THEOREM ProgramTypeCorrect == UserSpec => []UserTypeOK
PROOF
<1>1. UserSafe => UserTypeOK
  BY DEF UserSafe
<1> QED BY <1>1, ProgramSafe, PTL

\* "DONE" is printed only after looper, waiter, worker1 and the waiter's child have run to
\* their ends.
THEOREM DoneIsDone == UserSpec => []DoneMeansDone
PROOF
<1>1. UserSafe => DoneMeansDone
  <2> SUFFICES ASSUME UserSafe, Terminated, NEW name \in Names \ {"idle", "worker2"}
               PROVE  ~Alive(name) /\ at[name] = Len(Function[name]) + 1
    BY DEF DoneMeansDone
  <2>1. at["idle"] > 8 /\ at["idle"] \in Nat
    BY FunctionIs, FunctionsAre DEF Terminated, UserSafe, DataOK
  <2>2. \A n \in Names : Spawned(n) /\ ~Alive(n) => at[n] = Len(Function[n]) + 1
    BY DEF UserSafe, Lives, Returned
  <2>3. /\ Spawned("looper") /\ Spawned("waiter") /\ Spawned("worker1")
        /\ ~Alive("looper") /\ ~Alive("waiter") /\ ~Alive("worker1")
    BY <2>1, SpawnedAre, GoneAre
  <2>4. at["waiter"] = 4
    <3>1. "waiter" \in Names /\ Len(Function["waiter"]) = 3
      BY FunctionIs, FunctionsAre
    <3>2. at["waiter"] = Len(Function["waiter"]) + 1
      BY <2>2, <2>3, <3>1
    <3> QED BY <3>1, <3>2
  <2>5. Spawned("yielder") /\ ~Alive("yielder")
    BY <2>4, SpawnedAre, GoneAre
  <2> QED BY <2>2, <2>3, <2>5, FunctionIs
<1> QED BY <1>1, ProgramSafe, PTL

\* The list of tasks overflows only beside worker2.
THEOREM OverflowBesideWorker2 == UserSpec => []FullOnlyBesideWorker2
PROOF
<1>1. UserSafe => FullOnlyBesideWorker2
  BY DEF UserSafe
<1> QED BY <1>1, ProgramSafe, PTL

=============================================================================

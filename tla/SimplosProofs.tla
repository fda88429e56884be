--------------------------- MODULE SimplosProofs ---------------------------
(***************************************************************************)
(* Type correctness and the safety properties of Simplos, proved for every *)
(* number of slots and tasks and every behaviour of the timer, as far as   *)
(* they survive it; and, with a punctual timer and priorities that are all *)
(* listed, that Simplos implements AbstractTasks.                          *)
(*                                                                         *)
(* The inductive invariant says what holds in each phase: before the       *)
(* scheduler runs, in task code, on the way out of a task, in each part of *)
(* the scheduler's loop, on the way into a task, and once a badly timed    *)
(* interrupt has led the CPU astray.  Another part is about                *)
(* wait_for_task_finnish, and the last about the refinement: through every *)
(* phase the context of a living task is the CPU or lies at one place on   *)
(* the task's own stack, so the mapping of SimplosRefinement reads the     *)
(* same activity from it before and after a step that is not a step of the *)
(* task itself.                                                            *)
(***************************************************************************)
EXTENDS SimplosRefinement, PrioritizeProofs

-----------------------------------------------------------------------------
(* Type correctness *)

\* What TypeOK needs to be inductive: a stored context takes up its bytes.
TypeInv ==
    /\ TypeOK
    /\ \A a \in DOMAIN frames : a.depth >= num_context_switch_overhead_bytes
    /\ mode = "tail" => sp.depth >= pc_bytes

\* What remains of the saved contexts when a stack is cut back.
LEMMA StillIntactIs ==
    ASSUME NEW STATE saved, NEW STATE a
    PROVE  /\ DOMAIN StillIntact(saved, a) =
                 {x \in DOMAIN saved : x.block = a.block => x.depth =< a.depth}
           /\ \A x \in DOMAIN StillIntact(saved, a) : StillIntact(saved, a)[x] = saved[x]
PROOF BY DEF StillIntact

\* The stack pointer once a context has been pushed.
Here == Pushed(sp, num_context_switch_overhead_bytes)

\* The saved contexts after a push: the new one and what remains of the others.
LEMMA WithSavedIs ==
    ASSUME NEW STATE context
    PROVE  /\ DOMAIN WithSaved(context) =
                 {x \in DOMAIN frames : x.block = sp.block => x.depth =< sp.depth} \cup {Here}
           /\ WithSaved(context)[Here] = context
           /\ \A x \in DOMAIN WithSaved(context) \ {Here} : WithSaved(context)[x] = frames[x]
PROOF BY StillIntactIs DEF WithSaved, StillIntact, Here

\* Stack pointers stay stack pointers under pushes, and under pops of what is there.
LEMMA StackPointerTypes ==
    /\ NullSp \in StackPointers
    /\ \A s \in Slots : task_sp_range_high(s) \in StackPointers
    /\ \A a \in StackPointers, d \in Nat :
          /\ Pushed(a, d) \in StackPointers
          /\ a.depth >= d => Popped(a, d) \in StackPointers
PROOF BY TasksMaxAssumption
      DEF NullSp, StackPointers, task_sp_range_high, Slots, Pushed, Popped

\* A context pushed on the current stack lies within it.
LEMMA HereType ==
    ASSUME TypeInv
    PROVE  Here \in StackPointers /\ Here.depth >= num_context_switch_overhead_bytes
PROOF
<1>1. sp \in StackPointers /\ sp.depth \in Nat
  BY DEF TypeInv, TypeOK, StackPointers
<1>2. num_context_switch_overhead_bytes \in Nat
  BY DEF num_context_switch_overhead_bytes, pc_bytes, register_bytes
<1>3. Here \in StackPointers
  BY <1>1, <1>2, StackPointerTypes DEF Here
<1>4. Here.depth = sp.depth + num_context_switch_overhead_bytes
  BY DEF Here, Pushed
<1> QED BY <1>1, <1>2, <1>3, <1>4

\* The initial state is well typed.
LEMMA InitType == Init => TypeInv
PROOF
<1> SUFFICES ASSUME Init PROVE TypeInv
  OBVIOUS
<1>1. 0 \in Slots /\ 0 \in 0..MaxPid /\ 0 \in 0..UINT8_MAX
  BY TasksMaxAssumption, MaxPidAssumption, UInt8Assumption DEF Slots
<1>2. tasks \in [Slots -> Tasks]
  BY <1>1, StackPointerTypes DEF Init, Tasks, Statuses
<1>3. cpu \in Contexts
  BY <1>1 DEF Init, Contexts, Labels
<1>4. DOMAIN frames = {}
  BY DEF Init
<1> QED BY <1>1, <1>2, <1>3, <1>4, StackPointerTypes DEF Init, TypeInv, TypeOK, Modes, Faults

\* So is the state after FATAL_ERROR,
LEMMA FatalType ==
    ASSUME TypeInv, NEW reason \in Faults, FATAL_ERROR(reason)
    PROVE  TypeInv'
PROOF BY DEF TypeInv, TypeOK, FATAL_ERROR, kernel, globals, Modes, Contexts

\* after a context switch,
LEMMA SwitchType ==
    ASSUME TypeInv,
           NEW STATE context, context \in Contexts, CONTEXT_SWTICH(context), ocf' \in BOOLEAN
    PROVE  TypeInv'
PROOF
<1> DEFINE stored == WithSaved(context)
           chosen == SCHEDULED_TASK_OR_SCHEDULER
           loaded == Popped(chosen, register_bytes)
<1>1. Here \in StackPointers /\ Here.depth >= num_context_switch_overhead_bytes
  BY HereType
<1>2. \A x \in DOMAIN stored :
         /\ x \in StackPointers /\ x.depth >= num_context_switch_overhead_bytes
         /\ stored[x] \in Contexts
  <2> TAKE x \in DOMAIN stored
  <2>1. CASE x = Here
    BY <1>1, <2>1, WithSavedIs
  <2>2. CASE x # Here
    <3>1. x \in DOMAIN frames /\ stored[x] = frames[x]
      BY <2>2, WithSavedIs
    <3> QED BY <3>1 DEF TypeInv, TypeOK
  <2> QED BY <2>1, <2>2
<1>3. prev_task_sp' = Here /\ next_task_sp' = NullSp /\ mt' = TRUE
  BY DEF CONTEXT_SWTICH, Here, next_task_sp_once_taken
<1>4. CASE chosen \in DOMAIN stored
  <2>1. /\ mode' = "tail" /\ cpu' = stored[chosen] /\ sp' = loaded
        /\ frames' = StillIntact(stored, loaded)
    BY <1>4 DEF CONTEXT_SWTICH
  <2>2. loaded \in StackPointers /\ loaded.depth >= pc_bytes
    BY <1>2, <1>4
    DEF StackPointers, Popped, num_context_switch_overhead_bytes, pc_bytes, register_bytes
  <2>3. DOMAIN frames' \subseteq DOMAIN stored /\ \A x \in DOMAIN frames' : frames'[x] = stored[x]
    BY <2>1, StillIntactIs
  <2> QED
    BY <1>1, <1>2, <1>3, <1>4, <2>1, <2>2, <2>3, StackPointerTypes
    DEF TypeInv, TypeOK, CONTEXT_SWTICH, kernel, Modes
<1>5. CASE chosen \notin DOMAIN stored
  <2>1. mode' = "wild" /\ frames' = stored /\ UNCHANGED <<cpu, sp>>
    BY <1>5 DEF CONTEXT_SWTICH
  <2> QED
    BY <1>1, <1>2, <1>3, <2>1, StackPointerTypes
    DEF TypeInv, TypeOK, CONTEXT_SWTICH, kernel, Modes
<1> QED BY <1>4, <1>5

\* add_to_task_list and create_simplos_task fill a free slot of the table.
LEMMA CreateType ==
    ASSUME TypeInv, NEW STATE table, table \in [Slots -> Tasks], Free(table) # {},
           NEW priority \in 0..UINT8_MAX
    PROVE  /\ Min(Free(table)) \in Slots /\ table[Min(Free(table))].status = "EMPTY"
           /\ create_simplos_task(table, priority) \in [Slots -> Tasks]
PROOF
<1>1. Min(Free(table)) \in Free(table)
  BY MinSlot DEF Free
<1>2. Min(Free(table)) \in Slots /\ table[Min(Free(table))].status = "EMPTY"
  BY <1>1 DEF Free
<1>3. task_sp_range_high(Min(Free(table))) \in StackPointers /\ pid_cnt \in Nat
  <2>1. pid_cnt \in 0..MaxPid
    BY DEF TypeInv, TypeOK
  <2> QED BY <1>2, <2>1, StackPointerTypes
<1>4. [status |-> "RUNNING", priority |-> priority, pid |-> pid_cnt,
       task_sp_adr |-> task_sp_range_high(Min(Free(table)))] \in Tasks
  BY <1>3 DEF Tasks, Statuses
<1> QED BY <1>2, <1>4 DEF create_simplos_task

\* Replacing fields of one task's entry.
LEMMA TaskUpdateTypes ==
    ASSUME NEW STATE table, table \in [Slots -> Tasks], NEW STATE s, s \in Slots
    PROVE  /\ \A v \in Statuses : [table EXCEPT ![s].status = v] \in [Slots -> Tasks]
           /\ \A v \in 0..UINT8_MAX : [table EXCEPT ![s].priority = v] \in [Slots -> Tasks]
           /\ \A v \in StackPointers : [table EXCEPT ![s].task_sp_adr = v] \in [Slots -> Tasks]
           /\ \A v \in Statuses, w \in StackPointers :
                 [table EXCEPT ![s].status = v, ![s].task_sp_adr = w] \in [Slots -> Tasks]
PROOF BY DEF Tasks

\* The state after main is well typed,
LEMMA BootType ==
    ASSUME TypeInv, Boot PROVE TypeInv'
PROOF
<1>1. CASE pid_cnt # 0
  BY <1>1, FatalType DEF Boot, Faults
<1>2. CASE pid_cnt = 0
  <2> DEFINE list == init_task_list(tasks)
             index == Min(Free(list))
  <2>1. 0 \in Slots /\ 0 \in 0..UINT8_MAX
    BY TasksMaxAssumption, UInt8Assumption DEF Slots
  <2>2. list \in [Slots -> Tasks] /\ \A s \in Slots : list[s].status = "EMPTY"
    <3>1. tasks \in [Slots -> Tasks]
      BY DEF TypeInv, TypeOK
    <3> QED BY <3>1, StackPointerTypes DEF init_task_list, Tasks, Statuses
  <2>3. Free(list) # {}
    BY <2>1, <2>2 DEF Free
  <2> HIDE DEF list
  <2>4. index \in Slots /\ create_simplos_task(list, 0) \in [Slots -> Tasks]
    BY <2>1, <2>2, <2>3, CreateType
  <2>5. /\ tasks' = create_simplos_task(list, 0) /\ sp' = task_sp_range_high(index)
        /\ task_index_queue' = [task_index_queue EXCEPT ![0] = index]
    BY <1>2 DEF Boot, list
  <2> HIDE DEF index
  <2>6. sp' \in StackPointers /\ task_index_queue' \in [0..tasks_max -> Slots]
    BY <2>4, <2>5, StackPointerTypes DEF TypeInv, TypeOK
  <2>7. pid_cnt' \in 0..MaxPid
    <3>1. pid_cnt' = pid_cnt + 1
      BY <1>2 DEF Boot
    <3> QED BY <1>2, <3>1, MaxPidAssumption
  <2>8. cpu' \in Contexts
    BY <1>2 DEF Boot, TypeInv, TypeOK, Contexts, Labels, TaskLabels
  <2>9. /\ queue_position' = 0 /\ active_task_block' = 0 /\ mt' = FALSE /\ mode = "run"
        /\ UNCHANGED <<globals, frames, mode, ocf, fault>>
    BY <1>2 DEF Boot, At
  <2> QED
    BY <2>1, <2>4, <2>5, <2>6, <2>7, <2>8, <2>9 DEF TypeInv, TypeOK, globals
<1> QED BY <1>1, <1>2

\* after spawn_task,
LEMMA SpawnType ==
    ASSUME TypeInv, NEW caller \in Labels, NEW fn \in Labels, NEW priority \in 0..UINT8_MAX,
           spawn_task(caller, fn, priority)
    PROVE  TypeInv'
PROOF
<1>1. CASE Free(tasks) = {}
  BY <1>1, FatalType DEF spawn_task, Faults
<1>2. CASE Free(tasks) # {}
  <2> DEFINE new == Min(Free(tasks))
             context == [cpu EXCEPT !.at = "user", !.i = FALSE]
             stored == WithSaved(context)
  <2>1. new \in Slots /\ create_simplos_task(tasks, priority) \in [Slots -> Tasks]
    <3>1. tasks \in [Slots -> Tasks]
      BY DEF TypeInv, TypeOK
    <3> QED BY <1>2, <3>1, CreateType
  <2>2. Here \in StackPointers /\ Here.depth >= num_context_switch_overhead_bytes
    BY HereType
  <2>3. tasks' \in [Slots -> Tasks]
    <3>1. tasks' = Suspended(create_simplos_task(tasks, priority), active_task_block, Here)
      BY <1>2 DEF spawn_task, Here
    <3>2. active_task_block \in Slots /\ "READY" \in Statuses
      BY DEF TypeInv, TypeOK, Statuses
    <3> QED BY <2>1, <2>2, <3>1, <3>2, TaskUpdateTypes DEF Suspended
  <2>4. context \in Contexts
    BY DEF TypeInv, TypeOK, Contexts, Labels, TaskLabels
  <2>5. \A x \in DOMAIN stored :
           /\ x \in StackPointers /\ x.depth >= num_context_switch_overhead_bytes
           /\ stored[x] \in Contexts
    <3> TAKE x \in DOMAIN stored
    <3> HIDE DEF context
    <3>1. CASE x = Here
      BY <2>2, <2>4, <3>1, WithSavedIs
    <3>2. CASE x # Here
      <4>1. x \in DOMAIN frames /\ stored[x] = frames[x]
        BY <3>2, WithSavedIs
      <4> QED BY <4>1 DEF TypeInv, TypeOK
    <3> QED BY <3>1, <3>2
  <2>6. frames' = StillIntact(stored, task_sp_range_high(new))
    BY <1>2 DEF spawn_task
  <2>7. /\ DOMAIN frames' \subseteq StackPointers
        /\ \A x \in DOMAIN frames' : /\ frames'[x] \in Contexts
                                     /\ x.depth >= num_context_switch_overhead_bytes
    <3> HIDE DEF stored, new
    <3>1. DOMAIN frames' \subseteq DOMAIN stored /\ \A x \in DOMAIN frames' : frames'[x] = stored[x]
      BY <2>6, StillIntactIs
    <3> QED BY <2>5, <3>1
  <2>8. pid_cnt' \in 0..MaxPid
    <3>1. pid_cnt' = pid_cnt + 1 /\ pid_cnt < MaxPid
      BY <1>2 DEF spawn_task
    <3>2. pid_cnt \in 0..MaxPid
      BY DEF TypeInv, TypeOK
    <3> QED BY <3>1, <3>2, MaxPidAssumption
  <2>9. cpu' \in Contexts
    <3>1. cpu' = [at |-> fn, i |-> TRUE, pid |-> 0, ptr |-> 0]
      BY <1>2 DEF spawn_task
    <3> QED BY <3>1, TasksMaxAssumption DEF Contexts, Slots
  <2>10. queue_position' \in Slots /\ sp' \in StackPointers
    BY <1>2, <2>1, TasksMaxAssumption, StackPointerTypes DEF spawn_task, Invalidated, Slots
  <2>11. UNCHANGED <<task_index_queue, globals, mode, ocf, fault>> /\ mode = "run"
    BY <1>2 DEF spawn_task, At
  <2>12. active_task_block' \in Slots /\ mt' = TRUE
    BY <1>2, <2>1 DEF spawn_task
  <2> QED
    BY <2>3, <2>7, <2>8, <2>9, <2>10, <2>11, <2>12 DEF TypeInv, TypeOK, globals
<1> QED BY <1>1, <1>2

\* start_scheduler, with its SAVE_CONTEXT.
LEMMA StartType ==
    ASSUME TypeInv, start_scheduler PROVE TypeInv'
PROOF
<1> DEFINE context == [cpu EXCEPT !.at = "sched_loop"]
<1>1. sp \in StackPointers /\ sp.depth \in Nat /\ active_task_block \in Slots
  BY DEF TypeInv, TypeOK, StackPointers
<1>2. Here \in StackPointers /\ Here.depth >= num_context_switch_overhead_bytes
  BY HereType
<1>3. tasks' \in [Slots -> Tasks]
  <2>1. "SCHEDULER" \in Statuses /\ tasks \in [Slots -> Tasks]
    BY DEF Statuses, TypeInv, TypeOK
  <2> QED BY <1>1, <2>1, TaskUpdateTypes DEF start_scheduler
<1>4. frames' = WithSaved(context) /\ cpu' = context /\ context \in Contexts
  BY DEF start_scheduler, TypeInv, TypeOK, Contexts, Labels, SchedulerLabels
<1> HIDE DEF context
<1>5. \A x \in DOMAIN frames' :
         /\ x \in StackPointers /\ x.depth >= num_context_switch_overhead_bytes
         /\ frames'[x] \in Contexts
  <2> TAKE x \in DOMAIN frames'
  <2>1. CASE x = Here
    BY <1>2, <1>4, <2>1, WithSavedIs
  <2>2. CASE x # Here
    <3>1. x \in DOMAIN frames /\ frames'[x] = frames[x]
      BY <1>4, <2>2, WithSavedIs
    <3> QED BY <3>1 DEF TypeInv, TypeOK
  <2> QED BY <2>1, <2>2
<1>6. sp' = Here /\ scheduler_task_sp' = Here /\ mt' = FALSE
  BY DEF start_scheduler, Here
<1>7. /\ mode = "run"
      /\ UNCHANGED <<task_index_queue, queue_position, active_task_block, pid_cnt,
                     prev_task_sp, next_task_sp, mode, ocf, fault>>
  BY DEF start_scheduler, At
<1> QED BY <1>2, <1>3, <1>4, <1>5, <1>6, <1>7 DEF TypeInv, TypeOK

\* after handle_previous_task,
LEMMA HandleType ==
    ASSUME TypeInv, handle_previous_task PROVE TypeInv'
PROOF
<1> DEFINE prev == active_task_block
           handled ==
               CASE tasks[prev].status = "SCHEDULER" ->
                       [tasks EXCEPT ![prev].task_sp_adr = scheduler_task_sp]
                 [] tasks[prev].status = "RUNNING" -> Suspended(tasks, prev, prev_task_sp)
                 [] OTHER -> tasks
           reason == IF assert_task_pointer_integrity(prev, handled[prev].task_sp_adr)
                     THEN "malformed_pc" ELSE "bad_task_sp"
<1>1. CASE FATAL_ERROR(reason)
  <2>1. reason \in Faults
    BY DEF Faults
  <2> HIDE DEF reason
  <2> QED BY <1>1, <2>1, FatalType
<1>2. CASE /\ tasks' = handled
           /\ cpu' = [cpu EXCEPT !.at = "sched_select"]
           /\ UNCHANGED <<task_index_queue, queue_position, active_task_block, pid_cnt,
                          globals, frames, sp, mode, mt, ocf, fault>>
  <2>1. tasks \in [Slots -> Tasks] /\ prev \in Slots /\ "READY" \in Statuses
        /\ scheduler_task_sp \in StackPointers /\ prev_task_sp \in StackPointers
    BY DEF TypeInv, TypeOK, Statuses
  <2>2. handled \in [Slots -> Tasks]
    BY <2>1, TaskUpdateTypes DEF Suspended
  <2>3. cpu' \in Contexts
    BY <1>2 DEF TypeInv, TypeOK, Contexts, Labels, SchedulerLabels
  <2> HIDE DEF handled
  <2>4. mode = "run"
    BY DEF handle_previous_task, At
  <2> QED BY <1>2, <2>2, <2>3, <2>4 DEF TypeInv, TypeOK, globals
<1> QED BY <1>1, <1>2 DEF handle_previous_task

\* after select_next_task, whether or not it reschedules,
LEMMA SelectType ==
    ASSUME TypeInv, select_next_task PROVE TypeInv'
PROOF
<1> DEFINE rescheduled == queue_position = 0
           queue == IF rescheduled THEN prioritize_tasks(tasks, task_index_queue)
                                   ELSE task_index_queue
           position == (IF rescheduled THEN num_prioritized(tasks) ELSE queue_position) - 1
<1>1. CASE FATAL_ERROR("no_ready_task")
  BY <1>1, FatalType DEF Faults
<1>2. CASE /\ ~(rescheduled /\ num_prioritized(tasks) = 0)
           /\ task_index_queue' = queue
           /\ queue_position' = position
           /\ active_task_block' = queue[position]
           /\ next_task_sp' = tasks[queue[position]].task_sp_adr
           /\ cpu' = [cpu EXCEPT !.at = "sched_prepare"]
           /\ UNCHANGED <<tasks, pid_cnt, prev_task_sp, scheduler_task_sp,
                          frames, sp, mode, mt, ocf, fault>>
  <2>1. /\ tasks \in [Slots -> Tasks] /\ task_index_queue \in [0..tasks_max -> Slots]
        /\ queue_position \in Slots /\ Prioritized(tasks)
    BY UInt8Assumption DEF TypeInv, TypeOK, Prioritized, Tasks
  <2>2. num_prioritized(tasks) \in 0..tasks_max
    BY SchedulableFinite
  <2>3. position \in Slots
    BY <1>2, <2>1, <2>2, TasksMaxAssumption DEF Slots
  <2>4. queue \in [0..tasks_max -> Slots]
    <3> DEFINE list == prioritize_tasks(tasks, task_index_queue)
    <3>1. DOMAIN list = 0..tasks_max /\ list = [k \in 0..tasks_max |-> list[k]]
      BY <2>1 DEF prioritize_tasks
    <3>2. ASSUME NEW k \in 0..tasks_max PROVE list[k] \in Slots
      <4>1. CASE k < num_prioritized(tasks)
        <5>1. k \in 0..(num_prioritized(tasks) - 1) /\ DOMAIN task_index_queue = 0..tasks_max
          BY <2>1, <2>2, <4>1
        <5>2. list[k] \in Schedulable(tasks)
          BY <2>1, <5>1, PrioritizedList
        <5> QED BY <5>2 DEF Schedulable
      <4>2. CASE ~(k < num_prioritized(tasks))
        <5>1. k \in DOMAIN task_index_queue /\ task_index_queue[k] \in Slots
          BY <2>1
        <5>2. list[k] = task_index_queue[k]
          BY <4>2, <5>1 DEF prioritize_tasks
        <5> QED BY <5>1, <5>2
      <4> QED BY <4>1, <4>2
    <3> HIDE DEF list
    <3>3. list \in [0..tasks_max -> Slots]
      BY <3>1, <3>2
    <3> QED BY <2>1, <3>3 DEF list
  <2> HIDE DEF queue, position
  <2>5. queue[position] \in Slots
    BY <2>3, <2>4, TasksMaxAssumption DEF Slots
  <2>6. tasks[queue[position]].task_sp_adr \in StackPointers
    BY <2>1, <2>5 DEF Tasks
  <2>7. cpu' \in Contexts
    BY <1>2 DEF TypeInv, TypeOK, Contexts, Labels, SchedulerLabels
  <2>8. mode = "run"
    BY DEF select_next_task, At
  <2> QED BY <1>2, <2>3, <2>4, <2>5, <2>6, <2>7, <2>8 DEF TypeInv, TypeOK
<1> QED BY <1>1, <1>2 DEF select_next_task

\* and after prepare_next_task.
LEMMA PrepareType ==
    ASSUME TypeInv, prepare_next_task PROVE TypeInv'
PROOF
<1>1. CASE FATAL_ERROR("bad_next_task")
  BY <1>1, FatalType DEF Faults
<1>2. CASE ~FATAL_ERROR("bad_next_task")
  <2>1. /\ tasks' = [tasks EXCEPT ![active_task_block].status = "RUNNING"]
        /\ k_yield("sched_loop")
        /\ UNCHANGED <<task_index_queue, queue_position, active_task_block, pid_cnt,
                       globals, frames, sp, mt, ocf, fault>>
    BY <1>2 DEF prepare_next_task
  <2>2. tasks' \in [Slots -> Tasks]
    <3>1. tasks \in [Slots -> Tasks] /\ active_task_block \in Slots /\ "RUNNING" \in Statuses
      BY DEF TypeInv, TypeOK, Statuses
    <3> QED BY <2>1, <3>1, TaskUpdateTypes
  <2>3. cpu' \in Contexts /\ mode' = "switch"
    BY <2>1 DEF k_yield, TypeInv, TypeOK, Contexts, Labels, SchedulerLabels
  <2> QED BY <2>1, <2>2, <2>3 DEF TypeInv, TypeOK, globals, Modes
<1> QED BY <1>1, <1>2

\* The actions that change only the machine and, at most, one entry of the table.
LEMMA CallType ==
    ASSUME TypeInv,
           \/ Exit \/ Yield \/ SetPriority \/ Terminate \/ Wait \/ WaitStep
           \/ MaskTimer \/ Return \/ TimerMatch \/ WrapAround
    PROVE  TypeInv'
PROOF
<1>1. /\ tasks \in [Slots -> Tasks] /\ active_task_block \in Slots /\ 0 \in Slots
      /\ cpu \in Contexts /\ sp \in StackPointers
  BY TasksMaxAssumption DEF TypeInv, TypeOK, Slots
<1>2. CASE Exit
  <2>1. tasks' \in [Slots -> Tasks]
    <3>1. "EMPTY" \in Statuses /\ task_sp_range_high(active_task_block) \in StackPointers
      BY <1>1, StackPointerTypes DEF Statuses
    <3> QED BY <1>1, <1>2, <3>1, TaskUpdateTypes DEF Exit
  <2>2. cpu' \in Contexts /\ mode' = "switch" /\ mt' = FALSE /\ queue_position' \in Slots
    BY <1>1, <1>2 DEF Exit, k_yield, Contexts, Labels, Invalidated
  <2>3. UNCHANGED <<task_index_queue, active_task_block, pid_cnt, globals, frames, sp, ocf, fault>>
    BY <1>2 DEF Exit
  <2> QED BY <2>1, <2>2, <2>3 DEF TypeInv, TypeOK, globals, Modes
<1>3. CASE Yield
  <2>1. cpu' \in Contexts /\ mode' = "switch"
    BY <1>1, <1>3 DEF Yield, k_yield, Contexts, Labels, TaskLabels
  <2> QED BY <1>3, <2>1 DEF Yield, TypeInv, TypeOK, kernel, globals, Modes
<1>4. CASE SetPriority
  <2>1. PICK priority \in Priorities :
           tasks' = [tasks EXCEPT ![active_task_block].priority = priority]
    BY <1>4 DEF SetPriority
  <2>2. tasks' \in [Slots -> Tasks]
    BY <1>1, <2>1, TaskUpdateTypes, PrioritiesAssumption
  <2> QED BY <1>4, <2>2 DEF SetPriority, TypeInv, TypeOK, globals, machine
<1>5. CASE Terminate
  BY <1>5, FatalType DEF Terminate, Faults
<1>6. CASE Wait
  <2>1. PICK pid \in 0..(MaxPid - 1) : cpu' = [cpu EXCEPT !.at = "lookup", !.pid = pid]
    BY <1>6 DEF Wait
  <2>2. pid \in Nat
    OBVIOUS
  <2>3. cpu' \in Contexts
    BY <1>1, <2>1, <2>2 DEF Contexts, Labels, TaskLabels
  <2> QED BY <1>6, <2>3 DEF Wait, TypeInv, TypeOK, kernel, globals
<1>7. CASE LookUp
  <2>1. cpu' \in Contexts /\ mode = "run"
    BY <1>1, <1>7 DEF LookUp, At, Contexts, Labels, TaskLabels
  <2> QED BY <1>7, <2>1 DEF LookUp, TypeInv, TypeOK, kernel, globals
<1>8. CASE Scan
  <2>1. Holding(cpu.pid) # {} => first_holding(cpu.pid) \in Slots
    BY MinSlot DEF Holding, first_holding
  <2>2. cpu' \in Contexts /\ mode = "run" /\ mt' \in BOOLEAN
    BY <1>1, <1>8, <2>1 DEF Scan, At, WaitOver, Contexts, Labels, TaskLabels
  <2> QED BY <1>8, <2>2 DEF Scan, TypeInv, TypeOK, kernel, globals
<1>9. CASE ReadStatus
  <2>1. mode = "run"
    BY <1>9 DEF ReadStatus, At
  <2>2. \/ cpu' = WaitOver(cpu) /\ mode' = mode
        \/ cpu' = [cpu EXCEPT !.at = "lookup", !.i = FALSE, !.ptr = 0] /\ mode' = "switch"
    BY <1>9 DEF ReadStatus
  <2>3. WaitOver(cpu) \in Contexts /\ [cpu EXCEPT !.at = "lookup", !.i = FALSE, !.ptr = 0] \in Contexts
    BY <1>1 DEF WaitOver, Contexts, Labels, TaskLabels
  <2>4. cpu' \in Contexts /\ mode' \in {"run", "switch"}
    BY <2>1, <2>2, <2>3
  <2> QED BY <1>9, <2>4 DEF ReadStatus, TypeInv, TypeOK, kernel, globals, Modes
<1>10. CASE MaskTimer
  <2>1. cpu' \in Contexts /\ mode = "run" /\ mt' \in BOOLEAN
    BY <1>1, <1>10 DEF MaskTimer, At, Contexts, Labels, SchedulerLabels
  <2> QED BY <1>10, <2>1 DEF MaskTimer, TypeInv, TypeOK, kernel, globals
<1>11. CASE Return
  <2>1. sp' \in StackPointers
    BY <1>1, <1>11, StackPointerTypes DEF Return, TypeInv, pc_bytes
  <2>2. cpu' \in Contexts /\ mode' = "run"
    BY <1>1, <1>11 DEF Return, Contexts
  <2> QED BY <1>11, <2>1, <2>2 DEF Return, TypeInv, TypeOK, kernel, globals, Modes
<1>12. CASE TimerMatch
  BY <1>12 DEF TimerMatch, TypeInv, TypeOK, kernel, globals
<1>13. CASE WrapAround
  <2>1. cpu' \in Contexts
    BY <1>1, <1>13 DEF WrapAround, Contexts, Labels
  <2> QED BY <1>13, <2>1 DEF WrapAround, TypeInv, TypeOK, kernel, globals, Modes
<1> QED BY <1>2, <1>3, <1>4, <1>5, <1>6, <1>7, <1>8, <1>9, <1>10, <1>11, <1>12, <1>13 DEF WaitStep

\* Every step keeps the types.
LEMMA NextType == TypeInv /\ [Next]_vars => TypeInv'
PROOF
<1> SUFFICES ASSUME TypeInv, [Next]_vars PROVE TypeInv'
  OBVIOUS
<1>1. CASE UNCHANGED vars
  BY <1>1 DEF vars, kernel, globals, machine, TypeInv, TypeOK
<1>2. CASE Boot
  BY <1>2, BootType
<1>3. CASE Spawn
  <2>1. PICK priority \in Priorities : spawn_task("user", "user", priority)
    BY <1>3 DEF Spawn
  <2> QED BY <2>1, SpawnType, PrioritiesAssumption DEF Labels, TaskLabels
<1>4. CASE SpawnScheduler
  <2>1. 0 \in 0..UINT8_MAX /\ "idle" \in Labels /\ "sched_start" \in Labels
    BY UInt8Assumption DEF Labels, TaskLabels, SchedulerLabels
  <2> QED BY <1>4, <2>1, SpawnType DEF SpawnScheduler
<1>5. CASE SchedulerStep
  BY <1>5, StartType, HandleType, SelectType, PrepareType, CallType DEF SchedulerStep
<1>6. CASE Switch
  BY <1>6, SwitchType DEF Switch, TypeInv, TypeOK
<1>7. CASE TimerISR
  <2>1. [cpu EXCEPT !.i = FALSE] \in Contexts
    BY DEF TypeInv, TypeOK, Contexts
  <2> QED BY <1>7, <2>1, SwitchType DEF TimerISR
<1>8. CASE halt_exec
  BY <1>1, <1>8 DEF halt_exec
<1> QED BY <1>1, <1>2, <1>3, <1>4, <1>5, <1>6, <1>7, <1>8, CallType DEF Next, SystemCall

\* The kernel's data and the machine keep their types, for every number of tasks, every
\* bound and every behaviour of the timer, even the ones that crash the kernel.
THEOREM TypeCorrect == Spec => []TypeOK
PROOF
<1>1. Spec => []TypeInv
  BY InitType, NextType, PTL DEF Spec
<1>2. TypeInv => TypeOK
  BY DEF TypeInv
<1> QED BY <1>1, <1>2, PTL

-----------------------------------------------------------------------------
(* The timer *)

\* The timer the kernel is made for: no compare match but in task code and in the scheduler's
\* masked work.
Punctual == ~BootOverrun /\ ~LateMatch

\* No task has the priority the scan leaves out.
AllListed == UINT8_MAX \notin Priorities

Quiet == Punctual => ~ocf

-----------------------------------------------------------------------------
(* Stack pointers and contexts *)

\* Where the context of a task, or of the scheduler, is when another has the CPU, and the
\* stack pointer between the restored registers and the return.
Saved(s) == [block |-> s, depth |-> num_context_switch_overhead_bytes]
Returning(s) == [block |-> s, depth |-> pc_bytes]

\* Where a task can lose the CPU: not in the search of get_task, with MT disabled.
Resumable == {"user", "lookup", "read"}

ContextSaved(s) ==
    /\ Saved(s) \in DOMAIN frames
    /\ frames[Saved(s)].at \in Resumable
    /\ ~frames[Saved(s)].i

Scheduler == scheduler_task_sp.block

SchedulerSaved == Saved(Scheduler) \in DOMAIN frames /\ frames[Saved(Scheduler)].at = "sched_loop"

-----------------------------------------------------------------------------
(* The phases *)

Running(s) == tasks[s].status = "RUNNING"
OnlyRunning(t) == \A s \in Slots : Running(s) <=> s = t
NoneRunning == \A s \in Slots : ~Running(s)

\* Before the scheduler has saved its first context.
Dormant ==
    /\ mode = "run" /\ fault = "none" /\ Quiet
    /\ scheduler_task_sp = NullSp /\ next_task_sp = NullSp
    /\ queue_position = 0

InMain ==
    /\ Dormant /\ cpu.at = "main" /\ ~cpu.i
    /\ pid_cnt = 0
    /\ \A s \in Slots : tasks[s].status = "EMPTY"

InIdle ==
    /\ Dormant /\ cpu.at = "idle" /\ ~cpu.i
    /\ active_task_block = 0 /\ sp = task_sp_range_high(0)
    /\ \A s \in Slots : tasks[s].status = IF s = 0 THEN "RUNNING" ELSE "EMPTY"

InStart ==
    /\ Dormant /\ cpu.at = "sched_start"
    /\ active_task_block # 0 /\ sp = task_sp_range_high(active_task_block)
    /\ tasks[0].task_sp_adr = Saved(0) /\ ContextSaved(0)
    /\ \A s \in Slots : tasks[s].status = IF s = 0 THEN "READY"
                                          ELSE IF s = active_task_block THEN "RUNNING" ELSE "EMPTY"

\* What holds from then on: one scheduler, task 0 alive, every READY task resumable and
\* the queue's tail READY and distinct.
OneScheduler ==
    /\ Scheduler \in Slots /\ scheduler_task_sp = Saved(Scheduler)
    /\ \A s \in Slots : tasks[s].status = "SCHEDULER" <=> s = Scheduler

IdleAlive == tasks[0].status \in {"READY", "RUNNING"}

ReadySaved ==
    \A s \in Slots : tasks[s].status = "READY" => tasks[s].task_sp_adr = Saved(s) /\ ContextSaved(s)

TailReady ==
    /\ \A k \in 0..(queue_position - 1) : tasks[task_index_queue[k]].status = "READY"
    /\ \A j, k \in 0..(queue_position - 1) : task_index_queue[j] = task_index_queue[k] => j = k

Settled == fault = "none" /\ OneScheduler /\ IdleAlive /\ ReadySaved /\ TailReady

\* Task code, with the scheduler's context waiting for the next switch.
TaskSide ==
    /\ Settled
    /\ active_task_block # Scheduler
    /\ next_task_sp = NullSp
    /\ SchedulerSaved

InTaskCode ==
    /\ TaskSide /\ mode = "run" /\ cpu.at \in Resumable \cup {"scan"}
    /\ sp = task_sp_range_high(active_task_block)
    /\ OnlyRunning(active_task_block)
    /\ cpu.i /\ (mt <=> cpu.at # "scan")

Leaving ==
    /\ TaskSide /\ mode = "switch" /\ cpu.at \in {"user", "lookup", "dead"}
    /\ sp = task_sp_range_high(active_task_block)
    /\ IF cpu.at = "dead" THEN NoneRunning /\ tasks[active_task_block].status = "EMPTY"
                          ELSE OnlyRunning(active_task_block)
    /\ ~cpu.i /\ Quiet

Entering ==
    /\ TaskSide /\ mode = "tail" /\ cpu.at \in Resumable
    /\ sp = Returning(active_task_block)
    /\ OnlyRunning(active_task_block)
    /\ ~cpu.i /\ mt

\* The scheduler's stack: empty, or, in the first pass, with the context start_scheduler
\* saved below its frame.
SchedulerSide ==
    /\ Settled
    /\ sp = task_sp_range_high(Scheduler) \/ (sp = Saved(Scheduler) /\ SchedulerSaved)

\* Whom the scheduler has taken over from.  An interrupt of its own loop, with a match before
\* DISABLE_MT, has made it take over from itself: prev_task_sp is then not the task's.
Previous ==
    /\ tasks[active_task_block].status \in {"RUNNING", "EMPTY", "SCHEDULER"}
    /\ \A s \in Slots : Running(s) => s = active_task_block
    /\ tasks[active_task_block].status = "SCHEDULER" => SchedulerSaved
    /\ tasks[active_task_block].status = "RUNNING" =>
          \/ prev_task_sp = Saved(active_task_block) /\ ContextSaved(active_task_block)
          \/ ~Punctual /\ prev_task_sp = Saved(Scheduler)

\* From the second pass on, the context it was resumed from is gone.
Resumed ==
    /\ Settled /\ mode = "tail" /\ cpu.at = "sched_loop" /\ sp = Returning(Scheduler)
    /\ Previous /\ next_task_sp = NullSp /\ Quiet
    /\ tasks[active_task_block].status # "SCHEDULER"
    /\ Saved(Scheduler) \notin DOMAIN frames

InLoop ==
    /\ SchedulerSide /\ mode = "run" /\ cpu.at = "sched_loop"
    /\ Previous /\ next_task_sp = NullSp /\ Quiet
    /\ mt => sp = task_sp_range_high(Scheduler) /\ tasks[active_task_block].status # "SCHEDULER"

InHandle ==
    /\ SchedulerSide /\ mode = "run" /\ cpu.at = "sched_handle"
    /\ Previous /\ next_task_sp = NullSp /\ ~mt

InSelect ==
    /\ SchedulerSide /\ mode = "run" /\ cpu.at = "sched_select"
    /\ NoneRunning /\ next_task_sp = NullSp /\ ~mt

InPrepare ==
    /\ SchedulerSide /\ mode = "run" /\ cpu.at = "sched_prepare"
    /\ NoneRunning /\ ~mt
    /\ tasks[active_task_block].status = "READY"
    /\ next_task_sp = Saved(active_task_block)
    /\ \A k \in 0..(queue_position - 1) : task_index_queue[k] # active_task_block

HandingOver ==
    /\ SchedulerSide /\ mode = "switch" /\ cpu.at = "sched_loop"
    /\ OnlyRunning(active_task_block) /\ ~mt
    /\ tasks[active_task_block].task_sp_adr = Saved(active_task_block)
    /\ next_task_sp = Saved(active_task_block) /\ ContextSaved(active_task_block)

\* Past a context that was never saved, or in main again: READY tasks are still intact.
Astray ==
    /\ ~Punctual
    /\ \/ mode = "wild" /\ cpu.at \in {"sched_start", "sched_loop"}
       \/ mode = "run" /\ cpu.at = "main" /\ ~cpu.i
    /\ pid_cnt # 0 /\ next_task_sp = NullSp
    /\ ReadySaved /\ TailReady

\* A badly timed match may stop the kernel, and so may tasks that are never scheduled.
Ended ==
    /\ mode = "halted"
    /\ \/ fault \in {"terminated", "list_full", "malformed_pc"}
       \/ ~Punctual /\ fault \in {"bad_task_sp", "started_twice"}
       \/ ~AllListed /\ fault = "no_ready_task"

Phase ==
    \/ InMain \/ InIdle \/ InStart
    \/ InTaskCode \/ Leaving \/ Entering
    \/ Resumed \/ InLoop \/ InHandle \/ InSelect \/ InPrepare \/ HandingOver
    \/ Astray \/ Ended

PrioritiesListed == AllListed => \A s \in Slots : tasks[s].priority < UINT8_MAX

\* The inductive invariant.
Safe == TypeInv /\ PrioritiesListed /\ Phase /\ (InMain \/ pid_cnt # 0)

-----------------------------------------------------------------------------
(* Which action can be taken where *)

\* The program point, or the state of the CPU, that each action needs.
LEMMA Steps ==
    ASSUME Next
    PROVE  \/ At("main") /\ Boot
           \/ At("idle") /\ SpawnScheduler
           \/ At("sched_start") /\ start_scheduler
           \/ At("sched_loop") /\ MaskTimer
           \/ At("sched_handle") /\ handle_previous_task
           \/ At("sched_select") /\ select_next_task
           \/ At("sched_prepare") /\ prepare_next_task
           \/ At("user") /\ SystemCall
           \/ At("lookup") /\ LookUp
           \/ At("scan") /\ Scan
           \/ At("read") /\ ReadStatus
           \/ mode = "switch" /\ Switch
           \/ Irq /\ TimerISR
           \/ mode = "tail" /\ ~Irq /\ Return
           \/ MatchPossible /\ TimerMatch
           \/ mode = "wild" /\ WrapAround
           \/ mode = "halted" /\ halt_exec
PROOF
<1>1. Boot => At("main")
  BY DEF Boot
<1>2. SpawnScheduler => At("idle")
  BY DEF SpawnScheduler, spawn_task
<1>3. SchedulerStep => \/ At("sched_start") /\ start_scheduler
                       \/ At("sched_loop") /\ MaskTimer
                       \/ At("sched_handle") /\ handle_previous_task
                       \/ At("sched_select") /\ select_next_task
                       \/ At("sched_prepare") /\ prepare_next_task
  BY DEF SchedulerStep, start_scheduler, MaskTimer, handle_previous_task, select_next_task,
         prepare_next_task
<1>4. SystemCall => At("user")
  BY DEF SystemCall, Spawn, spawn_task, Exit, Yield, SetPriority, Terminate, Wait
<1>5. WaitStep => \/ At("lookup") /\ LookUp
                  \/ At("scan") /\ Scan
                  \/ At("read") /\ ReadStatus
  BY DEF WaitStep, LookUp, Scan, ReadStatus
<1>6. /\ Switch => mode = "switch"
      /\ TimerISR => Irq
      /\ Return => mode = "tail" /\ ~Irq
      /\ TimerMatch => MatchPossible
      /\ WrapAround => mode = "wild"
      /\ halt_exec => mode = "halted"
  BY DEF Switch, TimerISR, Return, TimerMatch, WrapAround, halt_exec
<1> QED BY <1>1, <1>2, <1>3, <1>4, <1>5, <1>6 DEF Next

-----------------------------------------------------------------------------
(* Where contexts are *)

\* Where a context lies that is saved from the top of a block, and where the CPU goes from it;
\* it passes the check of memory.cpp.
LEMMA SavedIs ==
    ASSUME NEW s \in Slots
    PROVE  /\ Saved(s).block = s /\ Saved(s).depth = 36 /\ Saved(s) # NullSp
           /\ task_sp_range_high(s).block = s /\ Returning(s).block = s
           /\ Pushed(task_sp_range_high(s), num_context_switch_overhead_bytes) = Saved(s)
           /\ Popped(Saved(s), register_bytes) = Returning(s)
           /\ Popped(Returning(s), pc_bytes) = task_sp_range_high(s)
           /\ assert_task_pointer_integrity(s, Saved(s))
PROOF
<1>1. num_context_switch_overhead_bytes = 36 /\ register_bytes = 33 /\ pc_bytes = 3
  BY DEF num_context_switch_overhead_bytes, register_bytes, pc_bytes
<1>2. Saved(s).block = s /\ Saved(s).depth = 36
  BY <1>1 DEF Saved
<1>3. NullSp.block = tasks_max /\ s # tasks_max
  BY TasksMaxAssumption DEF Slots, NullSp
<1>4. 36 + 36 < task_memory_size
  BY MemorySizeAssumption
<1>5. assert_task_pointer_integrity(s, Saved(s))
  BY <1>1, <1>2, <1>4 DEF assert_task_pointer_integrity
<1>6. Pushed(task_sp_range_high(s), num_context_switch_overhead_bytes) = Saved(s)
  BY <1>1 DEF Pushed, task_sp_range_high, Saved
<1>7. Popped(Saved(s), register_bytes) = Returning(s)
  BY <1>1 DEF Popped, Saved, Returning
<1>8. Popped(Returning(s), pc_bytes) = task_sp_range_high(s)
  BY <1>1 DEF Popped, Returning, task_sp_range_high
<1>9. task_sp_range_high(s).block = s /\ Returning(s).block = s
  BY DEF task_sp_range_high, Returning
<1> QED BY <1>2, <1>3, <1>5, <1>6, <1>7, <1>8, <1>9

\* A push leaves the contexts on other stacks alone.
LEMMA OthersKept ==
    ASSUME NEW STATE context
    PROVE  \A x \in DOMAIN frames :
              x.block # sp.block => /\ x \in DOMAIN WithSaved(context)
                                    /\ WithSaved(context)[x] = frames[x]
PROOF
<1> TAKE x \in DOMAIN frames
<1>1. x.block # sp.block => x # Here
  BY DEF Here, Pushed
<1> QED BY <1>1, WithSavedIs

\* So does cutting a stack back.
LEMMA CutKeepsOthers ==
    ASSUME NEW STATE saved, NEW STATE a
    PROVE  \A x \in DOMAIN saved :
              x.block # a.block => /\ x \in DOMAIN StillIntact(saved, a)
                                   /\ StillIntact(saved, a)[x] = saved[x]
PROOF BY StillIntactIs

\* The tasks keep their contexts and the kernel's data says the same of them.
LEMMA SettledKept ==
    ASSUME Settled, TypeInv,
           UNCHANGED <<task_index_queue, queue_position, scheduler_task_sp, fault>>,
           \A s \in Slots : /\ tasks'[s].status = tasks[s].status
                            /\ tasks'[s].task_sp_adr = tasks[s].task_sp_adr,
           \A s \in Slots : tasks[s].status = "READY" =>
              Saved(s) \in DOMAIN frames' /\ frames'[Saved(s)] = frames[Saved(s)]
    PROVE  Settled'
PROOF
<1>1. \A k \in 0..(queue_position - 1) : task_index_queue[k] \in Slots
  BY TasksMaxAssumption DEF TypeInv, TypeOK, Slots
<1>2. 0 \in Slots
  BY TasksMaxAssumption DEF Slots
<1>3. OneScheduler' /\ IdleAlive'
  BY <1>2 DEF Settled, OneScheduler, IdleAlive, Scheduler
<1>4. ReadySaved'
  BY DEF Settled, ReadySaved, ContextSaved
<1>5. TailReady'
  BY <1>1 DEF Settled, TailReady
<1> QED BY <1>3, <1>4, <1>5 DEF Settled

-----------------------------------------------------------------------------
(* The two switches *)

\* A switch from a stack to another leaves the contexts on the other stacks where they are,
\* and the kernel's data alone.
ContextsStay(from, to) ==
    /\ \A s \in Slots \ {from, to} : Saved(s) \in DOMAIN frames =>
          Saved(s) \in DOMAIN frames' /\ frames'[Saved(s)] = frames[Saved(s)]
    /\ UNCHANGED <<kernel, scheduler_task_sp, fault>>

\* From the stack of a task that is not READY, with the scheduler's context saved.
LEMMA SwitchToScheduler ==
    ASSUME TypeInv, TaskSide, sp = task_sp_range_high(active_task_block),
           tasks[active_task_block].status \in {"RUNNING", "EMPTY"},
           \A s \in Slots : Running(s) => s = active_task_block,
           NEW STATE context,
           tasks[active_task_block].status = "RUNNING" => context.at \in Resumable /\ ~context.i,
           CONTEXT_SWTICH(context), Quiet'
    PROVE  /\ Resumed'
           /\ ContextsStay(active_task_block, Scheduler)
           /\ frames'[Saved(active_task_block)] = context
PROOF
<1> DEFINE a == active_task_block
           stored == WithSaved(context)
<1>1. a \in Slots /\ Scheduler \in Slots /\ a # Scheduler /\ sp.block = a
  BY DEF TypeInv, TypeOK, TaskSide, Settled, OneScheduler, task_sp_range_high
<1>2. Here = Saved(a) /\ SCHEDULED_TASK_OR_SCHEDULER = Saved(Scheduler)
  BY <1>1, SavedIs DEF Here, SCHEDULED_TASK_OR_SCHEDULER, TaskSide, Settled, OneScheduler
<1>3. /\ Saved(a) \in DOMAIN stored /\ stored[Saved(a)] = context
      /\ \A s \in Slots \ {a} : Saved(s) \in DOMAIN frames =>
            Saved(s) \in DOMAIN stored /\ stored[Saved(s)] = frames[Saved(s)]
  <2>1. Saved(a) \in DOMAIN stored /\ stored[Saved(a)] = context
    BY <1>2, WithSavedIs
  <2>2. \A s \in Slots \ {a} : Saved(s).block # sp.block
    BY <1>1, SavedIs
  <2> QED BY <2>1, <2>2, OthersKept
<1>4. Saved(Scheduler) \in DOMAIN stored /\ stored[Saved(Scheduler)] = frames[Saved(Scheduler)]
  BY <1>1, <1>3 DEF TaskSide, SchedulerSaved
<1> HIDE DEF stored
<1>5. /\ prev_task_sp' = Saved(a) /\ next_task_sp' = NullSp
      /\ mode' = "tail" /\ cpu' = frames[Saved(Scheduler)]
      /\ sp' = Returning(Scheduler) /\ frames' = StillIntact(stored, Returning(Scheduler))
      /\ UNCHANGED <<kernel, scheduler_task_sp, fault>>
  BY <1>1, <1>2, <1>4, SavedIs DEF CONTEXT_SWTICH, Here, next_task_sp_once_taken, stored
<1>6. \A s \in Slots \ {Scheduler} : Saved(s) \in DOMAIN stored =>
         Saved(s) \in DOMAIN frames' /\ frames'[Saved(s)] = stored[Saved(s)]
  <2>1. \A x \in DOMAIN stored : x.block # Scheduler =>
           x \in DOMAIN frames' /\ frames'[x] = stored[x]
    BY <1>1, <1>5, CutKeepsOthers, SavedIs
  <2> QED BY <2>1, SavedIs
<1>7. Settled'
  <2>1. \A s \in Slots : tasks[s].status = "READY" => s # a /\ s # Scheduler
    BY DEF TaskSide, Settled, OneScheduler
  <2>2. \A s \in Slots : tasks[s].status = "READY" => Saved(s) \in DOMAIN frames
    BY DEF TaskSide, Settled, ReadySaved, ContextSaved
  <2>3. \A s \in Slots : tasks[s].status = "READY" =>
           Saved(s) \in DOMAIN frames' /\ frames'[Saved(s)] = frames[Saved(s)]
    BY <2>1, <2>2, <1>3, <1>6
  <2> QED BY <1>5, <2>3, SettledKept DEF TaskSide, kernel
<1>8. Previous'
  <2>1. Saved(a) \in DOMAIN frames' /\ frames'[Saved(a)] = context
    BY <1>1, <1>3, <1>6
  <2> QED BY <1>5, <2>1 DEF Previous, ContextSaved, Running, kernel
<1>9. cpu'.at = "sched_loop" /\ Scheduler' = Scheduler
  BY <1>5 DEF TaskSide, SchedulerSaved, Scheduler
<1>10. Resumed'
  <2>1. Saved(Scheduler) \notin DOMAIN frames'
    <3>1. Returning(Scheduler).depth = 3
      BY DEF Returning, pc_bytes
    <3>2. \A x \in DOMAIN frames' : x.block = Returning(Scheduler).block => x.depth =< 3
      <4>1. DOMAIN frames' = {x \in DOMAIN stored : x.block = Returning(Scheduler).block
                                                     => x.depth =< Returning(Scheduler).depth}
        BY <1>5, StillIntactIs
      <4> QED BY <3>1, <4>1
    <3> QED BY <1>1, <3>2, SavedIs
  <2>2. tasks'[active_task_block'].status # "SCHEDULER"
    BY <1>5 DEF kernel
  <2> QED BY <1>5, <1>7, <1>8, <1>9, <2>1, <2>2 DEF Resumed, Returning
<1>11. ContextsStay(a, Scheduler)
  BY <1>3, <1>5, <1>6 DEF ContextsStay
<1>12. frames'[Saved(a)] = context
  BY <1>1, <1>3, <1>6
<1> QED BY <1>10, <1>11, <1>12

\* From the scheduler's stack to the task it has chosen.
LEMMA SwitchToTask ==
    ASSUME TypeInv, HandingOver, Switch
    PROVE  /\ Entering'
           /\ ContextsStay(Scheduler, active_task_block)
           /\ cpu' = frames[Saved(active_task_block)]
PROOF
<1> DEFINE a == active_task_block
           stored == WithSaved(cpu)
<1>1. /\ a \in Slots /\ Scheduler \in Slots /\ a # Scheduler
      /\ scheduler_task_sp = Saved(Scheduler)
  BY DEF TypeInv, TypeOK, HandingOver, SchedulerSide, Settled, OneScheduler, OnlyRunning, Running
<1>2. SCHEDULED_TASK_OR_SCHEDULER = Saved(a) /\ CONTEXT_SWTICH(cpu) /\ ocf' = ocf
  BY <1>1, SavedIs DEF SCHEDULED_TASK_OR_SCHEDULER, HandingOver, Switch
<1>3. sp.block = Scheduler
  BY <1>1, SavedIs DEF HandingOver, SchedulerSide
<1>4. \A s \in Slots \ {Scheduler} : Saved(s) \in DOMAIN frames =>
         Saved(s) \in DOMAIN stored /\ stored[Saved(s)] = frames[Saved(s)]
  BY <1>3, OthersKept, SavedIs
<1>5. Saved(Scheduler) \in DOMAIN stored /\ stored[Saved(Scheduler)].at = "sched_loop"
  <2>1. CASE sp = task_sp_range_high(Scheduler)
    <3>1. Here = Saved(Scheduler)
      BY <1>1, <2>1, SavedIs DEF Here
    <3> QED BY <3>1, WithSavedIs DEF HandingOver
  <2>2. CASE sp = Saved(Scheduler) /\ SchedulerSaved
    <3>1. Saved(Scheduler) # Here
      <4>1. Here.depth = 36 + 36
        BY <1>1, <2>2, SavedIs
        DEF Here, Pushed, num_context_switch_overhead_bytes, pc_bytes, register_bytes
      <4> QED BY <1>1, <4>1, SavedIs
    <3>2. Saved(Scheduler).depth =< sp.depth
      BY <1>1, <2>2, SavedIs
    <3> QED BY <2>2, <3>1, <3>2, WithSavedIs DEF SchedulerSaved
  <2> QED BY <2>1, <2>2 DEF HandingOver, SchedulerSide
<1>6. Saved(a) \in DOMAIN stored /\ stored[Saved(a)] = frames[Saved(a)]
  BY <1>1, <1>4 DEF HandingOver, ContextSaved
<1> HIDE DEF stored
<1>7. /\ next_task_sp' = NullSp /\ mt'
      /\ mode' = "tail" /\ cpu' = frames[Saved(a)]
      /\ sp' = Returning(a) /\ frames' = StillIntact(stored, Returning(a))
      /\ UNCHANGED <<kernel, scheduler_task_sp, fault>>
  BY <1>1, <1>2, <1>6, SavedIs DEF CONTEXT_SWTICH, next_task_sp_once_taken, stored
<1>8. \A s \in Slots \ {a} : Saved(s) \in DOMAIN stored =>
         Saved(s) \in DOMAIN frames' /\ frames'[Saved(s)] = stored[Saved(s)]
  <2>1. \A x \in DOMAIN stored : x.block # a => x \in DOMAIN frames' /\ frames'[x] = stored[x]
    BY <1>1, <1>7, CutKeepsOthers, SavedIs
  <2> QED BY <2>1, SavedIs
<1>9. Settled'
  <2>1. \A s \in Slots : tasks[s].status = "READY" => s # a /\ s # Scheduler
    BY <1>1 DEF HandingOver, SchedulerSide, Settled, OneScheduler, OnlyRunning, Running
  <2>2. \A s \in Slots : tasks[s].status = "READY" => Saved(s) \in DOMAIN frames
    BY DEF HandingOver, SchedulerSide, Settled, ReadySaved, ContextSaved
  <2>3. \A s \in Slots : tasks[s].status = "READY" =>
           Saved(s) \in DOMAIN frames' /\ frames'[Saved(s)] = frames[Saved(s)]
    BY <2>1, <2>2, <1>4, <1>8
  <2> QED BY <1>7, <2>3, SettledKept DEF HandingOver, SchedulerSide, kernel
<1>10. SchedulerSaved' /\ Scheduler' = Scheduler
  BY <1>1, <1>5, <1>7, <1>8 DEF SchedulerSaved, Scheduler
<1>11. cpu'.at \in Resumable /\ ~cpu'.i
  BY <1>7 DEF HandingOver, ContextSaved
<1>12. OnlyRunning(active_task_block)'
  BY <1>7 DEF HandingOver, OnlyRunning, Running, kernel
<1>13. Entering'
  BY <1>1, <1>7, <1>9, <1>10, <1>11, <1>12 DEF Entering, TaskSide, Returning, kernel
<1>14. ContextsStay(Scheduler, a)
  BY <1>4, <1>7, <1>8 DEF ContextsStay
<1> QED BY <1>7, <1>13, <1>14

-----------------------------------------------------------------------------
(* Steps that move nothing *)

\* A step that leaves the kernel's data and the stacks alone stays on the task's side.
LEMMA TaskSideKept ==
    ASSUME TypeInv, TaskSide, UNCHANGED <<kernel, globals, frames, fault>>
    PROVE  TaskSide' /\ \A s \in Slots : OnlyRunning(s) => OnlyRunning(s)'
PROOF
<1>1. UNCHANGED <<tasks, task_index_queue, queue_position, active_task_block,
                  scheduler_task_sp, next_task_sp, fault>>
  BY DEF kernel, globals
<1>2. Settled'
  <2>1. \A s \in Slots : tasks[s].status = "READY" => Saved(s) \in DOMAIN frames
    BY DEF TaskSide, Settled, ReadySaved, ContextSaved
  <2> QED BY <1>1, <2>1, SettledKept DEF TaskSide
<1>3. \A s \in Slots : OnlyRunning(s) => OnlyRunning(s)'
  BY <1>1 DEF OnlyRunning, Running
<1> QED BY <1>1, <1>2, <1>3 DEF TaskSide, SchedulerSaved, Scheduler

\* A step that leaves the kernel's data and the stacks alone stays on the scheduler's side.
LEMMA SchedulerKept ==
    ASSUME TypeInv, Settled, UNCHANGED <<kernel, globals, frames, fault>>
    PROVE  /\ Settled' /\ Scheduler' = Scheduler
           /\ SchedulerSaved => SchedulerSaved'
           /\ Previous => Previous'
           /\ NoneRunning => NoneRunning'
PROOF
<1>1. UNCHANGED <<tasks, task_index_queue, queue_position, active_task_block,
                  scheduler_task_sp, next_task_sp, prev_task_sp, fault>>
  BY DEF kernel, globals
<1>2. Settled'
  <2>1. \A s \in Slots : tasks[s].status = "READY" => Saved(s) \in DOMAIN frames
    BY DEF Settled, ReadySaved, ContextSaved
  <2> QED BY <1>1, <2>1, SettledKept
<1>3. Scheduler' = Scheduler /\ (SchedulerSaved => SchedulerSaved')
  BY <1>1 DEF SchedulerSaved, Scheduler
<1>4. Previous => Previous'
  BY <1>1, <1>3 DEF Previous, ContextSaved, Running
<1>5. NoneRunning => NoneRunning'
  BY <1>1 DEF NoneRunning, Running
<1> QED BY <1>2, <1>3, <1>4, <1>5

\* A step that at most notes a match stays in its phase,
LEMMA PhaseKept ==
    ASSUME TypeInv, UNCHANGED <<kernel, globals, frames, sp, cpu, mode, mt, fault>>
    PROVE  /\ Quiet' =>
                 /\ InMain => InMain'
                 /\ InIdle => InIdle'
                 /\ InStart => InStart'
                 /\ Leaving => Leaving'
                 /\ Resumed => Resumed'
                 /\ InLoop => InLoop'
           /\ InTaskCode => InTaskCode'
           /\ Entering => Entering'
           /\ InHandle => InHandle'
           /\ InSelect => InSelect'
           /\ InPrepare => InPrepare'
           /\ HandingOver => HandingOver'
           /\ Astray => Astray'
           /\ Ended => Ended'
PROOF
<1>1. /\ UNCHANGED <<tasks, task_index_queue, queue_position, active_task_block, pid_cnt>>
      /\ UNCHANGED <<prev_task_sp, next_task_sp, scheduler_task_sp>>
      /\ UNCHANGED <<frames, sp, cpu, mode, mt, fault>>
  BY DEF kernel, globals
<1>2. active_task_block \in Slots
  BY DEF TypeInv, TypeOK
<1>3. Quiet' => (InMain => InMain') /\ (InIdle => InIdle') /\ (InStart => InStart')
  BY <1>1 DEF InMain, InIdle, InStart, Dormant, ContextSaved
<1>4. TaskSide => TaskSide' /\ \A s \in Slots : OnlyRunning(s) => OnlyRunning(s)'
  BY TaskSideKept
<1>5. /\ InTaskCode => InTaskCode'
      /\ Quiet' /\ Leaving => Leaving'
      /\ Entering => Entering'
  BY <1>1, <1>2, <1>4 DEF InTaskCode, Leaving, Entering, NoneRunning, Running, OnlyRunning
<1>6. Settled => /\ Settled' /\ Scheduler' = Scheduler
                 /\ SchedulerSaved => SchedulerSaved'
                 /\ Previous => Previous'
                 /\ NoneRunning => NoneRunning'
  BY SchedulerKept
<1>7. Quiet' => (Resumed => Resumed') /\ (InLoop => InLoop')
  BY <1>1, <1>6 DEF Resumed, InLoop, SchedulerSide
<1>8. /\ InHandle => InHandle'
      /\ InSelect => InSelect'
      /\ InPrepare => InPrepare'
      /\ HandingOver => HandingOver'
  BY <1>1, <1>6
  DEF InHandle, InSelect, InPrepare, HandingOver, SchedulerSide, ContextSaved, OnlyRunning, Running
<1>9. (Astray => Astray') /\ (Ended => Ended')
  BY <1>1 DEF Astray, Ended, ReadySaved, TailReady, ContextSaved
<1> QED BY <1>3, <1>5, <1>7, <1>8, <1>9

\* and one that notes it where the kernel's timer does not match needs another timer.
LEMMA MatchStep ==
    ASSUME TypeInv, TimerMatch
    PROVE  /\ InMain => ~Punctual /\ InMain'
           /\ InIdle => ~Punctual /\ InIdle'
           /\ InStart => ~Punctual /\ InStart'
           /\ Leaving => ~Punctual /\ Leaving'
           /\ Entering => ~Punctual /\ Entering'
           /\ Resumed => ~Punctual /\ Resumed'
           /\ InLoop => ~Punctual /\ InLoop'
           /\ HandingOver => ~Punctual /\ HandingOver'
           /\ InTaskCode => InTaskCode'
           /\ InHandle => InHandle'
           /\ InSelect => InSelect'
           /\ InPrepare => InPrepare'
           /\ Astray => Astray'
           /\ Ended => Ended'
PROOF
<1>1. UNCHANGED <<kernel, globals, frames, sp, cpu, mode, mt, fault>> /\ MatchPossible
  BY DEF TimerMatch
<1>2. /\ InMain \/ InIdle \/ InStart => ~Punctual
      /\ Leaving \/ Entering \/ Resumed \/ InLoop \/ HandingOver => ~Punctual
  BY <1>1
  DEF MatchPossible, Punctual, InMain, InIdle, InStart, Dormant, Leaving, Entering, Resumed, InLoop,
      HandingOver
<1>3. ~Punctual => Quiet'
  BY DEF Quiet
<1> QED BY <1>1, <1>2, <1>3, PhaseKept

-----------------------------------------------------------------------------
(* The steps, phase by phase *)

\* The kernel starts in main.
LEMMA InitPhase == Init => InMain
PROOF BY DEF Init, InMain, Dormant, Quiet

\* Starting the kernel.
LEMMA BootStep ==
    ASSUME TypeInv, InMain, Boot
    PROVE  /\ InIdle'
           /\ pid_cnt' = 1 /\ tasks'[0].pid = 0 /\ tasks'[0].priority = 0
PROOF
<1> DEFINE list == init_task_list(tasks)
           index == Min(Free(list))
<1>1. Boot /\ pid_cnt = 0 /\ cpu.i = FALSE /\ cpu \in Contexts
  BY DEF InMain, TypeInv, TypeOK, Contexts
<1>2. tasks \in [Slots -> Tasks] /\ 0 \in Slots
  BY TasksMaxAssumption DEF TypeInv, TypeOK, Slots
<1>3. DOMAIN list = Slots /\ \A s \in Slots : list[s].status = "EMPTY"
  BY <1>2 DEF init_task_list, Tasks
<1> HIDE DEF list
<1>4. Free(list) = Slots
  BY <1>3 DEF Free
<1>5. index = 0
  <2>1. index \in Slots /\ \A s \in Slots : index =< s
    BY <1>2, <1>4, MinSlot
  <2> QED BY <1>2, <2>1 DEF Slots
<1>6. /\ tasks' = create_simplos_task(list, 0)
      /\ queue_position' = 0 /\ active_task_block' = 0 /\ sp' = task_sp_range_high(index)
      /\ cpu' = [cpu EXCEPT !.at = "idle"]
      /\ UNCHANGED <<globals, frames, mode, ocf, fault>>
  BY <1>1 DEF Boot, list
<1> HIDE DEF index
<1>7. \A s \in Slots : tasks'[s].status = IF s = 0 THEN "RUNNING" ELSE "EMPTY"
  BY <1>2, <1>3, <1>5, <1>6 DEF create_simplos_task, index
<1>8. cpu'.at = "idle" /\ ~cpu'.i
  BY <1>1, <1>6 DEF Contexts
<1>9. pid_cnt' = 1 /\ tasks'[0].pid = 0 /\ tasks'[0].priority = 0
  BY <1>1, <1>2, <1>3, <1>5, <1>6 DEF Boot, create_simplos_task, index
<1> QED BY <1>5, <1>6, <1>7, <1>8, <1>9 DEF InMain, InIdle, Dormant, Quiet, globals

LEMMA MainStep ==
    ASSUME TypeInv, InMain, Next
    PROVE  \/ /\ InIdle' /\ Boot
              /\ pid_cnt' = 1 /\ tasks'[0].pid = 0 /\ tasks'[0].priority = 0
           \/ ~Punctual /\ InMain' /\ TimerMatch
PROOF
<1>1. Boot \/ TimerMatch
  BY Steps DEF InMain, Dormant, At, Irq
<1> QED BY <1>1, BootStep, MatchStep

\* What a spawn does to the table and the stacks, when there is room.
LEMMA SpawnEffect ==
    ASSUME TypeInv, NEW caller \in Labels, NEW fn \in Labels, NEW priority \in 0..UINT8_MAX,
           Free(tasks) # {}, sp = task_sp_range_high(active_task_block),
           tasks[active_task_block].status = "RUNNING",
           spawn_task(caller, fn, priority)
    PROVE  LET a == active_task_block
               new == Min(Free(tasks))
           IN  /\ new \in Slots /\ tasks[new].status = "EMPTY" /\ active_task_block' = new
               /\ \A s \in Slots :
                     tasks'[s].status = IF s = new THEN "RUNNING"
                                        ELSE IF s = a THEN "READY" ELSE tasks[s].status
               /\ tasks'[a].task_sp_adr = Saved(a)
               /\ \A s \in Slots \ {a, new} : tasks'[s].task_sp_adr = tasks[s].task_sp_adr
               /\ Saved(a) \in DOMAIN frames'
               /\ frames'[Saved(a)].at = "user" /\ ~frames'[Saved(a)].i
               /\ \A s \in Slots \ {a, new} : Saved(s) \in DOMAIN frames =>
                     Saved(s) \in DOMAIN frames' /\ frames'[Saved(s)] = frames[Saved(s)]
               /\ \A s \in Slots : tasks'[s].pid = IF s = new THEN pid_cnt ELSE tasks[s].pid
               /\ \A s \in Slots :
                     tasks'[s].priority = IF s = new THEN priority ELSE tasks[s].priority
               /\ pid_cnt' = pid_cnt + 1
               /\ queue_position' = 0 /\ sp' = task_sp_range_high(new) /\ mt'
               /\ cpu' = [at |-> fn, i |-> TRUE, pid |-> 0, ptr |-> 0]
               /\ UNCHANGED <<task_index_queue, globals, mode, ocf, fault>>
PROOF
<1> DEFINE a == active_task_block
           new == Min(Free(tasks))
           context == [cpu EXCEPT !.at = "user", !.i = FALSE]
           stored == WithSaved(context)
<1>1. tasks \in [Slots -> Tasks] /\ a \in Slots /\ cpu \in Contexts
  BY DEF TypeInv, TypeOK
<1>2. new \in Slots /\ tasks[new].status = "EMPTY" /\ new # a
  BY <1>1, CreateType
<1>3. Here = Saved(a) /\ sp.block = a
  BY <1>1, SavedIs DEF Here
<1>4. /\ tasks' = Suspended(create_simplos_task(tasks, priority), a, Here)
      /\ active_task_block' = new /\ queue_position' = 0 /\ pid_cnt' = pid_cnt + 1
      /\ sp' = task_sp_range_high(new) /\ mt'
      /\ frames' = StillIntact(stored, task_sp_range_high(new))
      /\ cpu' = [at |-> fn, i |-> TRUE, pid |-> 0, ptr |-> 0]
      /\ UNCHANGED <<task_index_queue, globals, mode, ocf, fault>>
  BY DEF spawn_task, Invalidated, Here
<1>5. context.at = "user" /\ ~context.i
  BY <1>1 DEF Contexts
<1>6. Saved(a) \in DOMAIN stored /\ stored[Saved(a)] = context
  BY <1>3, WithSavedIs
<1>7. \A s \in Slots \ {a} : Saved(s) \in DOMAIN frames =>
         Saved(s) \in DOMAIN stored /\ stored[Saved(s)] = frames[Saved(s)]
  <2>1. \A s \in Slots \ {a} : Saved(s).block # sp.block
    BY <1>3, SavedIs
  <2> QED BY <2>1, OthersKept
<1> HIDE DEF stored, context, new
<1>8. \A s \in Slots \ {new} : Saved(s) \in DOMAIN stored =>
         Saved(s) \in DOMAIN frames' /\ frames'[Saved(s)] = stored[Saved(s)]
  <2>1. \A x \in DOMAIN stored : x.block # new => x \in DOMAIN frames' /\ frames'[x] = stored[x]
    BY <1>2, <1>4, CutKeepsOthers, SavedIs
  <2> QED BY <2>1, SavedIs
<1>9. /\ \A s \in Slots :
            tasks'[s].status = IF s = new THEN "RUNNING"
                               ELSE IF s = a THEN "READY" ELSE tasks[s].status
      /\ tasks'[a].task_sp_adr = Here
      /\ \A s \in Slots \ {a, new} : tasks'[s].task_sp_adr = tasks[s].task_sp_adr
      /\ \A s \in Slots : tasks'[s].pid = IF s = new THEN pid_cnt ELSE tasks[s].pid
      /\ \A s \in Slots : tasks'[s].priority = IF s = new THEN priority ELSE tasks[s].priority
  <2> DEFINE created == create_simplos_task(tasks, priority)
  <2>1. created \in [Slots -> Tasks]
    BY <1>1, CreateType
  <2>2. /\ \A s \in Slots : created[s].status = IF s = new THEN "RUNNING" ELSE tasks[s].status
        /\ \A s \in Slots \ {new} : created[s].task_sp_adr = tasks[s].task_sp_adr
        /\ \A s \in Slots : created[s].pid = IF s = new THEN pid_cnt ELSE tasks[s].pid
        /\ \A s \in Slots : created[s].priority = IF s = new THEN priority ELSE tasks[s].priority
    BY <1>1, <1>2 DEF create_simplos_task, new
  <2> HIDE DEF created
  <2>3. /\ \A s \in Slots : tasks'[s].status = IF s = a THEN "READY" ELSE created[s].status
        /\ \A s \in Slots : tasks'[s].task_sp_adr = IF s = a THEN Here ELSE created[s].task_sp_adr
        /\ \A s \in Slots : /\ tasks'[s].pid = created[s].pid
                            /\ tasks'[s].priority = created[s].priority
    <3>1. tasks' = [created EXCEPT ![a].status = "READY", ![a].task_sp_adr = Here]
      BY <1>4 DEF Suspended, created
    <3> QED BY <1>1, <2>1, <3>1 DEF Tasks
  <2> QED BY <1>1, <1>2, <2>2, <2>3
<1>10. /\ Saved(a) \in DOMAIN frames' /\ frames'[Saved(a)] = context
       /\ \A s \in Slots \ {a, new} : Saved(s) \in DOMAIN frames =>
             Saved(s) \in DOMAIN frames' /\ frames'[Saved(s)] = frames[Saved(s)]
  BY <1>1, <1>2, <1>6, <1>7, <1>8
<1> QED BY <1>2, <1>3, <1>4, <1>5, <1>9, <1>10 DEF new

\* run_idle_fn creates the scheduler task.
LEMMA SpawnSchedulerStep ==
    ASSUME TypeInv, InIdle, SpawnScheduler
    PROVE  InStart'
PROOF
<1>1. spawn_task("idle", "sched_start", 0)
  BY DEF SpawnScheduler
<1>2. 0 \in Slots /\ 1 \in Slots /\ 0 \in 0..UINT8_MAX
      /\ "idle" \in Labels /\ "sched_start" \in Labels
  BY TasksMaxAssumption, UInt8Assumption DEF Slots, Labels, TaskLabels, SchedulerLabels
<1>3. Free(tasks) # {} /\ tasks[0].status = "RUNNING"
  BY <1>2 DEF Free, InIdle
<1>4. active_task_block = 0 /\ sp = task_sp_range_high(active_task_block)
  BY DEF InIdle
<1> DEFINE new == Min(Free(tasks))
<1>5. /\ new \in Slots /\ new # 0 /\ active_task_block' = new
      /\ \A s \in Slots : tasks'[s].status = IF s = new THEN "RUNNING"
                                             ELSE IF s = 0 THEN "READY" ELSE tasks[s].status
      /\ tasks'[0].task_sp_adr = Saved(0)
      /\ Saved(0) \in DOMAIN frames' /\ frames'[Saved(0)].at = "user" /\ ~frames'[Saved(0)].i
      /\ queue_position' = 0 /\ sp' = task_sp_range_high(new)
      /\ cpu' = [at |-> "sched_start", i |-> TRUE, pid |-> 0, ptr |-> 0]
      /\ UNCHANGED <<globals, mode, ocf, fault>>
  BY <1>1, <1>2, <1>3, <1>4, SpawnEffect
<1> HIDE DEF new
<1> QED BY <1>5 DEF InIdle, InStart, Dormant, Quiet, ContextSaved, Resumable, globals

LEMMA IdleStep ==
    ASSUME TypeInv, InIdle, Next
    PROVE  \/ InStart' /\ SpawnScheduler
           \/ ~Punctual /\ InIdle' /\ TimerMatch
PROOF
<1>1. SpawnScheduler \/ TimerMatch
  BY Steps DEF InIdle, Dormant, At, Irq
<1> QED BY <1>1, SpawnSchedulerStep, MatchStep

\* start_scheduler saves the scheduler's first context.
LEMMA StartSchedulerStep ==
    ASSUME TypeInv, InStart, start_scheduler
    PROVE  /\ InLoop' /\ Scheduler' = active_task_block
           /\ UNCHANGED <<task_index_queue, queue_position, pid_cnt>>
           /\ frames'[Saved(0)] = frames[Saved(0)]
           /\ \A s \in Slots : /\ tasks'[s].pid = tasks[s].pid
                               /\ tasks'[s].priority = tasks[s].priority
PROOF
<1> DEFINE a == active_task_block
<1>1. start_scheduler
  OBVIOUS
<1>2. tasks \in [Slots -> Tasks] /\ a \in Slots /\ cpu \in Contexts /\ 0 \in Slots
  BY TasksMaxAssumption DEF TypeInv, TypeOK, Slots
<1>3. Here = Saved(a) /\ sp.block = a /\ a # 0
  BY <1>2, SavedIs DEF Here, InStart
<1>4. /\ tasks' = [tasks EXCEPT ![a].status = "SCHEDULER"]
      /\ frames' = WithSaved([cpu EXCEPT !.at = "sched_loop"])
      /\ sp' = Saved(a) /\ scheduler_task_sp' = Saved(a) /\ ~mt'
      /\ cpu' = [cpu EXCEPT !.at = "sched_loop"]
      /\ UNCHANGED <<task_index_queue, queue_position, active_task_block, next_task_sp,
                     mode, ocf, fault>>
  BY <1>1, <1>3 DEF start_scheduler, Here
<1>5. cpu'.at = "sched_loop"
  BY <1>2, <1>4 DEF Contexts
<1>6. Saved(a) \in DOMAIN frames' /\ frames'[Saved(a)].at = "sched_loop"
  BY <1>3, <1>4, <1>5, WithSavedIs
<1>7. Saved(0) \in DOMAIN frames' /\ frames'[Saved(0)] = frames[Saved(0)]
  BY <1>2, <1>3, <1>4, OthersKept, SavedIs DEF InStart, ContextSaved
<1>8. /\ tasks'[0].status = "READY" /\ tasks'[0].task_sp_adr = Saved(0)
      /\ \A s \in Slots : /\ tasks'[s].status = "SCHEDULER" <=> s = a
                          /\ tasks'[s].status = "READY" <=> s = 0
                          /\ tasks'[s].status # "RUNNING"
  BY <1>2, <1>3, <1>4 DEF InStart, Tasks
<1>9. Scheduler' = a
  BY <1>2, <1>4, SavedIs DEF Scheduler
<1>10. Settled'
  <2>1. OneScheduler' /\ IdleAlive'
    BY <1>2, <1>4, <1>8, <1>9 DEF OneScheduler, IdleAlive
  <2>2. ReadySaved'
    BY <1>7, <1>8 DEF ReadySaved, ContextSaved, InStart
  <2>3. TailReady'
    BY <1>4 DEF TailReady, InStart, Dormant
  <2> QED BY <1>4, <2>1, <2>2, <2>3 DEF Settled, InStart, Dormant
<1>11. SchedulerSide'
  BY <1>4, <1>6, <1>9, <1>10 DEF SchedulerSide, SchedulerSaved
<1>12. Previous'
  BY <1>2, <1>4, <1>6, <1>8, <1>9 DEF Previous, SchedulerSaved, Running
<1>13. InLoop'
  BY <1>4, <1>5, <1>11, <1>12 DEF InLoop, InStart, Dormant, Quiet
<1>14. UNCHANGED <<task_index_queue, queue_position, pid_cnt>>
  BY <1>1 DEF start_scheduler
<1>15. \A s \in Slots : tasks'[s].pid = tasks[s].pid /\ tasks'[s].priority = tasks[s].priority
  BY <1>2, <1>4 DEF Tasks
<1> QED BY <1>7, <1>9, <1>13, <1>14, <1>15

\* An interrupt before it has finds no stack pointer for the scheduler.
LEMMA StartInterrupted ==
    ASSUME TypeInv, InStart, pid_cnt # 0, TimerISR
    PROVE  ~Punctual /\ Astray'
PROOF
<1> DEFINE a == active_task_block
           context == [cpu EXCEPT !.i = FALSE]
           stored == WithSaved(context)
<1>1. a \in Slots /\ sp.block = a /\ a # 0 /\ 0 \in Slots /\ CONTEXT_SWTICH(context)
  BY TasksMaxAssumption, SavedIs DEF TypeInv, TypeOK, Slots, InStart, TimerISR
<1>2. ~Punctual
  BY DEF InStart, Dormant, Quiet, TimerISR, Irq
<1>3. SCHEDULED_TASK_OR_SCHEDULER = NullSp
  BY DEF SCHEDULED_TASK_OR_SCHEDULER, InStart, Dormant
<1>4. NullSp \notin DOMAIN stored
  <2>1. Here.depth >= num_context_switch_overhead_bytes
    BY HereType
  <2>2. NullSp.depth = 0 /\ num_context_switch_overhead_bytes = 36
    BY DEF NullSp, num_context_switch_overhead_bytes, pc_bytes, register_bytes
  <2>3. \A x \in DOMAIN frames : x.depth >= num_context_switch_overhead_bytes
    BY DEF TypeInv
  <2>4. DOMAIN stored \subseteq DOMAIN frames \cup {Here}
    BY WithSavedIs
  <2> HIDE DEF stored
  <2> QED BY <2>1, <2>2, <2>3, <2>4
<1>5. Saved(0) \in DOMAIN stored /\ stored[Saved(0)] = frames[Saved(0)]
  BY <1>1, OthersKept, SavedIs DEF InStart, ContextSaved
<1> HIDE DEF stored, context
<1>6. /\ next_task_sp' = NullSp /\ mode' = "wild" /\ frames' = stored
      /\ UNCHANGED <<kernel, cpu>>
  BY <1>1, <1>3, <1>4 DEF CONTEXT_SWTICH, next_task_sp_once_taken, stored
<1>7. ReadySaved'
  BY <1>1, <1>5, <1>6 DEF ReadySaved, ContextSaved, InStart, kernel
<1>8. TailReady'
  BY <1>6 DEF TailReady, InStart, Dormant, kernel
<1> QED BY <1>2, <1>6, <1>7, <1>8 DEF Astray, InStart, kernel

LEMMA StartStep ==
    ASSUME TypeInv, InStart, pid_cnt # 0, Next
    PROVE  \/ /\ InLoop' /\ Scheduler' = active_task_block /\ start_scheduler
              /\ UNCHANGED <<task_index_queue, queue_position, pid_cnt>>
              /\ frames'[Saved(0)] = frames[Saved(0)]
              /\ \A s \in Slots : /\ tasks'[s].pid = tasks[s].pid
                                  /\ tasks'[s].priority = tasks[s].priority
           \/ ~Punctual /\ InStart' /\ TimerMatch
           \/ ~Punctual /\ Astray'
PROOF
<1>1. start_scheduler \/ TimerISR \/ TimerMatch
  BY Steps DEF InStart, Dormant, At
<1> QED BY <1>1, StartSchedulerStep, StartInterrupted, MatchStep

\* A task creates another: the caller becomes READY and the new task runs.
LEMMA SpawnStep ==
    ASSUME TypeInv, InTaskCode, NEW priority \in Priorities, spawn_task("user", "user", priority)
    PROVE  InTaskCode' \/ Ended'
PROOF
<1> DEFINE a == active_task_block
           new == Min(Free(tasks))
<1>1. CASE Free(tasks) = {}
  BY <1>1 DEF spawn_task, FATAL_ERROR, Ended
<1>2. CASE Free(tasks) # {}
  <2>1. a \in Slots /\ 0 \in Slots /\ Scheduler \in Slots /\ a # Scheduler
        /\ tasks[a].status = "RUNNING" /\ sp = task_sp_range_high(active_task_block)
    BY TasksMaxAssumption
    DEF TypeInv, TypeOK, Slots, InTaskCode, TaskSide, Settled, OneScheduler, OnlyRunning, Running
  <2>2. "user" \in Labels /\ priority \in 0..UINT8_MAX
    BY PrioritiesAssumption DEF Labels, TaskLabels
  <2>3. /\ new \in Slots /\ tasks[new].status = "EMPTY" /\ active_task_block' = new
        /\ \A s \in Slots :
              tasks'[s].status = IF s = new THEN "RUNNING"
                                 ELSE IF s = a THEN "READY" ELSE tasks[s].status
        /\ tasks'[a].task_sp_adr = Saved(a)
        /\ \A s \in Slots \ {a, new} : tasks'[s].task_sp_adr = tasks[s].task_sp_adr
        /\ Saved(a) \in DOMAIN frames'
        /\ frames'[Saved(a)].at = "user" /\ ~frames'[Saved(a)].i
        /\ \A s \in Slots \ {a, new} : Saved(s) \in DOMAIN frames =>
              Saved(s) \in DOMAIN frames' /\ frames'[Saved(s)] = frames[Saved(s)]
        /\ queue_position' = 0 /\ sp' = task_sp_range_high(new) /\ mt'
        /\ cpu' = [at |-> "user", i |-> TRUE, pid |-> 0, ptr |-> 0]
        /\ UNCHANGED <<task_index_queue, globals, mode, ocf, fault>>
    BY <1>2, <2>1, <2>2, SpawnEffect
  <2> HIDE DEF new
  <2>4. \A s \in Slots : tasks[s].status = "SCHEDULER" <=> s = Scheduler
    BY DEF InTaskCode, TaskSide, Settled, OneScheduler
  <2>5. new # Scheduler /\ Scheduler' = Scheduler
    BY <2>3, <2>4 DEF Scheduler, globals
  <2>6. Settled'
    <3>1. OneScheduler'
      BY <2>1, <2>3, <2>4, <2>5 DEF OneScheduler, InTaskCode, TaskSide, Settled, globals
    <3>2. IdleAlive'
      BY <2>1, <2>3 DEF IdleAlive, InTaskCode, TaskSide, Settled
    <3>3. ASSUME NEW s \in Slots, tasks'[s].status = "READY"
          PROVE  tasks'[s].task_sp_adr = Saved(s) /\ ContextSaved(s)'
      <4>1. CASE s = a
        BY <2>3, <4>1 DEF ContextSaved, Resumable
      <4>2. CASE s # a
        <5>1. s # new /\ tasks[s].status = "READY"
          BY <2>3, <3>3, <4>2
        <5>2. tasks[s].task_sp_adr = Saved(s) /\ ContextSaved(s)
          BY <5>1 DEF InTaskCode, TaskSide, Settled, ReadySaved
        <5> QED BY <2>3, <4>2, <5>1, <5>2 DEF ContextSaved
      <4> QED BY <4>1, <4>2
    <3>4. TailReady'
      BY <2>3 DEF TailReady
    <3> QED BY <2>3, <3>1, <3>2, <3>3, <3>4 DEF Settled, ReadySaved, InTaskCode, TaskSide
  <2>7. SchedulerSaved'
    BY <2>1, <2>3, <2>5 DEF SchedulerSaved, InTaskCode, TaskSide
  <2>8. OnlyRunning(active_task_block)'
    BY <2>3 DEF OnlyRunning, Running, InTaskCode
  <2> QED
    BY <2>3, <2>5, <2>6, <2>7, <2>8
    DEF InTaskCode, TaskSide, OnlyRunning, Running, globals, Resumable
<1> QED BY <1>1, <1>2

\* A task ends.
LEMMA ExitStep ==
    ASSUME TypeInv, InTaskCode, Exit
    PROVE  Leaving'
PROOF
<1> DEFINE a == active_task_block
<1>1. tasks \in [Slots -> Tasks] /\ a \in Slots /\ 0 \in Slots /\ cpu \in Contexts /\ a # 0
  BY TasksMaxAssumption DEF TypeInv, TypeOK, Slots, Exit
<1>2. cpu.i /\ mt /\ ~ocf
  BY DEF InTaskCode, Exit, At, Irq
<1>3. /\ tasks' = [tasks EXCEPT ![a].status = "EMPTY", ![a].task_sp_adr = task_sp_range_high(a)]
      /\ queue_position' = 0 /\ mode' = "switch" /\ cpu' = [cpu EXCEPT !.at = "dead", !.i = FALSE]
      /\ UNCHANGED <<task_index_queue, active_task_block, pid_cnt, globals, frames, sp, ocf, fault>>
  BY DEF Exit, Invalidated, k_yield
<1>4. /\ \A s \in Slots : tasks'[s].status = IF s = a THEN "EMPTY" ELSE tasks[s].status
      /\ \A s \in Slots \ {a} : tasks'[s].task_sp_adr = tasks[s].task_sp_adr
  BY <1>1, <1>3 DEF Tasks
<1>5. cpu'.at = "dead" /\ ~cpu'.i
  BY <1>1, <1>3 DEF Contexts
<1>6. Scheduler' = Scheduler /\ a # Scheduler
  BY <1>3 DEF Scheduler, globals, InTaskCode, TaskSide
<1>7. OneScheduler'
  BY <1>1, <1>3, <1>4, <1>6 DEF OneScheduler, InTaskCode, TaskSide, Settled, globals
<1>8. IdleAlive'
  BY <1>1, <1>4 DEF IdleAlive, InTaskCode, TaskSide, Settled
<1>9. ASSUME NEW s \in Slots, tasks'[s].status = "READY"
      PROVE  tasks'[s].task_sp_adr = Saved(s) /\ ContextSaved(s)'
  <2>1. s # a /\ tasks[s].status = "READY" /\ frames' = frames
    BY <1>3, <1>4, <1>9
  <2>2. tasks[s].task_sp_adr = Saved(s) /\ ContextSaved(s)
    BY <2>1 DEF InTaskCode, TaskSide, Settled, ReadySaved
  <2> QED BY <1>4, <2>1, <2>2 DEF ContextSaved
<1>10. TailReady'
  BY <1>3 DEF TailReady
<1>11. Settled' /\ SchedulerSaved'
  BY <1>3, <1>6, <1>7, <1>8, <1>9, <1>10 DEF Settled, ReadySaved, SchedulerSaved, InTaskCode, TaskSide
<1>12. NoneRunning'
  BY <1>4 DEF NoneRunning, Running, InTaskCode, OnlyRunning
<1> QED
  BY <1>1, <1>2, <1>3, <1>4, <1>5, <1>6, <1>11, <1>12
  DEF Leaving, Quiet, InTaskCode, TaskSide, globals

\* A change of priority disturbs nothing but the rounds to come.
LEMMA SetPriorityStep ==
    ASSUME TypeInv, InTaskCode, SetPriority
    PROVE  InTaskCode'
PROOF
<1>1. tasks \in [Slots -> Tasks]
  BY DEF TypeInv, TypeOK
<1>2. PICK priority \in Priorities :
         tasks' = [tasks EXCEPT ![active_task_block].priority = priority]
  BY DEF SetPriority
<1>3. UNCHANGED <<task_index_queue, queue_position, active_task_block, prev_task_sp, next_task_sp,
                  scheduler_task_sp, frames, sp, cpu, mode, mt, ocf, fault>>
  BY DEF SetPriority, globals, machine
<1>4. \A s \in Slots : /\ tasks'[s].status = tasks[s].status
                       /\ tasks'[s].task_sp_adr = tasks[s].task_sp_adr
  BY <1>1, <1>2 DEF Tasks
<1>5. Settled'
  <2>1. \A s \in Slots : tasks[s].status = "READY" => Saved(s) \in DOMAIN frames
    BY DEF InTaskCode, TaskSide, Settled, ReadySaved, ContextSaved
  <2> QED BY <1>3, <1>4, <2>1, SettledKept DEF InTaskCode, TaskSide
<1>6. SchedulerSaved' /\ Scheduler' = Scheduler
  BY <1>3 DEF SchedulerSaved, Scheduler, InTaskCode, TaskSide
<1>7. OnlyRunning(active_task_block)'
  BY <1>3, <1>4 DEF OnlyRunning, Running, InTaskCode
<1> QED BY <1>3, <1>5, <1>6, <1>7 DEF InTaskCode, TaskSide

\* The other steps of task code touch neither the table nor the stacks.
LEMMA MachineStep ==
    ASSUME TypeInv, InTaskCode, UNCHANGED <<kernel, globals, frames, sp, fault>>,
           \/ /\ mode' = "run" /\ cpu'.i
              /\ \/ cpu'.at \in Resumable /\ mt'
                 \/ cpu'.at = "scan" /\ ~mt'
           \/ mode' = "switch" /\ cpu'.at \in {"user", "lookup"} /\ ~cpu'.i /\ ~ocf'
    PROVE  InTaskCode' \/ Leaving'
PROOF
<1>1. TaskSide' /\ active_task_block' = active_task_block /\ active_task_block \in Slots
  BY TaskSideKept DEF InTaskCode, kernel, TypeInv, TypeOK
<1>2. OnlyRunning(active_task_block)'
  BY <1>1, TaskSideKept DEF InTaskCode, OnlyRunning, Running, kernel
<1>3. sp' = task_sp_range_high(active_task_block')
  BY <1>1 DEF InTaskCode
<1>4. CASE mode' = "run"
  BY <1>1, <1>2, <1>3, <1>4 DEF InTaskCode, Resumable
<1>5. CASE mode' = "switch"
  BY <1>1, <1>2, <1>3, <1>5 DEF Leaving, Quiet
<1> QED BY <1>4, <1>5

\* The timer interrupt takes the CPU from a task.
LEMMA PreemptStep ==
    ASSUME TypeInv, InTaskCode, Irq, TimerISR
    PROVE  /\ Resumed'
           /\ ContextsStay(active_task_block, Scheduler)
           /\ frames'[Saved(active_task_block)] = [cpu EXCEPT !.i = FALSE]
PROOF
<1> DEFINE context == [cpu EXCEPT !.i = FALSE]
<1>1. cpu \in Contexts
  BY DEF TypeInv, TypeOK
<1>2. CONTEXT_SWTICH(context) /\ ~ocf'
  BY DEF TimerISR
<1>3. context.at \in Resumable /\ ~context.i
  BY <1>1 DEF InTaskCode, Irq, Contexts
<1> HIDE DEF context
<1>4. /\ TaskSide /\ sp = task_sp_range_high(active_task_block)
      /\ tasks[active_task_block].status = "RUNNING"
      /\ \A s \in Slots : Running(s) => s = active_task_block
  BY DEF InTaskCode, OnlyRunning, Running, TypeInv, TypeOK
<1>5. /\ Resumed'
      /\ ContextsStay(active_task_block, Scheduler)
      /\ frames'[Saved(active_task_block)] = context
  BY <1>2, <1>3, <1>4, SwitchToScheduler DEF Quiet
<1> QED BY <1>5 DEF context

\* Task code goes on, leaves by a yield or an exit, is preempted or ends the system.
LEMMA TaskCodeStep ==
    ASSUME TypeInv, InTaskCode, Next
    PROVE  InTaskCode' \/ Leaving' \/ Resumed' \/ Ended'
PROOF
<1>1. cpu \in Contexts /\ mode = "run" /\ cpu.i /\ ocf \in BOOLEAN
  BY DEF TypeInv, TypeOK, InTaskCode
<1>2. \/ cpu.at = "user" /\ ~Irq /\ SystemCall
      \/ cpu.at = "lookup" /\ LookUp
      \/ cpu.at = "scan" /\ Scan
      \/ cpu.at = "read" /\ ~Irq /\ ReadStatus
      \/ Irq /\ TimerISR
      \/ TimerMatch
  BY Steps DEF InTaskCode, At, Resumable
<1>3. CASE cpu.at = "user" /\ ~Irq /\ SystemCall
  <2>1. mt /\ ~ocf
    BY <1>1, <1>3 DEF InTaskCode, Irq
  <2>2. CASE Spawn
    BY <2>2, SpawnStep DEF Spawn
  <2>3. CASE Exit
    BY <2>3, ExitStep
  <2>4. CASE Yield
    <3>1. cpu' = [cpu EXCEPT !.at = "user", !.i = FALSE] /\ mode' = "switch"
          /\ UNCHANGED <<kernel, globals, frames, sp, mt, ocf, fault>>
      BY <2>4 DEF Yield, k_yield
    <3>2. cpu'.at = "user" /\ ~cpu'.i
      BY <1>1, <3>1 DEF Contexts
    <3> QED BY <2>1, <3>1, <3>2, MachineStep
  <2>5. CASE SetPriority
    BY <2>5, SetPriorityStep
  <2>6. CASE Terminate
    BY <2>6 DEF Terminate, FATAL_ERROR, Ended
  <2>7. CASE Wait
    <3>1. PICK pid \in 0..(MaxPid - 1) : cpu' = [cpu EXCEPT !.at = "lookup", !.pid = pid]
      BY <2>7 DEF Wait
    <3>2. cpu'.at = "lookup" /\ cpu'.i
      BY <1>1, <3>1 DEF Contexts
    <3>3. UNCHANGED <<kernel, globals, frames, sp, mode, mt, ocf, fault>>
      BY <2>7 DEF Wait
    <3> QED BY <1>1, <2>1, <3>2, <3>3, MachineStep DEF Resumable
  <2> QED BY <1>3, <2>2, <2>3, <2>4, <2>5, <2>6, <2>7 DEF SystemCall
<1>4. CASE LookUp
  <2>1. cpu' = [cpu EXCEPT !.at = "scan"] /\ ~mt'
        /\ UNCHANGED <<kernel, globals, frames, sp, mode, ocf, fault>>
    BY <1>4 DEF LookUp
  <2>2. cpu'.at = "scan" /\ cpu'.i
    BY <1>1, <2>1 DEF Contexts
  <2> QED BY <1>1, <2>1, <2>2, MachineStep
<1>5. CASE Scan
  <2>1. mt' /\ UNCHANGED <<kernel, globals, frames, sp, mode, ocf, fault>>
    BY <1>5 DEF Scan
  <2>2. cpu'.at \in {"user", "read"} /\ cpu'.i
    BY <1>1, <1>5 DEF Scan, WaitOver, Contexts
  <2> QED BY <1>1, <2>1, <2>2, MachineStep DEF Resumable
<1>6. CASE cpu.at = "read" /\ ~Irq /\ ReadStatus
  <2>1. mt /\ ~ocf
    BY <1>1, <1>6 DEF InTaskCode, Irq
  <2>2. UNCHANGED <<kernel, globals, frames, sp, mt, ocf, fault>>
    BY <1>6 DEF ReadStatus
  <2>3. \/ mode' = "run" /\ cpu'.at = "user" /\ cpu'.i
        \/ mode' = "switch" /\ cpu'.at = "lookup" /\ ~cpu'.i
    BY <1>1, <1>6 DEF ReadStatus, WaitOver, Contexts
  <2> QED BY <2>1, <2>2, <2>3, MachineStep DEF Resumable
<1>7. CASE Irq /\ TimerISR
  BY <1>7, PreemptStep
<1>8. CASE TimerMatch
  <2>1. UNCHANGED <<kernel, globals, frames, sp, cpu, mode, mt, fault>>
    BY <1>8 DEF TimerMatch
  <2> QED BY <1>1, <2>1, MachineStep DEF InTaskCode
<1> QED BY <1>2, <1>3, <1>4, <1>5, <1>6, <1>7, <1>8

\* The switch away from a task leads to the scheduler.
LEMMA LeavingStep ==
    ASSUME TypeInv, Leaving, Next
    PROVE  \/ /\ Resumed'
              /\ ContextsStay(active_task_block, Scheduler)
              /\ frames'[Saved(active_task_block)] = cpu
           \/ ~Punctual /\ Leaving' /\ TimerMatch
PROOF
<1> SUFFICES ASSUME ~TimerMatch
             PROVE  /\ Resumed'
                    /\ ContextsStay(active_task_block, Scheduler)
                    /\ frames'[Saved(active_task_block)] = cpu
  BY MatchStep
<1>1. Switch /\ cpu \in Contexts /\ active_task_block \in Slots
  BY Steps DEF Leaving, At, Irq, TypeInv, TypeOK
<1>2. CONTEXT_SWTICH(cpu) /\ Quiet'
  BY <1>1 DEF Switch, Leaving, Quiet
<1>3. /\ TaskSide /\ sp = task_sp_range_high(active_task_block)
      /\ tasks[active_task_block].status \in {"RUNNING", "EMPTY"}
      /\ \A s \in Slots : Running(s) => s = active_task_block
      /\ tasks[active_task_block].status = "RUNNING" => cpu.at \in Resumable /\ ~cpu.i
  BY <1>1 DEF Leaving, OnlyRunning, NoneRunning, Running, Resumable
<1> QED BY <1>1, <1>2, <1>3, SwitchToScheduler

\* ret and reti lead into the task the scheduler has chosen.
LEMMA EnteringStep ==
    ASSUME TypeInv, Entering, Next
    PROVE  \/ InTaskCode' /\ Return
           \/ ~Punctual /\ Entering' /\ TimerMatch
PROOF
<1> SUFFICES ASSUME ~TimerMatch PROVE InTaskCode' /\ Return
  BY MatchStep
<1>1. Return /\ cpu \in Contexts /\ active_task_block \in Slots
  BY Steps DEF Entering, At, Irq, TypeInv, TypeOK
<1>2. /\ mode' = "run" /\ cpu' = [cpu EXCEPT !.i = TRUE] /\ sp' = Popped(sp, pc_bytes)
      /\ UNCHANGED <<kernel, globals, frames, mt, ocf, fault>>
  BY <1>1 DEF Return
<1>3. sp' = task_sp_range_high(active_task_block)
  BY <1>1, <1>2, SavedIs DEF Entering
<1>4. cpu'.at = cpu.at /\ cpu'.i
  BY <1>1, <1>2 DEF Contexts
<1>5. TaskSide' /\ active_task_block' = active_task_block
  BY <1>2, TaskSideKept DEF Entering, kernel
<1>6. OnlyRunning(active_task_block)'
  BY <1>2 DEF Entering, OnlyRunning, Running, kernel
<1> QED BY <1>1, <1>2, <1>3, <1>4, <1>5, <1>6 DEF Entering, InTaskCode, Resumable

\* ret and reti lead back into the scheduler's loop.
LEMMA ReturnToLoop ==
    ASSUME TypeInv, Resumed, Return
    PROVE  InLoop'
PROOF
<1>1. cpu \in Contexts /\ Scheduler \in Slots
  BY DEF Resumed, Settled, OneScheduler, TypeInv, TypeOK
<1>2. /\ mode' = "run" /\ cpu' = [cpu EXCEPT !.i = TRUE] /\ sp' = Popped(sp, pc_bytes)
      /\ UNCHANGED <<kernel, globals, frames, mt, ocf, fault>>
  BY DEF Return
<1>3. sp' = task_sp_range_high(Scheduler) /\ cpu'.at = cpu.at
  BY <1>1, <1>2, SavedIs DEF Resumed, Contexts
<1>4. Settled' /\ Scheduler' = Scheduler /\ Previous'
  BY <1>2, SchedulerKept DEF Resumed
<1>5. tasks'[active_task_block'].status # "SCHEDULER"
  BY <1>2 DEF Resumed, kernel
<1> QED BY <1>2, <1>3, <1>4, <1>5 DEF Resumed, InLoop, Quiet, SchedulerSide, globals

\* An interrupt before its reti, which the context start_scheduler has saved lets through,
\* looks for that context again, which is gone.
LEMMA ResumedInterrupted ==
    ASSUME TypeInv, Resumed, pid_cnt # 0, TimerISR
    PROVE  ~Punctual /\ cpu.i /\ Astray'
PROOF
<1> DEFINE context == [cpu EXCEPT !.i = FALSE]
           stored == WithSaved(context)
<1>1. /\ Scheduler \in Slots /\ scheduler_task_sp = Saved(Scheduler)
      /\ CONTEXT_SWTICH(context) /\ Scheduler # tasks_max
  BY TasksMaxAssumption DEF Resumed, Settled, OneScheduler, TimerISR, Slots
<1>2. ~Punctual /\ cpu.i
  BY DEF Resumed, Quiet, TimerISR, Irq
<1>3. SCHEDULED_TASK_OR_SCHEDULER = Saved(Scheduler)
  BY <1>1 DEF SCHEDULED_TASK_OR_SCHEDULER, Resumed
<1>4. sp.block = Scheduler /\ Here # Saved(Scheduler)
  <2>1. sp.depth = 3 /\ sp.block = Scheduler
    BY DEF Resumed, Returning, pc_bytes
  <2>2. Here.depth = 39
    BY <2>1 DEF Here, Pushed, num_context_switch_overhead_bytes, pc_bytes, register_bytes
  <2> QED BY <1>1, <2>1, <2>2, SavedIs
<1>5. Saved(Scheduler) \notin DOMAIN stored
  BY <1>4, WithSavedIs DEF Resumed
<1>6. \A s \in Slots \ {Scheduler} : Saved(s) \in DOMAIN frames =>
         Saved(s) \in DOMAIN stored /\ stored[Saved(s)] = frames[Saved(s)]
  BY <1>4, OthersKept, SavedIs
<1> HIDE DEF stored, context
<1>7. /\ next_task_sp' = NullSp /\ mode' = "wild" /\ frames' = stored
      /\ UNCHANGED <<kernel, cpu>>
  BY <1>1, <1>3, <1>5 DEF CONTEXT_SWTICH, next_task_sp_once_taken, stored
<1>8. ReadySaved'
  <2>1. \A s \in Slots : tasks[s].status = "READY" =>
           s # Scheduler /\ tasks[s].task_sp_adr = Saved(s) /\ ContextSaved(s)
    BY DEF Resumed, Settled, OneScheduler, ReadySaved
  <2> QED BY <1>6, <1>7, <2>1 DEF ReadySaved, ContextSaved, kernel
<1>9. TailReady'
  BY <1>7 DEF TailReady, Resumed, Settled, kernel
<1> QED BY <1>2, <1>7, <1>8, <1>9 DEF Astray, Resumed, kernel

LEMMA ResumedStep ==
    ASSUME TypeInv, Resumed, pid_cnt # 0, Next
    PROVE  \/ InLoop' /\ Return
           \/ ~Punctual /\ Resumed' /\ TimerMatch
           \/ ~Punctual /\ cpu.i /\ Astray'
PROOF
<1>1. Return \/ TimerISR \/ TimerMatch
  BY Steps DEF Resumed, At
<1> QED BY <1>1, ReturnToLoop, ResumedInterrupted, MatchStep

\* An interrupt of the loop before its DISABLE_MT saves the scheduler and resumes it.
LEMMA LoopInterrupted ==
    ASSUME TypeInv, InLoop, TimerISR
    PROVE  ~Punctual /\ Resumed'
PROOF
<1> DEFINE context == [cpu EXCEPT !.i = FALSE]
           stored == WithSaved(context)
<1>1. /\ Scheduler \in Slots /\ scheduler_task_sp = Saved(Scheduler) /\ cpu \in Contexts
      /\ CONTEXT_SWTICH(context) /\ ~ocf'
  BY DEF InLoop, SchedulerSide, Settled, OneScheduler, TimerISR, TypeInv, TypeOK
<1>2. /\ ~Punctual /\ sp = task_sp_range_high(Scheduler)
      /\ tasks[active_task_block].status # "SCHEDULER"
  BY DEF InLoop, Quiet, TimerISR, Irq
<1>3. SCHEDULED_TASK_OR_SCHEDULER = Saved(Scheduler)
  BY <1>1 DEF SCHEDULED_TASK_OR_SCHEDULER, InLoop
<1>4. sp.block = Scheduler /\ Here = Saved(Scheduler)
  BY <1>1, <1>2, SavedIs DEF Here
<1>5. Saved(Scheduler) \in DOMAIN stored /\ stored[Saved(Scheduler)] = context
  BY <1>4, WithSavedIs
<1>6. \A s \in Slots \ {Scheduler} : Saved(s) \in DOMAIN frames =>
         Saved(s) \in DOMAIN stored /\ stored[Saved(s)] = frames[Saved(s)]
  BY <1>4, OthersKept, SavedIs
<1>7. context.at = "sched_loop"
  BY <1>1 DEF InLoop, Contexts
<1> HIDE DEF stored, context
<1>8. /\ prev_task_sp' = Saved(Scheduler) /\ next_task_sp' = NullSp
      /\ mode' = "tail" /\ cpu' = context
      /\ sp' = Returning(Scheduler) /\ frames' = StillIntact(stored, Returning(Scheduler))
      /\ UNCHANGED <<kernel, scheduler_task_sp, fault>>
  BY <1>1, <1>3, <1>4, <1>5, SavedIs DEF CONTEXT_SWTICH, Here, next_task_sp_once_taken, stored
<1>9. \A s \in Slots \ {Scheduler} : Saved(s) \in DOMAIN stored =>
         Saved(s) \in DOMAIN frames' /\ frames'[Saved(s)] = stored[Saved(s)]
  <2>1. \A x \in DOMAIN stored : x.block # Scheduler =>
           x \in DOMAIN frames' /\ frames'[x] = stored[x]
    BY <1>1, <1>8, CutKeepsOthers, SavedIs
  <2> QED BY <2>1, SavedIs
<1>10. Settled'
  <2>1. \A s \in Slots : tasks[s].status = "READY" =>
           s # Scheduler /\ Saved(s) \in DOMAIN frames
    BY DEF InLoop, SchedulerSide, Settled, OneScheduler, ReadySaved, ContextSaved
  <2>2. \A s \in Slots : tasks[s].status = "READY" =>
           Saved(s) \in DOMAIN frames' /\ frames'[Saved(s)] = frames[Saved(s)]
    BY <2>1, <1>6, <1>9
  <2> QED BY <1>8, <2>2, SettledKept DEF InLoop, SchedulerSide, kernel
<1>11. Previous' /\ tasks'[active_task_block'].status # "SCHEDULER" /\ Scheduler' = Scheduler
  BY <1>2, <1>8 DEF InLoop, Previous, Running, Scheduler, kernel
<1>12. Saved(Scheduler) \notin DOMAIN frames'
  <2>1. Returning(Scheduler).depth = 3
    BY DEF Returning, pc_bytes
  <2>2. \A x \in DOMAIN frames' : x.block = Returning(Scheduler).block => x.depth =< 3
    <3>1. DOMAIN frames' = {x \in DOMAIN stored : x.block = Returning(Scheduler).block
                                                   => x.depth =< Returning(Scheduler).depth}
      BY <1>8, StillIntactIs
    <3> QED BY <2>1, <3>1
  <2> QED BY <1>1, <2>2, SavedIs
<1> QED
  BY <1>1, <1>2, <1>7, <1>8, <1>10, <1>11, <1>12 DEF Resumed, Quiet, Returning

\* One turn of the scheduler's loop.
LEMMA LoopStep ==
    ASSUME TypeInv, InLoop, Next
    PROVE  \/ InHandle' /\ MaskTimer
           \/ ~Punctual /\ InLoop' /\ TimerMatch
           \/ ~Punctual /\ Resumed'
PROOF
<1>1. MaskTimer \/ TimerISR \/ TimerMatch
  BY Steps DEF InLoop, At
<1>2. CASE MaskTimer
  <2>1. /\ cpu' = [cpu EXCEPT !.at = "sched_handle"] /\ ~mt' /\ cpu \in Contexts
        /\ UNCHANGED <<kernel, globals, frames, sp, mode, ocf, fault>>
    BY <1>2 DEF MaskTimer, TypeInv, TypeOK
  <2>2. cpu'.at = "sched_handle"
    BY <2>1 DEF Contexts
  <2>3. SchedulerSide' /\ Previous'
    BY <2>1, SchedulerKept DEF InLoop, SchedulerSide
  <2> QED BY <1>2, <2>1, <2>2, <2>3 DEF InLoop, InHandle, globals
<1> QED BY <1>1, <1>2, LoopInterrupted, MatchStep

\* handle_previous_task passes its assertions and stores where the previous task's context is.
LEMMA HandleStep ==
    ASSUME TypeInv, InHandle, Next
    PROVE  InHandle' \/ InSelect' \/ Ended'
PROOF
<1> DEFINE a == active_task_block
           handled ==
               CASE tasks[a].status = "SCHEDULER" ->
                       [tasks EXCEPT ![a].task_sp_adr = scheduler_task_sp]
                 [] tasks[a].status = "RUNNING" -> Suspended(tasks, a, prev_task_sp)
                 [] OTHER -> tasks
           Handled ==
               /\ tasks' = handled
               /\ cpu' = [cpu EXCEPT !.at = "sched_select"]
               /\ UNCHANGED <<task_index_queue, queue_position, active_task_block, pid_cnt,
                              globals, frames, sp, mode, mt, ocf, fault>>
<1>1. handle_previous_task \/ TimerMatch
  BY Steps DEF InHandle, At, Irq
<1>2. /\ tasks \in [Slots -> Tasks] /\ a \in Slots /\ cpu \in Contexts /\ 0 \in Slots
      /\ task_index_queue \in [0..tasks_max -> Slots]
      /\ \A k \in 0..(queue_position - 1) : task_index_queue[k] \in Slots
  BY TasksMaxAssumption DEF TypeInv, TypeOK, Slots
<1>3. /\ Scheduler \in Slots /\ scheduler_task_sp = Saved(Scheduler)
      /\ \A s \in Slots : tasks[s].status = "SCHEDULER" <=> s = Scheduler
  BY DEF InHandle, SchedulerSide, Settled, OneScheduler
<1>4. /\ \A s \in Slots : handled[s].status =
            IF s = a /\ tasks[a].status = "RUNNING" THEN "READY" ELSE tasks[s].status
      /\ \A s \in Slots \ {a} : handled[s].task_sp_adr = tasks[s].task_sp_adr
      /\ tasks[a].status = "RUNNING" => handled[a].task_sp_adr = prev_task_sp
      /\ tasks[a].status = "SCHEDULER" => handled[a].task_sp_adr = scheduler_task_sp
  <2>1. CASE tasks[a].status = "SCHEDULER"
    <3>1. handled = [tasks EXCEPT ![a].task_sp_adr = scheduler_task_sp]
      BY <2>1
    <3> HIDE DEF handled
    <3> QED BY <1>2, <2>1, <3>1 DEF Tasks
  <2>2. CASE tasks[a].status = "RUNNING"
    <3>1. handled = [tasks EXCEPT ![a].status = "READY", ![a].task_sp_adr = prev_task_sp]
      BY <2>2 DEF Suspended
    <3> HIDE DEF handled
    <3> QED BY <1>2, <2>2, <3>1 DEF Tasks
  <2>3. CASE tasks[a].status = "EMPTY"
    <3>1. handled = tasks
      BY <2>3
    <3> HIDE DEF handled
    <3> QED BY <2>3, <3>1
  <2> QED BY <2>1, <2>2, <2>3 DEF InHandle, Previous
<1>5. tasks[a].status # "EMPTY" =>
         \/ handled[a].task_sp_adr = Saved(a) /\ Saved(a) \in DOMAIN frames
         \/ ~Punctual /\ a # Scheduler /\ handled[a].task_sp_adr = Saved(Scheduler)
  BY <1>2, <1>3, <1>4 DEF InHandle, Previous, ContextSaved, SchedulerSaved
<1> HIDE DEF handled
<1> HIDE DEF Handled
<1>6. handle_previous_task =>
         \/ Handled /\ (tasks[a].status # "EMPTY" => handled[a].task_sp_adr = Saved(a))
         \/ FATAL_ERROR("malformed_pc")
         \/ ~Punctual /\ FATAL_ERROR("bad_task_sp")
  <2> SUFFICES ASSUME handle_previous_task
               PROVE  \/ Handled /\ (tasks[a].status # "EMPTY" => handled[a].task_sp_adr = Saved(a))
                      \/ FATAL_ERROR("malformed_pc")
                      \/ ~Punctual /\ FATAL_ERROR("bad_task_sp")
    OBVIOUS
  <2>1. PICK valid \in ReturnAddressValid(handled[a].task_sp_adr) :
           IF \/ tasks[a].status = "EMPTY"
              \/ (assert_task_pointer_integrity(a, handled[a].task_sp_adr) /\ valid)
           THEN Handled
           ELSE FATAL_ERROR(IF assert_task_pointer_integrity(a, handled[a].task_sp_adr)
                            THEN "malformed_pc" ELSE "bad_task_sp")
    BY DEF handle_previous_task, handled, Handled
  <2>2. assert_task_pointer_integrity(a, Saved(a))
    BY <1>2, SavedIs
  <2>3. a # Scheduler => ~assert_task_pointer_integrity(a, Saved(Scheduler))
    BY <1>3, SavedIs DEF assert_task_pointer_integrity
  <2> QED BY <1>5, <2>1, <2>2, <2>3
<1>7. CASE FATAL_ERROR("malformed_pc") \/ (~Punctual /\ FATAL_ERROR("bad_task_sp"))
  BY <1>7 DEF FATAL_ERROR, Ended
<1>8. CASE Handled /\ (tasks[a].status # "EMPTY" => handled[a].task_sp_adr = Saved(a))
  <2>3. /\ tasks' = handled
        /\ cpu' = [cpu EXCEPT !.at = "sched_select"]
        /\ UNCHANGED <<task_index_queue, queue_position, active_task_block, pid_cnt,
                       globals, frames, sp, mode, mt, ocf, fault>>
    BY <1>8 DEF Handled
  <2>4. cpu'.at = "sched_select"
    BY <1>2, <2>3 DEF Contexts
  <2>5. Scheduler' = Scheduler /\ scheduler_task_sp' = scheduler_task_sp
        /\ next_task_sp' = next_task_sp
    BY <2>3 DEF Scheduler, globals
  <2>6. Settled'
    <3>1. OneScheduler'
      BY <1>3, <1>4, <2>3, <2>5 DEF OneScheduler
    <3>2. IdleAlive'
      BY <1>2, <1>4, <2>3 DEF IdleAlive, InHandle, SchedulerSide, Settled
    <3>3. ASSUME NEW s \in Slots, handled[s].status = "READY"
          PROVE  handled[s].task_sp_adr = Saved(s) /\ ContextSaved(s)
      <4>1. CASE s = a
        <5>1. tasks[a].status = "RUNNING" /\ handled[a].task_sp_adr = Saved(a)
          BY <1>4, <1>8, <3>3, <4>1 DEF InHandle, Previous
        <5>2. prev_task_sp = Saved(a)
          BY <1>4, <5>1
        <5>3. Saved(a) # Saved(Scheduler)
          BY <1>2, <1>3, <5>1, SavedIs
        <5> QED BY <4>1, <5>1, <5>2, <5>3 DEF InHandle, Previous
      <4>2. CASE s # a
        <5>1. tasks[s].status = "READY"
          BY <1>4, <3>3, <4>2
        <5> QED
          BY <1>4, <4>2, <5>1 DEF InHandle, SchedulerSide, Settled, ReadySaved
      <4> QED BY <4>1, <4>2
    <3>4. ReadySaved'
      BY <2>3, <3>3 DEF ReadySaved, ContextSaved
    <3>5. TailReady'
      BY <1>2, <1>4, <2>3 DEF TailReady, InHandle, SchedulerSide, Settled
    <3> QED BY <2>3, <3>1, <3>2, <3>4, <3>5 DEF Settled, InHandle, SchedulerSide
  <2>7. SchedulerSide'
    BY <2>3, <2>5, <2>6 DEF SchedulerSide, InHandle, SchedulerSaved
  <2>8. NoneRunning'
    BY <1>4, <2>3 DEF NoneRunning, Running, InHandle, Previous
  <2> QED BY <2>3, <2>4, <2>5, <2>7, <2>8 DEF InHandle, InSelect
<1> QED BY <1>1, <1>6, <1>7, <1>8, MatchStep

\* The round is refilled from the READY tasks when it is used up, and the last entry taken.
LEMMA SelectStep ==
    ASSUME TypeInv, PrioritiesListed, InSelect, Next
    PROVE  \/ InSelect' /\ TimerMatch
           \/ InPrepare' /\ select_next_task
           \/ ~AllListed /\ Ended'
PROOF
<1> DEFINE rescheduled == queue_position = 0
           queue == IF rescheduled THEN prioritize_tasks(tasks, task_index_queue)
                                   ELSE task_index_queue
           length == IF rescheduled THEN num_prioritized(tasks) ELSE queue_position
           a == queue[length - 1]
<1>1. select_next_task \/ TimerMatch
  BY Steps DEF InSelect, At, Irq
<1>2. /\ tasks \in [Slots -> Tasks] /\ cpu \in Contexts /\ 0 \in Slots
      /\ task_index_queue \in [0..tasks_max -> Slots] /\ queue_position \in Nat
      /\ queue_position =< tasks_max
      /\ Prioritized(tasks)
  <2>1. tasks \in [Slots -> Tasks] /\ queue_position \in Slots /\ cpu \in Contexts
        /\ task_index_queue \in [0..tasks_max -> Slots]
    BY DEF TypeInv, TypeOK
  <2>2. Prioritized(tasks)
    BY <2>1, UInt8Assumption DEF Prioritized, Tasks
  <2> QED BY <2>1, <2>2, TasksMaxAssumption DEF Slots
<1>3. num_prioritized(tasks) \in 0..tasks_max /\ (AllListed => num_prioritized(tasks) # 0)
  <2>1. tasks[0].status = "READY"
    BY <1>2 DEF InSelect, SchedulerSide, Settled, IdleAlive, NoneRunning, Running
  <2>2. AllListed => 0 \in Schedulable(tasks)
    BY <1>2, <2>1 DEF Schedulable, PrioritiesListed
  <2> QED BY <2>2, SchedulableFinite
<1>5. \A k \in 0..(length - 1) : queue[k] \in Slots /\ tasks[queue[k]].status = "READY"
  <2>1. CASE rescheduled
    <3>1. length = num_prioritized(tasks) /\ queue = prioritize_tasks(tasks, task_index_queue)
      BY <2>1
    <3> HIDE DEF length, queue
    <3>2. \A k \in 0..(length - 1) : queue[k] \in Schedulable(tasks)
      BY <1>2, <3>1, PrioritizedList
    <3> QED BY <3>2 DEF Schedulable
  <2>2. CASE ~rescheduled
    <3>1. length = queue_position /\ queue = task_index_queue
      BY <2>2
    <3> HIDE DEF length, queue
    <3>2. \A k \in 0..(length - 1) : k \in 0..tasks_max
      BY <1>2, <3>1, TasksMaxAssumption
    <3>3. \A k \in 0..(length - 1) : tasks[queue[k]].status = "READY"
      BY <3>1 DEF InSelect, SchedulerSide, Settled, TailReady
    <3> QED BY <1>2, <3>1, <3>2, <3>3
  <2> QED BY <2>1, <2>2
<1>6. \A j, k \in 0..(length - 1) : queue[j] = queue[k] => j = k
  <2>1. CASE rescheduled
    <3>1. length = num_prioritized(tasks) /\ queue = prioritize_tasks(tasks, task_index_queue)
      BY <2>1
    <3> HIDE DEF length, queue
    <3>2. \A k \in 0..(length - 1) : PlaceOf(tasks, queue[k]) = k
      BY <1>2, <3>1, PrioritizedList
    <3> QED BY <3>2
  <2>2. CASE ~rescheduled
    <3>1. length = queue_position /\ queue = task_index_queue
      BY <2>2
    <3> HIDE DEF length, queue
    <3> QED BY <3>1 DEF InSelect, SchedulerSide, Settled, TailReady
  <2> QED BY <2>1, <2>2
<1>7. CASE select_next_task /\ rescheduled /\ num_prioritized(tasks) = 0
  BY <1>3, <1>7 DEF select_next_task, FATAL_ERROR, Ended
<1>8. CASE select_next_task /\ ~(rescheduled /\ num_prioritized(tasks) = 0)
  <2>0. length \in Nat /\ length >= 1 /\ length =< tasks_max
    BY <1>2, <1>3, <1>8
  <2>1. /\ task_index_queue' = queue /\ queue_position' = length - 1
        /\ active_task_block' = a /\ next_task_sp' = tasks[a].task_sp_adr
        /\ cpu' = [cpu EXCEPT !.at = "sched_prepare"]
        /\ UNCHANGED <<tasks, pid_cnt, prev_task_sp, scheduler_task_sp,
                       frames, sp, mode, mt, ocf, fault>>
    BY <1>8 DEF select_next_task
  <2> HIDE DEF queue, length
  <2>2. a \in Slots /\ tasks[a].status = "READY"
    BY <1>5, <2>0
  <2>3. \A k \in 0..(length - 1 - 1) : queue[k] # a
    BY <1>6, <2>0
  <2> HIDE DEF a
  <2>4. tasks[a].task_sp_adr = Saved(a)
    BY <2>2 DEF InSelect, SchedulerSide, Settled, ReadySaved
  <2>5. cpu'.at = "sched_prepare" /\ Scheduler' = Scheduler
    BY <1>2, <2>1 DEF Contexts, Scheduler
  <2>6. Settled'
    <3>1. OneScheduler' /\ IdleAlive'
      BY <2>1, <2>5 DEF OneScheduler, IdleAlive, InSelect, SchedulerSide, Settled
    <3>2. ReadySaved'
      BY <2>1 DEF ReadySaved, ContextSaved, InSelect, SchedulerSide, Settled
    <3>3. TailReady'
      BY <1>5, <1>6, <2>0, <2>1 DEF TailReady
    <3> QED BY <2>1, <3>1, <3>2, <3>3 DEF Settled, InSelect, SchedulerSide
  <2>7. SchedulerSide'
    BY <2>1, <2>5, <2>6 DEF SchedulerSide, SchedulerSaved, InSelect
  <2> QED
    BY <1>8, <2>1, <2>2, <2>3, <2>4, <2>5, <2>7 DEF InSelect, InPrepare, NoneRunning, Running
<1> QED BY <1>1, <1>7, <1>8, MatchStep

\* prepare_next_task passes its assertions and marks the chosen task RUNNING.
LEMMA PrepareStep ==
    ASSUME TypeInv, InPrepare, Next
    PROVE  InPrepare' \/ HandingOver'
PROOF
<1> DEFINE a == active_task_block
<1>1. prepare_next_task \/ TimerMatch
  BY Steps DEF InPrepare, At, Irq
<1>2. /\ tasks \in [Slots -> Tasks] /\ a \in Slots /\ cpu \in Contexts /\ 0 \in Slots
      /\ \A k \in 0..(queue_position - 1) : task_index_queue[k] \in Slots
  BY TasksMaxAssumption DEF TypeInv, TypeOK, Slots
<1>3. tasks[a].status = "READY" /\ tasks[a].task_sp_adr = Saved(a) /\ ContextSaved(a)
  BY <1>2 DEF InPrepare, SchedulerSide, Settled, ReadySaved
<1>4. CASE prepare_next_task
  <2>1. /\ tasks' = [tasks EXCEPT ![a].status = "RUNNING"]
        /\ mode' = "switch" /\ cpu' = [cpu EXCEPT !.at = "sched_loop", !.i = FALSE]
        /\ UNCHANGED <<task_index_queue, queue_position, active_task_block, pid_cnt,
                       globals, frames, sp, mt, ocf, fault>>
    BY <1>2, <1>3, <1>4, SavedIs DEF prepare_next_task, k_yield
  <2>2. /\ \A s \in Slots : /\ tasks'[s].status = IF s = a THEN "RUNNING" ELSE tasks[s].status
                            /\ tasks'[s].task_sp_adr = tasks[s].task_sp_adr
    BY <1>2, <2>1 DEF Tasks
  <2>3. cpu'.at = "sched_loop"
    BY <1>2, <2>1 DEF Contexts
  <2>4. Scheduler' = Scheduler /\ scheduler_task_sp' = scheduler_task_sp
        /\ next_task_sp' = next_task_sp
    BY <2>1 DEF Scheduler, globals
  <2>5. Settled'
    <3>1. OneScheduler'
      BY <1>3, <2>2, <2>4 DEF OneScheduler, InPrepare, SchedulerSide, Settled
    <3>2. IdleAlive'
      BY <1>2, <2>2 DEF IdleAlive, InPrepare, SchedulerSide, Settled
    <3>3. ReadySaved'
      BY <2>1, <2>2 DEF ReadySaved, ContextSaved, InPrepare, SchedulerSide, Settled
    <3>4. TailReady'
      BY <1>2, <2>1, <2>2 DEF TailReady, InPrepare, SchedulerSide, Settled
    <3> QED BY <2>1, <3>1, <3>2, <3>3, <3>4 DEF Settled, InPrepare, SchedulerSide
  <2>6. SchedulerSide'
    BY <2>1, <2>4, <2>5 DEF SchedulerSide, SchedulerSaved, InPrepare
  <2>7. OnlyRunning(active_task_block)'
    BY <2>1, <2>2 DEF OnlyRunning, Running, InPrepare, NoneRunning
  <2>8. ContextSaved(active_task_block)'
    BY <1>3, <2>1 DEF ContextSaved
  <2> QED
    BY <1>2, <1>3, <2>1, <2>2, <2>3, <2>4, <2>6, <2>7, <2>8 DEF InPrepare, HandingOver
<1> QED BY <1>1, <1>4, MatchStep

\* The switch that ends the scheduler's loop takes the chosen task.
LEMMA HandingOverStep ==
    ASSUME TypeInv, HandingOver, Next
    PROVE  \/ /\ Entering'
              /\ ContextsStay(Scheduler, active_task_block)
              /\ cpu' = frames[Saved(active_task_block)]
           \/ ~Punctual /\ HandingOver' /\ TimerMatch
PROOF
<1>1. Switch \/ TimerMatch
  BY Steps DEF HandingOver, At, Irq
<1> QED BY <1>1, SwitchToTask, MatchStep

\* A CPU gone astray that comes to main again is stopped there: the kernel has been started.
LEMMA AstrayStep ==
    ASSUME TypeInv, Astray, Next
    PROVE  Astray' \/ Ended'
PROOF
<1>1. Boot \/ WrapAround \/ TimerMatch
  BY Steps DEF Astray, At, Irq
<1>2. CASE Boot
  BY <1>2 DEF Boot, FATAL_ERROR, Astray, Ended
<1>3. CASE WrapAround
  <2>1. /\ mode' = "run" /\ cpu' = [at |-> "main", i |-> FALSE, pid |-> 0, ptr |-> 0]
        /\ UNCHANGED <<tasks, task_index_queue, queue_position, pid_cnt, next_task_sp, frames>>
    BY <1>3 DEF WrapAround, kernel, globals
  <2> QED BY <2>1 DEF Astray, ReadySaved, TailReady, ContextSaved
<1> QED BY <1>1, <1>2, <1>3, MatchStep

\* A halted system stays halted.
LEMMA EndedStep ==
    ASSUME Ended, Next
    PROVE  Ended'
PROOF
<1>1. halt_exec
  BY Steps DEF Ended, At, Irq, MatchPossible
<1> QED BY <1>1 DEF halt_exec, vars, machine, Ended

\* No task is ever given the priority the scan leaves out.
LEMMA PrioritiesStep ==
    ASSUME TypeInv, PrioritiesListed, Next
    PROVE  PrioritiesListed'
PROOF
<1> SUFFICES ASSUME AllListed PROVE PrioritiesListed'
  BY DEF PrioritiesListed
<1>1. /\ tasks \in [Slots -> Tasks] /\ active_task_block \in Slots
      /\ \A priority \in Priorities : priority \in 0..UINT8_MAX /\ priority < UINT8_MAX
      /\ 0 \in Priorities
  BY PrioritiesAssumption, UInt8Assumption DEF TypeInv, TypeOK, AllListed
<1>2. ASSUME NEW STATE table, table \in [Slots -> Tasks], Free(table) # {},
             \A s \in Slots : table[s].priority < UINT8_MAX, NEW priority \in Priorities
      PROVE  \A s \in Slots : create_simplos_task(table, priority)[s].priority < UINT8_MAX
  BY <1>1, <1>2 DEF create_simplos_task
<1>3. CASE UNCHANGED tasks
  BY <1>3 DEF PrioritiesListed
<1>4. CASE Boot
  <2> DEFINE list == init_task_list(tasks)
  <2>1. CASE pid_cnt # 0
    BY <1>3, <1>4, <2>1 DEF Boot, FATAL_ERROR, kernel
  <2>2. CASE pid_cnt = 0
    <3>1. list \in [Slots -> Tasks] /\ \A s \in Slots : list[s].status = "EMPTY"
          /\ list[s].priority = tasks[s].priority
      BY <1>1, StackPointerTypes DEF init_task_list, Tasks, Statuses
    <3>2. Free(list) # {} /\ tasks' = create_simplos_task(list, 0)
      BY <1>1, <1>4, <2>2, <3>1 DEF Boot, Free
    <3> HIDE DEF list
    <3> QED BY <1>1, <1>2, <3>1, <3>2 DEF PrioritiesListed
  <2> QED BY <2>1, <2>2
<1>5. ASSUME NEW caller, NEW fn, NEW priority \in Priorities, spawn_task(caller, fn, priority)
      PROVE  PrioritiesListed'
  <2>1. CASE Free(tasks) = {}
    BY <1>3, <1>5, <2>1 DEF spawn_task, FATAL_ERROR, kernel
  <2>2. CASE Free(tasks) # {}
    <3> DEFINE created == create_simplos_task(tasks, priority)
    <3>1. created \in [Slots -> Tasks] /\ \A s \in Slots : created[s].priority < UINT8_MAX
      BY <1>1, <1>2, <2>2, CreateType DEF PrioritiesListed
    <3>2. tasks' = Suspended(created, active_task_block, Here)
      BY <1>5, <2>2 DEF spawn_task, Here
    <3> HIDE DEF created
    <3> QED BY <1>1, <3>1, <3>2 DEF Suspended, PrioritiesListed, Tasks
  <2> QED BY <2>1, <2>2
<1>6. CASE SpawnScheduler
  BY <1>1, <1>5, <1>6 DEF SpawnScheduler
<1>7. CASE SystemCall
  <2>1. CASE Spawn
    BY <1>5, <2>1 DEF Spawn
  <2>2. CASE Exit
    BY <1>1, <2>2 DEF Exit, PrioritiesListed, Tasks
  <2>3. CASE SetPriority
    BY <1>1, <2>3 DEF SetPriority, PrioritiesListed, Tasks
  <2> QED
    BY <1>3, <1>7, <2>1, <2>2, <2>3
    DEF SystemCall, Yield, Terminate, FATAL_ERROR, Wait, kernel
<1>8. CASE SchedulerStep
  <2>1. CASE start_scheduler
    BY <1>1, <2>1 DEF start_scheduler, PrioritiesListed, Tasks
  <2>2. CASE handle_previous_task
    BY <1>1, <1>3, <2>2
    DEF handle_previous_task, FATAL_ERROR, Suspended, PrioritiesListed, Tasks, kernel
  <2>3. CASE prepare_next_task
    BY <1>1, <1>3, <2>3 DEF prepare_next_task, FATAL_ERROR, PrioritiesListed, Tasks, kernel
  <2>4. CASE MaskTimer \/ select_next_task
    BY <1>3, <2>4 DEF MaskTimer, select_next_task, FATAL_ERROR, kernel
  <2> QED BY <1>8, <2>1, <2>2, <2>3, <2>4 DEF SchedulerStep
<1>9. CASE WaitStep \/ Switch \/ TimerISR \/ Return \/ TimerMatch \/ WrapAround \/ halt_exec
  BY <1>3, <1>9
  DEF WaitStep, LookUp, Scan, ReadStatus, Switch, TimerISR, CONTEXT_SWTICH, Return, TimerMatch,
      WrapAround, halt_exec, vars, kernel
<1> QED BY <1>4, <1>6, <1>7, <1>8, <1>9 DEF Next

-----------------------------------------------------------------------------
(* The inductive invariant *)

\* The invariant holds initially,
LEMMA InitSafe == Init => Safe
PROOF
<1> SUFFICES ASSUME Init PROVE Safe
  OBVIOUS
<1>1. PrioritiesListed
  <2>1. 0 < UINT8_MAX
    BY UInt8Assumption, TasksMaxAssumption
  <2> QED BY <2>1 DEF Init, PrioritiesListed
<1> QED BY <1>1, InitType, InitPhase DEF Safe, Phase

\* once the first task is created the kernel has begun for good,
LEMMA BegunStep ==
    ASSUME TypeInv, pid_cnt # 0, Next
    PROVE  pid_cnt' # 0
PROOF
<1>1. pid_cnt \in Nat
  <2>1. pid_cnt \in 0..MaxPid
    BY DEF TypeInv, TypeOK
  <2> QED BY <2>1
<1>2. ASSUME NEW caller, NEW fn, NEW priority, spawn_task(caller, fn, priority)
      PROVE  pid_cnt' # 0
  BY <1>1, <1>2 DEF spawn_task, FATAL_ERROR, kernel
<1>3. CASE Boot \/ SchedulerStep \/ WaitStep \/ Switch \/ TimerISR \/ Return \/ TimerMatch
           \/ WrapAround \/ halt_exec
  BY <1>3
  DEF Boot, SchedulerStep, start_scheduler, MaskTimer, handle_previous_task, select_next_task,
      prepare_next_task, FATAL_ERROR, WaitStep, LookUp, Scan, ReadStatus, Switch, TimerISR,
      CONTEXT_SWTICH, Return, TimerMatch, WrapAround, halt_exec, vars, kernel
<1>4. CASE SpawnScheduler
  BY <1>2, <1>4 DEF SpawnScheduler
<1>5. CASE SystemCall
  BY <1>2, <1>5
  DEF SystemCall, Spawn, Exit, Yield, SetPriority, Terminate, FATAL_ERROR, Wait, kernel
<1> QED BY <1>3, <1>4, <1>5 DEF Next

\* and every step keeps the invariant.
LEMMA NextSafe ==
    ASSUME Safe, [Next]_vars
    PROVE  Safe'
PROOF
<1>1. TypeInv'
  BY NextType DEF Safe
<1>2. CASE UNCHANGED vars
  <2>1. UNCHANGED <<kernel, globals, frames, sp, cpu, mode, mt, fault>>
        /\ UNCHANGED <<tasks, pid_cnt, ocf>>
    BY <1>2 DEF vars, kernel, machine
  <2>2. PrioritiesListed'
    BY <2>1 DEF Safe, PrioritiesListed
  <2>3. Quiet => Quiet'
    BY <2>1 DEF Quiet
  <2>4. InMain \/ InIdle \/ InStart \/ Leaving \/ Resumed \/ InLoop => Quiet
    BY DEF InMain, InIdle, InStart, Dormant, Leaving, Resumed, InLoop
  <2>5. Phase'
    BY <2>1, <2>3, <2>4, PhaseKept DEF Safe, Phase
  <2>6. InMain' \/ pid_cnt' # 0
    BY <2>1, <2>3, <2>4, PhaseKept DEF Safe
  <2> QED BY <1>1, <2>2, <2>5, <2>6 DEF Safe
<1>3. CASE Next
  <2>1. PrioritiesListed'
    BY <1>3, PrioritiesStep DEF Safe
  <2>2. InMain => Phase' /\ (InMain' \/ pid_cnt' # 0)
    BY <1>3, MainStep DEF Safe, Phase
  <2>3. CASE pid_cnt # 0
    <3>1. InIdle \/ InStart => Phase'
      BY <1>3, <2>3, IdleStep, StartStep DEF Safe, Phase
    <3>2. InTaskCode => Phase'
      BY <1>3, TaskCodeStep DEF Safe, Phase
    <3>3. Leaving \/ Entering \/ Resumed \/ HandingOver => Phase'
      BY <1>3, <2>3, LeavingStep, EnteringStep, ResumedStep, HandingOverStep DEF Safe, Phase
    <3>4. InLoop \/ InHandle \/ InSelect \/ InPrepare => Phase'
      BY <1>3, LoopStep, HandleStep, SelectStep, PrepareStep DEF Safe, Phase
    <3>5. Astray \/ Ended => Phase'
      BY <1>3, AstrayStep, EndedStep DEF Safe, Phase
    <3>6. Phase' /\ pid_cnt' # 0
      BY <1>3, <2>2, <2>3, <3>1, <3>2, <3>3, <3>4, <3>5, BegunStep DEF Safe, Phase
    <3> QED BY <1>1, <2>1, <3>6 DEF Safe
  <2> QED BY <1>1, <2>1, <2>2, <2>3 DEF Safe
<1> QED BY <1>2, <1>3

\* The kernel goes from phase to phase as the scheduler's design has it, or astray.
THEOREM Phases == Spec => []Safe
PROOF
<1>1. Init => Safe
  BY InitSafe
<1>2. Safe /\ [Next]_vars => Safe'
  BY NextSafe
<1> QED BY <1>1, <1>2, PTL DEF Spec

-----------------------------------------------------------------------------
(* What it implies *)

\* The phases in which task code executes,
LEMMA TaskPhases ==
    ASSUME Safe, InTask
    PROVE  InIdle \/ InStart \/ InTaskCode \/ Leaving \/ Entering
PROOF BY DEF Safe, Phase, InTask, Executing, TaskLabels, InMain, Dormant, Resumed, InLoop, InHandle,
             InSelect, InPrepare, HandingOver, Astray, Ended

\* those in which the scheduler's loop does,
LEMMA SchedulerPhases ==
    ASSUME Safe, InScheduler
    PROVE  Resumed \/ InLoop \/ InHandle \/ InSelect \/ InPrepare \/ HandingOver
PROOF BY DEF Safe, Phase, InScheduler, Executing, SchedulerLabels, InMain, InIdle, InStart, Dormant,
             InTaskCode, Resumable, Leaving, Entering, Astray, Ended

\* and what holds of the kernel's data whenever anything does.
LEMMA ExecutingPhases ==
    ASSUME Safe, Executing
    PROVE  InMain \/ InIdle \/ InStart \/ Settled \/ Astray
PROOF BY DEF Safe, Phase, Executing, InTaskCode, Leaving, Entering, TaskSide, Resumed, InLoop,
             InHandle, InSelect, InPrepare, HandingOver, SchedulerSide, Ended

\* The stack in use belongs to whoever executes.
LEMMA SafeStackOwnership == Safe => StackOwnership
PROOF
<1> SUFFICES ASSUME Safe PROVE StackOwnership
  OBVIOUS
<1>1. active_task_block \in Slots
  BY DEF Safe, TypeInv, TypeOK
<1>2. InTask => sp.block = active_task_block
  BY <1>1, TaskPhases, SavedIs DEF InIdle, InStart, InTaskCode, Leaving, Entering
<1>3. InScheduler => Scheduler \in Slots /\ sp.block = Scheduler
  <2> SUFFICES ASSUME InScheduler PROVE Scheduler \in Slots /\ sp.block = Scheduler
    OBVIOUS
  <2>1. Scheduler \in Slots
    BY SchedulerPhases
    DEF Resumed, InLoop, InHandle, InSelect, InPrepare, HandingOver, SchedulerSide, Settled, OneScheduler
  <2> QED
    BY <2>1, SchedulerPhases, SavedIs
    DEF Resumed, InLoop, InHandle, InSelect, InPrepare, HandingOver, SchedulerSide
<1> QED BY <1>2, <1>3 DEF StackOwnership, Scheduler

\* One slot is RUNNING while task code executes.
LEMMA SafeOneRunning == Safe => OneRunning
PROOF
<1> SUFFICES ASSUME Safe, InTask, NEW s \in Slots
             PROVE  tasks[s].status = "RUNNING" <=> s = active_task_block /\ cpu.at # "dead"
  BY DEF OneRunning
<1>1. CASE InIdle \/ InStart
  BY <1>1 DEF InIdle, InStart, Dormant
<1>2. CASE InTaskCode \/ Leaving \/ Entering
  BY <1>2 DEF InTaskCode, Leaving, Entering, Resumable, OnlyRunning, NoneRunning, Running
<1> QED BY <1>1, <1>2, TaskPhases

\* A saved context of a task is one it can be resumed from.
LEMMA ContextSavedIsSuspended ==
    ASSUME NEW s \in Slots, ContextSaved(s) PROVE IsSuspended(s, Saved(s))
PROOF BY SavedIs DEF ContextSaved, IsSuspended, Resumable, TaskLabels

\* Every READY task can be resumed.
LEMMA SafeReadyIntact == Safe => ReadyIntact
PROOF
<1> SUFFICES ASSUME Safe, Executing, NEW s \in Slots, tasks[s].status = "READY"
             PROVE  IsSuspended(s, tasks[s].task_sp_adr)
  BY DEF ReadyIntact
<1>1. tasks[s].task_sp_adr = Saved(s) /\ ContextSaved(s)
  BY ExecutingPhases DEF InMain, InIdle, InStart, Settled, Astray, ReadySaved
<1> QED BY <1>1, ContextSavedIsSuspended

\* So can the RUNNING task while the scheduler executes, if it has not been interrupted.
LEMMA SafePreemptedIntact == Punctual /\ Safe => PreemptedIntact
PROOF
<1> SUFFICES ASSUME Punctual, Safe, InScheduler, NEW s \in Slots, tasks[s].status = "RUNNING"
             PROVE  IsSuspended(s, IF mode = "switch" THEN next_task_sp ELSE prev_task_sp)
  BY DEF PreemptedIntact
<1>1. CASE Resumed \/ InLoop \/ InHandle
  <2>1. mode # "switch" /\ s = active_task_block /\ prev_task_sp = Saved(s) /\ ContextSaved(s)
    BY <1>1 DEF Resumed, InLoop, InHandle, Previous, Running
  <2> QED BY <2>1, ContextSavedIsSuspended
<1>2. CASE InSelect \/ InPrepare
  BY <1>2 DEF InSelect, InPrepare, NoneRunning, Running
<1>3. CASE HandingOver
  <2>1. mode = "switch" /\ next_task_sp = Saved(s) /\ ContextSaved(s)
    BY <1>3 DEF HandingOver, OnlyRunning, Running
  <2> QED BY <2>1, ContextSavedIsSuspended
<1> QED BY <1>1, <1>2, <1>3, SchedulerPhases

\* What is left of the round can be served.
LEMMA SafeQueueTailReady == Safe => QueueTailReady
PROOF
<1> SUFFICES ASSUME Safe, Executing, NEW j \in 0..(queue_position - 1), NEW k \in 0..(queue_position - 1)
             PROVE  /\ tasks[task_index_queue[k]].status = "READY"
                    /\ task_index_queue[j] = task_index_queue[k] => j = k
  BY DEF QueueTailReady
<1>1. TailReady
  BY ExecutingPhases DEF InMain, InIdle, InStart, Dormant, Settled, Astray
<1> QED BY <1>1 DEF TailReady

\* next_task_sp is set only with MT disabled.
LEMMA SafeHandoverMasked == Safe => HandoverMasked
PROOF
<1> SUFFICES ASSUME Safe, Executing, next_task_sp # NullSp
             PROVE  ~mt /\ next_task_sp = tasks[active_task_block].task_sp_adr
  BY DEF HandoverMasked
<1>1. InPrepare \/ HandingOver
  BY DEF Safe, Phase, Executing, InMain, InIdle, InStart, Dormant, InTaskCode, Leaving, Entering,
         TaskSide, Resumed, InLoop, InHandle, InSelect, Astray, Ended
<1>2. active_task_block \in Slots
  BY DEF Safe, TypeInv, TypeOK
<1> QED
  BY <1>1, <1>2 DEF InPrepare, HandingOver, SchedulerSide, Settled, ReadySaved

\* Task code runs with I and MT set.
LEMMA SafeTaskPreemptible == Safe => TaskPreemptible
PROOF
<1> SUFFICES ASSUME Safe, mode = "run", cpu.at \in {"user", "lookup", "read"}
             PROVE  cpu.i /\ mt
  BY DEF TaskPreemptible
<1>1. InTask
  BY DEF InTask, Executing, TaskLabels
<1> QED BY <1>1, TaskPhases DEF InIdle, InStart, Dormant, InTaskCode, Leaving, Entering

\* The kernel stops only for a task or a full list, if its timer is punctual and every task is
\* one the scan lists.
LEMMA SafeNoInternalFault == Punctual /\ AllListed /\ Safe => NoInternalFault
PROOF
<1> SUFFICES ASSUME Punctual, AllListed, Safe PROVE NoInternalFault
  OBVIOUS
<1>1. Executing \/ Ended
  BY DEF Safe, Phase, Executing, InMain, InIdle, InStart, Dormant, InTaskCode, Leaving, Entering,
         Resumed, InLoop, InHandle, InSelect, InPrepare, HandingOver, Astray
<1>2. Executing => fault = "none"
  BY ExecutingPhases DEF InMain, InIdle, InStart, Dormant, Settled, Astray
<1> QED BY <1>1, <1>2 DEF NoInternalFault, Executing, Ended

\* It loads what was never saved only where a context for the scheduler is not there yet, or
\* there no longer.
LEMMA SafeWild ==
    ASSUME Safe, Next, mode # "wild", mode' = "wild"
    PROVE  scheduler_task_sp = NullSp \/ (mode = "tail" /\ cpu.at = "sched_loop" /\ cpu.i)
PROOF
<1>1. InMain \/ InIdle \/ InStart => scheduler_task_sp = NullSp
  BY DEF InMain, InIdle, InStart, Dormant
<1>2. ~InTaskCode
  BY TaskCodeStep DEF Safe, InTaskCode, Leaving, Resumed, Ended
<1>3. ~Leaving /\ ~Entering /\ ~HandingOver
  BY LeavingStep, EnteringStep, HandingOverStep
  DEF Safe, InTaskCode, Leaving, Entering, Resumed, HandingOver
<1>4. ~InLoop /\ ~InHandle /\ ~InSelect /\ ~InPrepare
  BY LoopStep, HandleStep, SelectStep, PrepareStep
  DEF Safe, Resumed, InLoop, InHandle, InSelect, InPrepare, HandingOver, Ended
<1>5. ~Ended
  BY EndedStep DEF Ended
<1>6. ~Astray
  <2> SUFFICES ASSUME Astray PROVE FALSE
    OBVIOUS
  <2>1. Boot \/ TimerMatch
    BY Steps DEF Astray, At, Irq
  <2> QED BY <2>1 DEF Astray, Boot, FATAL_ERROR, TimerMatch
<1>7. Resumed => mode = "tail" /\ cpu.at = "sched_loop" /\ cpu.i
  <2> SUFFICES ASSUME Resumed PROVE cpu.i
    BY DEF Resumed
  <2>1. ~InMain
    BY DEF Resumed, InMain, Dormant
  <2> QED BY <2>1, ResumedStep DEF Safe, Resumed, InLoop
<1> QED BY <1>1, <1>2, <1>3, <1>4, <1>5, <1>6, <1>7 DEF Safe, Phase

-----------------------------------------------------------------------------
(* The safety properties *)

(* Whatever the timer does: *)

\* Whoever executes uses his own stack, at every point of the kernel and of every switch.
THEOREM StacksOwned == Spec => []StackOwnership
PROOF BY Phases, SafeStackOwnership, PTL

\* While task code runs its slot and no other is RUNNING.
THEOREM OneTaskRuns == Spec => []OneRunning
PROOF BY Phases, SafeOneRunning, PTL

\* A READY task can be resumed: its context is intact where its entry of the table says.
THEOREM ReadyContextsIntact == Spec => []ReadyIntact
PROOF BY Phases, SafeReadyIntact, PTL

\* What is left of a scheduling round names distinct READY tasks.
THEOREM QueueTailServable == Spec => []QueueTailReady
PROOF BY Phases, SafeQueueTailReady, PTL

\* The timer interrupt cannot take the next_task_sp the scheduler has set for its own switch.
THEOREM HandoverUndisturbed == Spec => []HandoverMasked
PROOF BY Phases, SafeHandoverMasked, PTL

\* Task code never runs with the timer interrupt shut out, outside get_task.
THEOREM TasksPreemptible == Spec => []TaskPreemptible
PROOF BY Phases, SafeTaskPreemptible, PTL

\* The timer leads the CPU to code that was never saved only before the scheduler has saved
\* itself, or where the scheduler's first resumption lets it through.
THEOREM WildFromKnownWindows == Spec => WildOnlyInKnownWindows
PROOF
<1> DEFINE GoesWild == mode # "wild" /\ mode' = "wild"
           Window == scheduler_task_sp = NullSp \/ (mode = "tail" /\ cpu.at = "sched_loop" /\ cpu.i)
<1>1. Safe /\ [Next]_vars => [GoesWild => Window]_vars
  BY SafeWild
<1> QED BY <1>1, Phases, PTL DEF Spec, WildOnlyInKnownWindows

(* With the timer the kernel is made for: *)

\* While the scheduler works, the task it took over from can be resumed too: its context is at
\* prev_task_sp, or at next_task_sp on the way back.
THEOREM PreemptedContextIntact == Punctual => (Spec => []PreemptedIntact)
PROOF
<1> SUFFICES ASSUME Punctual PROVE Spec => []PreemptedIntact
  OBVIOUS
<1>1. Safe => PreemptedIntact
  BY SafePreemptedIntact
<1> QED BY <1>1, Phases, PTL

\* No ASSERT and no FATAL_ERROR of the kernel but the full task list stops it, and it loads
\* no context that was not saved.
THEOREM KernelNeverFaults == Punctual /\ AllListed => (Spec => []NoInternalFault)
PROOF
<1> SUFFICES ASSUME Punctual, AllListed PROVE Spec => []NoInternalFault
  OBVIOUS
<1>1. Safe => NoInternalFault
  BY SafeNoInternalFault
<1> QED BY <1>1, Phases, PTL

(* The rounds, of the tasks of the priorities the scan lists: *)

\* A new round starts only in select_next_task, from a queue filled by prioritize_tasks.
LEMMA NewRoundFills ==
    ASSUME Safe, Next, NewRound
    PROVE  /\ tasks \in [Slots -> Tasks] /\ Prioritized(tasks) /\ DOMAIN task_index_queue = 0..tasks_max
           /\ num_prioritized(tasks) \in Nat \ {0}
           /\ task_index_queue' = prioritize_tasks(tasks, task_index_queue)
           /\ queue_position' = num_prioritized(tasks) - 1
           /\ active_task_block' = task_index_queue'[queue_position']
           /\ Schedulable(tasks) = {s \in Slots : ReadyBelowMax(s)}
PROOF
<1>1. InSelect \/ Ended
  BY DEF NewRound, Safe, Phase, InMain, InIdle, InStart, Dormant, InTaskCode, Resumable, Leaving,
         Entering, Resumed, InLoop, InHandle, InPrepare, HandingOver, Astray
<1>2. select_next_task
  BY <1>1, Steps
  DEF NewRound, InSelect, Ended, At, Irq, MatchPossible, TimerMatch, halt_exec, vars, machine
<1>3. cpu'.at # cpu.at
  BY DEF NewRound
<1>4. tasks \in [Slots -> Tasks] /\ DOMAIN task_index_queue = 0..tasks_max /\ cpu \in Contexts
  BY DEF Safe, TypeInv, TypeOK
<1>5. Prioritized(tasks)
  BY <1>4, UInt8Assumption DEF Prioritized, Tasks
<1>6. num_prioritized(tasks) # 0
  BY <1>2, <1>3, <1>4 DEF select_next_task, NewRound, FATAL_ERROR, Contexts
<1>7. num_prioritized(tasks) \in Nat
  BY SchedulableFinite, TasksMaxAssumption
<1>8. /\ task_index_queue' = prioritize_tasks(tasks, task_index_queue)
      /\ queue_position' = num_prioritized(tasks) - 1
      /\ active_task_block' = task_index_queue'[queue_position']
  BY <1>2, <1>6 DEF select_next_task, NewRound
<1>9. Schedulable(tasks) = {s \in Slots : ReadyBelowMax(s)}
  BY DEF Schedulable, ReadyBelowMax
<1> QED BY <1>4, <1>5, <1>6, <1>7, <1>8, <1>9

\* A scheduling round lists the READY tasks of priorities up to 254, every one and once.
THEOREM RoundsComplete == Spec => RoundListsReadyBelowMax
PROOF
<1> DEFINE Listed == {task_index_queue'[k] : k \in 0..queue_position'}
           Ready == {s \in Slots : ReadyBelowMax(s)}
           Once == \A j, k \in 0..queue_position' : task_index_queue'[j] = task_index_queue'[k] => j = k
<1>1. ASSUME Safe, Next, NewRound
      PROVE  Listed = Ready /\ Once
  <2>1. \A k \in 0..queue_position' :
           /\ task_index_queue'[k] \in Schedulable(tasks)
           /\ PlaceOf(tasks, task_index_queue'[k]) = k
    BY <1>1, NewRoundFills, PrioritizedList
  <2>2. \A t \in Schedulable(tasks) : \E k \in 0..queue_position' : task_index_queue'[k] = t
    BY <1>1, NewRoundFills, PrioritizedAll
  <2>3. Schedulable(tasks) = Ready
    BY <1>1, NewRoundFills
  <2>4. Once
    BY <2>1
  <2> QED BY <2>1, <2>2, <2>3, <2>4
<1>2. Safe /\ [Next]_vars => [NewRound => Listed = Ready /\ Once]_vars
  BY <1>1
<1>3. Spec => []Safe
  BY Phases
<1> QED BY <1>2, <1>3, PTL DEF Spec, RoundListsReadyBelowMax

\* A round starts with a task of the highest priority among those.
THEOREM RoundsStartHighest == Spec => HighestPriorityFirst
PROOF
<1> DEFINE Highest == \A s \in Slots :
              ReadyBelowMax(s) => tasks[s].priority =< tasks[active_task_block'].priority
<1>1. ASSUME Safe, Next, NewRound
      PROVE  Highest
  <2> DEFINE t == task_index_queue'[queue_position']
  <2>1. t \in Schedulable(tasks) /\ PlaceOf(tasks, t) = num_prioritized(tasks) - 1
    <3>1. queue_position' \in 0..(num_prioritized(tasks) - 1)
      BY <1>1, NewRoundFills
    <3> QED BY <1>1, <3>1, NewRoundFills, PrioritizedList
  <2> HIDE DEF t
  <2>2. \A s \in Schedulable(tasks) : tasks[s].priority =< tasks[t].priority
    BY <1>1, <2>1, NewRoundFills, LastIsHighest
  <2> QED BY <1>1, <2>2, NewRoundFills DEF t
<1>2. Safe /\ [Next]_vars => [NewRound => Highest]_vars
  BY <1>1
<1>3. Spec => []Safe
  BY Phases
<1> QED BY <1>2, <1>3, PTL DEF Spec, HighestPriorityFirst

-----------------------------------------------------------------------------
(* Waiting                                                                 *)
(*                                                                         *)
(* get_task returns a pointer into the task table and MT is enabled again  *)
(* before the caller reads the status through it, so the slot may have     *)
(* been given to another task in between.                                  *)
(*                                                                         *)
(* The argument: a pid other than 0 is given once and is in one slot only, *)
(* and pid 0 stays with the idle task, which never ends.  So once a waiter *)
(* has found the first slot with its pid, no other slot will ever hold a   *)
(* living task with that pid.                                              *)

Living(s) == tasks[s].status # "EMPTY"

\* The pids handed out so far.
Pids ==
    /\ \A s \in Slots : tasks[s].pid # 0 => tasks[s].pid < pid_cnt
    /\ \A s, t \in Slots : tasks[s].pid = tasks[t].pid /\ tasks[s].pid # 0 => s = t
    /\ \A s \in Slots : tasks[s].pid = 0 /\ Living(s) => s = 0
    /\ IF InMain THEN DOMAIN frames = {} ELSE pid_cnt # 0 /\ tasks[0].pid = 0

\* What a waiter between get_task and the read of the status may rely on.
Found(context) ==
    context.at = "read" =>
        /\ context.pid # 0 => context.pid < pid_cnt
        /\ \A s \in Slots : Living(s) /\ tasks[s].pid = context.pid => s = context.ptr

Waits == Found(cpu) /\ \A x \in DOMAIN frames : Found(frames[x])

PidSafe == Safe /\ Pids /\ Waits

-----------------------------------------------------------------------------
(* What the steps do to the pids *)

\* No task comes to life, or one does with a pid of its own.
LivesKept ==
    /\ pid_cnt' = pid_cnt
    /\ \A s \in Slots : tasks'[s].pid = tasks[s].pid /\ (Living(s)' => Living(s))

Created(new) ==
    /\ pid_cnt' = pid_cnt + 1
    /\ new \in Slots /\ ~Living(new)
    /\ \A s \in Slots : /\ tasks'[s].pid = IF s = new THEN pid_cnt ELSE tasks[s].pid
                        /\ s # new => (Living(s)' <=> Living(s))

\* spawn_task gives life to one task, with the next pid, or fails.
LEMMA SpawnCreates ==
    ASSUME Safe, InIdle \/ InTaskCode, NEW caller \in Labels, NEW fn \in Labels,
           NEW priority \in 0..UINT8_MAX, spawn_task(caller, fn, priority)
    PROVE  LivesKept \/ \E new \in Slots : Created(new)
PROOF
<1>1. CASE Free(tasks) = {}
  BY <1>1 DEF spawn_task, FATAL_ERROR, kernel, LivesKept, Living
<1>2. CASE Free(tasks) # {}
  <2> DEFINE new == Min(Free(tasks))
  <2>1. active_task_block \in Slots /\ sp = task_sp_range_high(active_task_block)
        /\ tasks[active_task_block].status = "RUNNING"
    BY DEF Safe, TypeInv, TypeOK, InIdle, InTaskCode, OnlyRunning, Running
  <2>2. /\ new \in Slots /\ tasks[new].status = "EMPTY"
        /\ \A s \in Slots :
              tasks'[s].status = IF s = new THEN "RUNNING"
                                 ELSE IF s = active_task_block THEN "READY" ELSE tasks[s].status
        /\ \A s \in Slots : tasks'[s].pid = IF s = new THEN pid_cnt ELSE tasks[s].pid
        /\ pid_cnt' = pid_cnt + 1
    BY <1>2, <2>1, SpawnEffect DEF Safe
  <2> HIDE DEF new
  <2>3. Created(new)
    BY <2>1, <2>2 DEF Created, Living
  <2> QED BY <2>2, <2>3
<1> QED BY <1>1, <1>2

\* No other step after boot gives life to a task or changes a pid.
LEMMA TableStep ==
    ASSUME Safe, Next, ~InMain
    PROVE  LivesKept \/ \E new \in Slots : Created(new)
PROOF
<1>1. tasks \in [Slots -> Tasks] /\ active_task_block \in Slots
  BY DEF Safe, TypeInv, TypeOK
<1>2. UNCHANGED <<tasks, pid_cnt>> => LivesKept
  BY DEF LivesKept, Living
<1>3. CASE Boot
  <2>1. pid_cnt # 0
    BY DEF Safe
  <2> QED BY <1>2, <1>3, <2>1 DEF Boot, FATAL_ERROR, kernel
<1>4. CASE SpawnScheduler
  <2>1. InIdle
    BY <1>4
    DEF SpawnScheduler, spawn_task, At, Safe, Phase, InMain, InStart, Dormant, InTaskCode,
        Resumable, Leaving, Entering, Resumed, InLoop, InHandle, InSelect, InPrepare, HandingOver,
        Astray, Ended
  <2>2. 0 \in 0..UINT8_MAX /\ "idle" \in Labels /\ "sched_start" \in Labels
    BY UInt8Assumption DEF Labels, TaskLabels, SchedulerLabels
  <2> QED BY <1>4, <2>1, <2>2, SpawnCreates DEF SpawnScheduler
<1>5. CASE SystemCall
  <2>1. InTaskCode
    BY <1>5
    DEF SystemCall, Spawn, spawn_task, Exit, Yield, SetPriority, Terminate, Wait, At, Safe, Phase,
        InMain, InIdle, InStart, Dormant, Resumable, Leaving, Entering, Resumed, InLoop, InHandle,
        InSelect, InPrepare, HandingOver, Astray, Ended
  <2>2. CASE Spawn
    <3>1. PICK priority \in Priorities : spawn_task("user", "user", priority)
      BY <2>2 DEF Spawn
    <3>2. "user" \in Labels /\ priority \in 0..UINT8_MAX
      BY PrioritiesAssumption DEF Labels, TaskLabels
    <3> QED BY <2>1, <3>1, <3>2, SpawnCreates
  <2>3. CASE Exit
    BY <1>1, <2>3 DEF Exit, LivesKept, Living, Tasks
  <2>4. CASE SetPriority
    BY <1>1, <2>4 DEF SetPriority, LivesKept, Living, Tasks
  <2>5. CASE Yield \/ Terminate \/ Wait
    BY <1>2, <2>5 DEF Yield, Terminate, FATAL_ERROR, Wait, kernel
  <2> QED BY <1>5, <2>2, <2>3, <2>4, <2>5 DEF SystemCall
<1>6. CASE start_scheduler
  <2>1. InStart
    BY <1>6
    DEF start_scheduler, At, Safe, Phase, InMain, InIdle, Dormant, InTaskCode, Resumable, Leaving,
        Entering, Resumed, InLoop, InHandle, InSelect, InPrepare, HandingOver, Astray, Ended
  <2> QED BY <1>1, <1>6, <2>1 DEF start_scheduler, LivesKept, Living, InStart, Tasks
<1>7. CASE handle_previous_task
  BY <1>1, <1>2, <1>7 DEF handle_previous_task, FATAL_ERROR, Suspended, LivesKept, Living, Tasks, kernel
<1>8. CASE prepare_next_task
  BY <1>1, <1>2, <1>8 DEF prepare_next_task, FATAL_ERROR, LivesKept, Living, Tasks, kernel
<1>9. CASE MaskTimer \/ select_next_task
  BY <1>2, <1>9 DEF MaskTimer, select_next_task, FATAL_ERROR, kernel
<1>10. CASE WaitStep \/ Switch \/ TimerISR \/ Return \/ TimerMatch \/ WrapAround \/ halt_exec
  BY <1>2, <1>10
  DEF WaitStep, LookUp, Scan, ReadStatus, Switch, TimerISR, CONTEXT_SWTICH, Return, TimerMatch,
      WrapAround, halt_exec, vars, kernel
<1> QED BY <1>3, <1>4, <1>5, <1>6, <1>7, <1>8, <1>9, <1>10 DEF Next, SchedulerStep

\* The idle task lives.
LEMMA IdleLives ==
    ASSUME Safe, ~InMain, ~Astray, Executing PROVE 0 \in Slots /\ Living(0)
PROOF
<1>1. 0 \in Slots
  BY TasksMaxAssumption DEF Slots
<1> QED BY <1>1, ExecutingPhases DEF InIdle, InStart, Settled, IdleAlive, Living

\* A halted system creates no task, nor does one gone astray.
LEMMA CreatedExecuting ==
    ASSUME Safe, Next, NEW new, Created(new)
    PROVE  Executing /\ ~Astray
PROOF
<1>1. pid_cnt' # pid_cnt
  <2>1. pid_cnt \in 0..MaxPid
    BY DEF Safe, TypeInv, TypeOK
  <2>2. pid_cnt \in Int
    BY <2>1
  <2> QED BY <2>2 DEF Created
<1>2. Ended => UNCHANGED pid_cnt
  BY Steps DEF Ended, At, Irq, MatchPossible, halt_exec, vars, kernel
<1>3. Astray => UNCHANGED pid_cnt
  <2> SUFFICES ASSUME Astray PROVE UNCHANGED pid_cnt
    OBVIOUS
  <2>1. (Boot /\ pid_cnt # 0) \/ WrapAround \/ TimerMatch
    BY Steps DEF Astray, At, Irq
  <2> QED BY <2>1 DEF Boot, FATAL_ERROR, WrapAround, TimerMatch, kernel
<1>4. Executing \/ Astray \/ Ended
  BY DEF Safe, Phase, Executing, InMain, InIdle, InStart, Dormant, InTaskCode, Leaving, Entering,
         Resumed, InLoop, InHandle, InSelect, InPrepare, HandingOver
<1> QED BY <1>1, <1>2, <1>3, <1>4

\* Pids stay unique.
LEMMA PidsStep ==
    ASSUME PidSafe, Next
    PROVE  Pids'
PROOF
<1>1. /\ tasks \in [Slots -> Tasks] /\ pid_cnt \in Nat /\ 0 \in Slots
      /\ \A s \in Slots : tasks[s].pid \in Nat
  <2>1. tasks \in [Slots -> Tasks] /\ pid_cnt \in 0..MaxPid
    BY DEF PidSafe, Safe, TypeInv, TypeOK
  <2> QED BY <2>1, TasksMaxAssumption DEF Slots, Tasks
<1>2. CASE InMain /\ ~TimerMatch
  <2>1. Boot /\ pid_cnt = 0
    BY <1>2, MainStep DEF PidSafe, Safe, InMain
  <2>2. InIdle'
    BY <1>2, MainStep DEF PidSafe, Safe
  <2>3. \A s \in Slots : tasks[s].pid = 0
    BY <1>1, <1>2, <2>1 DEF PidSafe, Pids
  <2>4. \A s \in Slots : tasks'[s].pid = 0
    <3> DEFINE list == init_task_list(tasks)
    <3>1. \A s \in Slots : list[s].pid = 0
      BY <1>1, <2>3 DEF init_task_list, Tasks
    <3>2. DOMAIN list = Slots
      BY DEF init_task_list
    <3>3. tasks' = create_simplos_task(list, 0)
      BY <2>1 DEF Boot
    <3> HIDE DEF list
    <3> QED BY <2>1, <3>1, <3>2, <3>3 DEF create_simplos_task
  <2>5. pid_cnt' = 1
    BY <2>1 DEF Boot
  <2>6. \A s \in Slots : Living(s)' => s = 0
    BY <2>2 DEF InIdle, Living
  <2>7. ~InMain'
    BY <2>2 DEF InIdle, InMain
  <2> QED BY <1>1, <2>4, <2>5, <2>6, <2>7 DEF Pids
<1>3. CASE ~InMain
  <2>1. pid_cnt # 0 /\ tasks[0].pid = 0
    BY <1>3 DEF PidSafe, Pids
  <2>2. CASE LivesKept
    <3>1. ~InMain'
      BY <2>1, <2>2 DEF LivesKept, InMain
    <3> QED BY <1>1, <2>1, <2>2, <3>1 DEF LivesKept, PidSafe, Pids
  <2>3. ASSUME NEW new \in Slots, Created(new)
        PROVE  Pids'
    <3>1. new # 0
      BY <1>3, <2>3, CreatedExecuting, IdleLives DEF PidSafe, Created
    <3>2. /\ pid_cnt' = pid_cnt + 1
          /\ \A s \in Slots : tasks'[s].pid = IF s = new THEN pid_cnt ELSE tasks[s].pid
      BY <2>3 DEF Created
    <3>3. \A s \in Slots : tasks'[s].pid # 0 => tasks'[s].pid < pid_cnt'
      BY <1>1, <3>2 DEF PidSafe, Pids
    <3>4. ASSUME NEW s \in Slots, NEW t \in Slots, tasks'[s].pid = tasks'[t].pid, tasks'[s].pid # 0
          PROVE  s = t
      <4>1. \A r \in Slots : tasks[r].pid # pid_cnt
        BY <1>1, <2>1 DEF PidSafe, Pids
      <4> QED BY <3>2, <3>4, <4>1 DEF PidSafe, Pids
    <3>5. ASSUME NEW s \in Slots, tasks'[s].pid = 0, Living(s)'
          PROVE  s = 0
      BY <2>1, <2>3, <3>2, <3>5 DEF Created, PidSafe, Pids
    <3>6. pid_cnt' # 0 /\ tasks'[0].pid = 0
      BY <1>1, <2>1, <3>1, <3>2
    <3>7. ~InMain'
      BY <3>6 DEF InMain
    <3> QED BY <3>3, <3>4, <3>5, <3>6, <3>7 DEF Pids
  <2> QED BY <1>3, <2>2, <2>3, TableStep DEF PidSafe, Created
<1>4. CASE InMain /\ TimerMatch
  <2>1. InMain' /\ UNCHANGED <<tasks, pid_cnt, frames>>
    BY <1>4, MatchStep DEF PidSafe, Safe, TimerMatch, kernel
  <2> QED BY <1>4, <2>1 DEF PidSafe, Pids, Living
<1> QED BY <1>2, <1>3, <1>4

\* What a waiter has found stays true whatever the other tasks do.
LEMMA FoundKept ==
    ASSUME PidSafe, Next, ~InMain, NEW context \in Contexts, Found(context)
    PROVE  Found(context)'
PROOF
<1>1. CASE LivesKept
  BY <1>1 DEF LivesKept, Found, Living
<1>2. ASSUME NEW new \in Slots, Created(new)
      PROVE  Found(context)'
  <2>1. pid_cnt # 0 /\ pid_cnt \in Nat /\ context.pid \in Nat
    <3>1. pid_cnt \in 0..MaxPid
      BY DEF PidSafe, Safe, TypeInv, TypeOK
    <3> QED BY <3>1 DEF PidSafe, Pids, Contexts
  <2>2. context.at = "read" => context.pid # pid_cnt
    BY <2>1 DEF Found
  <2>3. context.at = "read" /\ context.pid # 0 => context.pid < pid_cnt'
    BY <1>2, <2>1 DEF Found, Created
  <2>4. ASSUME NEW s \in Slots, context.at = "read", Living(s)', tasks'[s].pid = context.pid
        PROVE  s = context.ptr
    BY <1>2, <2>2, <2>4 DEF Created, Found
  <2> QED BY <2>3, <2>4 DEF Found
<1> QED BY <1>1, <1>2, TableStep DEF PidSafe, Created

\* The contexts on the stacks after a step are those that were there before, and at most
\* one that was pushed.
LEMMA PushedFrames ==
    ASSUME NEW STATE context
    PROVE  \A x \in DOMAIN WithSaved(context) :
              \/ WithSaved(context)[x] = context
              \/ x \in DOMAIN frames /\ WithSaved(context)[x] = frames[x]
PROOF BY WithSavedIs

\* A switch loads a context that was on a stack, or goes on with the one it saved.
LEMMA SwitchLoads ==
    ASSUME NEW STATE context, CONTEXT_SWTICH(context)
    PROVE  cpu' = cpu \/ cpu' = context \/ \E x \in DOMAIN frames : cpu' = frames[x]
PROOF
<1> DEFINE stored == WithSaved(context)
           chosen == SCHEDULED_TASK_OR_SCHEDULER
<1>1. CASE chosen \in DOMAIN stored
  <2>1. cpu' = stored[chosen]
    BY <1>1 DEF CONTEXT_SWTICH
  <2> QED BY <1>1, <2>1, PushedFrames
<1>2. CASE chosen \notin DOMAIN stored
  BY <1>2 DEF CONTEXT_SWTICH
<1> QED BY <1>1, <1>2

\* It leaves no contexts on the stacks but old ones and the one it saved.
LEMMA SwitchFrames ==
    ASSUME NEW STATE context, CONTEXT_SWTICH(context)
    PROVE  \A x \in DOMAIN frames' :
              \/ frames'[x] = context
              \/ x \in DOMAIN frames /\ frames'[x] = frames[x]
PROOF
<1> DEFINE stored == WithSaved(context)
           loaded == Popped(SCHEDULED_TASK_OR_SCHEDULER, register_bytes)
<1>1. frames' = StillIntact(stored, loaded) \/ frames' = stored
  BY DEF CONTEXT_SWTICH
<1> HIDE DEF stored, loaded
<1>2. \A x \in DOMAIN frames' : x \in DOMAIN stored /\ frames'[x] = stored[x]
  <2>1. CASE frames' = StillIntact(stored, loaded)
    BY <2>1, StillIntactIs
  <2>2. CASE frames' = stored
    BY <2>2
  <2> QED BY <1>1, <2>1, <2>2
<1> QED BY <1>2, PushedFrames DEF stored

\* What may be found on a stack, or loaded from one, says nothing untrue after the step.
Harmless(context) == context \in Contexts /\ Found(context)

\* The contexts of the current state say nothing untrue, nor do the copies the kernel makes of
\* the running one.
LEMMA HarmlessContexts ==
    ASSUME PidSafe
    PROVE  /\ Harmless(cpu) /\ \A x \in DOMAIN frames : Harmless(frames[x])
           /\ \A i \in BOOLEAN : Harmless([cpu EXCEPT !.i = i])
           /\ \A at \in Labels \ {"read"} : Harmless([cpu EXCEPT !.at = at])
           /\ \A at \in Labels \ {"read"}, i \in BOOLEAN : Harmless([cpu EXCEPT !.at = at, !.i = i])
PROOF
<1>1. cpu \in Contexts /\ \A x \in DOMAIN frames : frames[x] \in Contexts
  BY DEF PidSafe, Safe, TypeInv, TypeOK
<1>2. Harmless(cpu) /\ \A x \in DOMAIN frames : Harmless(frames[x])
  BY <1>1 DEF PidSafe, Waits, Harmless
<1>3. \A i \in BOOLEAN : Harmless([cpu EXCEPT !.i = i])
  BY <1>1, <1>2 DEF Harmless, Found, Contexts
<1>4. \A at \in Labels \ {"read"} : Harmless([cpu EXCEPT !.at = at])
  BY <1>1 DEF Harmless, Found, Contexts
<1>5. \A at \in Labels \ {"read"}, i \in BOOLEAN : Harmless([cpu EXCEPT !.at = at, !.i = i])
  BY <1>1 DEF Harmless, Found, Contexts
<1> QED BY <1>2, <1>3, <1>4, <1>5

\* get_task finds the only slot that can hold a living task with that pid.
LEMMA ScanFinds ==
    ASSUME PidSafe, ~InMain, Executing, Scan
    PROVE  Harmless(cpu')
PROOF
<1>1. cpu \in Contexts /\ tasks \in [Slots -> Tasks] /\ 0 \in Slots /\ pid_cnt \in 0..MaxPid
  BY TasksMaxAssumption DEF PidSafe, Safe, TypeInv, TypeOK, Slots
<1>2. CASE Holding(cpu.pid) = {}
  BY <1>1, <1>2 DEF Scan, WaitOver, Harmless, Found, Contexts, Labels, TaskLabels, Slots
<1>3. CASE Holding(cpu.pid) # {}
  <2> DEFINE found == first_holding(cpu.pid)
  <2>1. found \in Slots /\ tasks[found].pid = cpu.pid /\ \A s \in Holding(cpu.pid) : found =< s
    <3>1. Holding(cpu.pid) \in SUBSET Slots
      BY DEF Holding
    <3>2. found \in Holding(cpu.pid) /\ \A s \in Holding(cpu.pid) : found =< s
      BY <1>3, <3>1, MinSlot DEF first_holding
    <3> QED BY <3>2 DEF Holding
  <2> HIDE DEF found
  <2>2. cpu' = [cpu EXCEPT !.at = "read", !.ptr = found]
    BY <1>3 DEF Scan, found
  <2>3. cpu.pid # 0 => cpu.pid < pid_cnt
    BY <2>1 DEF PidSafe, Pids
  <2>4. ASSUME NEW s \in Slots, Living(s), tasks[s].pid = cpu.pid
        PROVE  s = found
    <3>1. CASE cpu.pid # 0
      BY <2>1, <2>4, <3>1 DEF PidSafe, Pids
    <3>2. CASE cpu.pid = 0
      <4>1. s = 0 /\ 0 \in Holding(cpu.pid)
        BY <1>1, <2>4, <3>2 DEF PidSafe, Pids, Holding
      <4>2. found =< 0
        BY <2>1, <4>1
      <4> QED BY <2>1, <4>1, <4>2, TasksMaxAssumption DEF Slots
    <3> QED BY <3>1, <3>2
  <2>5. cpu' \in Contexts /\ cpu'.pid = cpu.pid /\ cpu'.ptr = found
    BY <1>1, <2>1, <2>2 DEF Contexts, Labels, TaskLabels
  <2> QED BY <2>3, <2>4, <2>5 DEF Harmless, Found
<1> QED BY <1>2, <1>3

\* Nor does the context that executes after a step,
LEMMA CpuStep ==
    ASSUME PidSafe, Next, ~InMain
    PROVE  Harmless(cpu')
PROOF
<1>1. cpu \in Contexts /\ cpu' \in Contexts
  BY NextType DEF PidSafe, Safe, TypeInv, TypeOK
<1>2. CASE cpu'.at # "read"
  BY <1>1, <1>2 DEF Harmless, Found
<1>3. CASE cpu' = cpu \/ cpu' = [cpu EXCEPT !.i = TRUE] \/ cpu' = [cpu EXCEPT !.i = FALSE]
  BY <1>3, HarmlessContexts
<1>4. CASE Switch
  BY <1>4, SwitchLoads, HarmlessContexts DEF Switch
<1>5. CASE TimerISR
  BY <1>5, SwitchLoads, HarmlessContexts DEF TimerISR
<1>6. CASE Scan
  <2>1. Executing
    BY <1>6 DEF Scan, At, Executing
  <2> QED BY <1>6, <2>1, ScanFinds
<1>7. CASE Return \/ TimerMatch \/ halt_exec
  BY <1>3, <1>7 DEF Return, TimerMatch, halt_exec, vars, machine
<1>8. CASE FATAL_ERROR(fault')
  BY <1>3, <1>8 DEF FATAL_ERROR
<1>9. CASE Boot \/ WrapAround \/ LookUp \/ ReadStatus
  <2>1. CASE Boot
    BY <1>1, <1>2, <1>3, <2>1 DEF Boot, FATAL_ERROR, Contexts
  <2>2. CASE WrapAround
    BY <1>2, <2>2 DEF WrapAround
  <2>3. CASE LookUp
    BY <1>1, <1>2, <2>3 DEF LookUp, Contexts
  <2>4. CASE ReadStatus
    BY <1>1, <1>2, <2>4 DEF ReadStatus, WaitOver, Contexts
  <2> QED BY <1>9, <2>1, <2>2, <2>3, <2>4
<1>10. CASE SchedulerStep
  BY <1>1, <1>2, <1>8, <1>10
  DEF SchedulerStep, start_scheduler, MaskTimer, handle_previous_task, select_next_task,
      prepare_next_task, k_yield, FATAL_ERROR, Contexts
<1>11. CASE SpawnScheduler \/ Spawn
  BY <1>1, <1>2, <1>8, <1>11 DEF SpawnScheduler, Spawn, spawn_task, FATAL_ERROR
<1>12. CASE Exit \/ Yield \/ SetPriority \/ Terminate \/ Wait
  BY <1>1, <1>2, <1>3, <1>8, <1>12
  DEF Exit, Yield, k_yield, SetPriority, Terminate, FATAL_ERROR, Wait, machine, Contexts
<1> QED
  BY <1>4, <1>5, <1>6, <1>7, <1>9, <1>10, <1>11, <1>12 DEF Next, SystemCall, WaitStep

\* nor those on the stacks.
LEMMA FramesStep ==
    ASSUME PidSafe, Next
    PROVE  \A x \in DOMAIN frames' : Harmless(frames'[x])
PROOF
<1>1. CASE frames' = frames
  BY <1>1, HarmlessContexts
<1>2. CASE Switch
  BY <1>2, SwitchFrames, HarmlessContexts DEF Switch
<1>3. CASE TimerISR
  BY <1>3, SwitchFrames, HarmlessContexts DEF TimerISR
<1>4. CASE start_scheduler
  <2>1. "sched_loop" \in Labels \ {"read"}
    BY DEF Labels, SchedulerLabels
  <2> QED BY <1>4, <2>1, PushedFrames, HarmlessContexts DEF start_scheduler
<1>5. ASSUME NEW caller, NEW fn, NEW priority, spawn_task(caller, fn, priority)
      PROVE  \A x \in DOMAIN frames' : Harmless(frames'[x])
  <2> DEFINE context == [cpu EXCEPT !.at = "user", !.i = FALSE]
             new == task_sp_range_high(Min(Free(tasks)))
  <2>1. frames' = frames \/ frames' = StillIntact(WithSaved(context), new)
    BY <1>5 DEF spawn_task, FATAL_ERROR
  <2>2. Harmless(context)
    BY HarmlessContexts DEF Labels, TaskLabels
  <2> HIDE DEF context, new
  <2>3. CASE frames' = StillIntact(WithSaved(context), new)
    <3>1. \A x \in DOMAIN frames' : x \in DOMAIN WithSaved(context) /\ frames'[x] = WithSaved(context)[x]
      BY <2>3, StillIntactIs
    <3> QED BY <2>2, <3>1, PushedFrames, HarmlessContexts
  <2> QED BY <1>1, <2>1, <2>3
<1>6. CASE SpawnScheduler \/ Spawn
  BY <1>5, <1>6 DEF SpawnScheduler, Spawn
<1>7. CASE \/ Boot \/ MaskTimer \/ handle_previous_task \/ select_next_task \/ prepare_next_task
           \/ Return \/ TimerMatch \/ WaitStep \/ WrapAround \/ halt_exec
           \/ Exit \/ Yield \/ SetPriority \/ Terminate \/ Wait
  <2>1. frames' = frames
    BY <1>7
    DEF Boot, MaskTimer, handle_previous_task, select_next_task, prepare_next_task, Return,
        TimerMatch, WaitStep, LookUp, Scan, ReadStatus, WrapAround, halt_exec, Exit, Yield,
        SetPriority, Terminate, Wait, FATAL_ERROR, vars, machine
  <2> QED BY <1>1, <2>1
<1> QED BY <1>2, <1>3, <1>4, <1>6, <1>7 DEF Next, SchedulerStep, SystemCall

\* What waiters rely on is kept by every step.
LEMMA WaitsStep ==
    ASSUME PidSafe, Next
    PROVE  Waits'
PROOF
<1>1. CASE InMain
  <2>1. (InIdle' /\ Boot) \/ (InMain' /\ TimerMatch)
    BY <1>1, MainStep DEF PidSafe, Safe
  <2>2. DOMAIN frames' = {}
    BY <1>1, <2>1 DEF Boot, TimerMatch, InMain, PidSafe, Pids
  <2>3. Found(cpu)'
    BY <2>1 DEF InMain, InIdle, Found
  <2> QED BY <2>2, <2>3 DEF Waits
<1>2. CASE ~InMain
  <2>1. \A context \in Contexts : Found(context) => Found(context)'
    BY <1>2, FoundKept
  <2>2. Harmless(cpu') /\ \A x \in DOMAIN frames' : Harmless(frames'[x])
    BY <1>2, CpuStep, FramesStep
  <2>3. Found(cpu)'
    BY <2>1, <2>2 DEF Harmless, Found
  <2>4. \A x \in DOMAIN frames' : Found(frames[x])'
    BY <2>1, <2>2 DEF Harmless, Found
  <2> QED BY <2>3, <2>4 DEF Waits
<1> QED BY <1>1, <1>2

-----------------------------------------------------------------------------
(* The theorem *)

\* Nobody waits initially.
LEMMA InitPidSafe == Init => PidSafe
PROOF
<1> SUFFICES ASSUME Init PROVE PidSafe
  OBVIOUS
<1>1. Safe /\ InMain
  BY InitSafe, InitPhase
<1>2. \A s \in Slots : tasks[s].pid = 0 /\ ~Living(s)
  BY DEF Init, Living
<1>3. DOMAIN frames = {} /\ cpu.at = "main"
  BY DEF Init
<1>4. Pids
  BY <1>1, <1>2, <1>3 DEF Pids
<1>5. Waits
  BY <1>3 DEF Waits, Found
<1> QED BY <1>1, <1>4, <1>5 DEF PidSafe

\* Every step keeps the invariant.
LEMMA NextPidSafe ==
    ASSUME PidSafe, [Next]_vars
    PROVE  PidSafe'
PROOF
<1>1. Safe'
  BY NextSafe DEF PidSafe
<1>2. CASE Next
  BY <1>1, <1>2, PidsStep, WaitsStep DEF PidSafe
<1>3. CASE UNCHANGED vars
  <2>1. UNCHANGED <<tasks, queue_position, pid_cnt, next_task_sp, scheduler_task_sp, frames, cpu,
                    mode, ocf, fault>>
    BY <1>3 DEF vars, kernel, globals, machine
  <2>2. Pids' /\ Waits'
    BY <2>1 DEF PidSafe, Pids, Living, InMain, Dormant, Quiet, Waits, Found
  <2> QED BY <1>1, <2>2 DEF PidSafe
<1> QED BY <1>2, <1>3

\* The invariant of this proof holds whatever the timer does.
THEOREM WaitersSafe == Spec => []PidSafe
PROOF
<1>1. Init => PidSafe
  BY InitPidSafe
<1>2. PidSafe /\ [Next]_vars => PidSafe'
  BY NextPidSafe
<1> QED BY <1>1, <1>2, PTL DEF Spec

\* wait_for_task_finnish returns only when no living task has that pid, although the slot
\* may have changed hands between get_task and the read of its status.
THEOREM WaitersReturnAfterExit == Spec => WaitReturnsAfterExit
PROOF
<1> DEFINE Returns == cpu.at \in {"scan", "read"} /\ cpu'.at = "user"
           AllEnded == \A s \in Slots : tasks[s].pid = cpu.pid => tasks[s].status = "EMPTY"
<1>1. ASSUME PidSafe, Next, Returns
      PROVE  AllEnded
  <2>1. cpu \in Contexts
    BY <1>1 DEF PidSafe, Safe, TypeInv, TypeOK
  <2>2. InTaskCode \/ Entering \/ Ended
    BY <1>1
    DEF PidSafe, Safe, Phase, InMain, InIdle, InStart, Dormant, Leaving, Resumed, InLoop,
        InHandle, InSelect, InPrepare, HandingOver, Astray
  <2>3. CASE Scan
    <3>1. Holding(cpu.pid) = {}
      BY <1>1, <2>1, <2>3 DEF Scan, Contexts
    <3> QED BY <3>1 DEF Holding
  <2>4. CASE ReadStatus
    <3>1. cpu.at = "read" /\ tasks[cpu.ptr].status = "EMPTY"
      BY <1>1, <2>1, <2>4 DEF ReadStatus, At, Contexts
    <3> QED BY <1>1, <3>1 DEF PidSafe, Waits, Found, Living
  <2>5. Scan \/ ReadStatus
    <3>1. \/ Scan \/ ReadStatus
          \/ Irq /\ TimerISR
          \/ Return \/ TimerMatch \/ halt_exec
      BY <1>1, <2>2, Steps DEF InTaskCode, Entering, Ended, At, Irq, MatchPossible
    <3>2. CASE Return \/ TimerMatch \/ halt_exec
      BY <1>1, <2>1, <3>2 DEF Return, TimerMatch, halt_exec, vars, machine, Contexts
    <3>3. CASE Irq /\ TimerISR
      <4>1. InTaskCode
        BY <2>2, <3>3 DEF Entering, Ended, Irq
      <4>2. Resumed'
        BY <1>1, <3>3, <4>1, PreemptStep DEF PidSafe, Safe
      <4> QED BY <1>1, <4>2 DEF Resumed
    <3> QED BY <3>1, <3>2, <3>3
  <2> QED BY <2>3, <2>4, <2>5
<1>2. PidSafe /\ [Next]_vars => [Returns => AllEnded]_vars
  BY <1>1
<1>3. Spec => []PidSafe
  BY WaitersSafe
<1> QED BY <1>2, <1>3, PTL DEF Spec, WaitReturnsAfterExit

-----------------------------------------------------------------------------
(* The refinement *)

\* The scheduler is the second task to be created: no task that is waited for has its pid.
SchedulerIsSecond ==
    /\ InIdle => pid_cnt = 1
    /\ InStart => pid_cnt = 2 /\ tasks[active_task_block].pid = 1
    /\ scheduler_task_sp # NullSp => Scheduler \in Slots /\ tasks[Scheduler].pid = 1

\* The invariant the refinement rests on.
Refinable == PidSafe /\ SchedulerIsSecond

\* Where the context of a living task is: in the CPU, or saved from the top of its stack.
TaskContext(s) ==
    IF TaskCodeAt /\ s = active_task_block THEN cpu ELSE frames[Saved(s)]

ContextsPlaced ==
    \A s \in TasksNow :
        /\ Context(s) = TaskContext(s)
        /\ ~(TaskCodeAt /\ s = active_task_block) => Saved(s) \in DOMAIN frames

\* What the mapping says of the task in slot s.
View(s) == [pid |-> tasks[s].pid, priority |-> tasks[s].priority, doing |-> Doing(Context(s))]

-----------------------------------------------------------------------------
(* The mapped table of tasks *)

LEMMA TaskBarIs == task_bar = [s \in TasksNow |-> View(s)] /\ DOMAIN task_bar = TasksNow
PROOF BY DEF task_bar, View

\* It is the same if the same slots hold tasks with the same views.
LEMMA TaskBarKept ==
    ASSUME TasksNow' = TasksNow, \A s \in TasksNow : View(s)' = View(s)
    PROVE  task_bar' = task_bar
PROOF
<1>1. task_bar' = [s \in TasksNow' |-> View(s)']
  BY DEF task_bar, View
<1>2. task_bar = [s \in TasksNow |-> View(s)]
  BY TaskBarIs
<1>3. [s \in TasksNow' |-> View(s)'] = [s \in TasksNow |-> View(s)]
  BY Zenon
<1> QED BY <1>1, <1>2, <1>3

\* It changes in one place if one slot's view changes, or a task comes to it,
LEMMA TaskBarWith ==
    ASSUME NEW r \in Slots, TasksNow' = TasksNow \cup {r},
           \A s \in TasksNow \ {r} : View(s)' = View(s)
    PROVE  task_bar' = Abstract!With(r, View(r)')
PROOF
<1>1. task_bar' = [s \in TasksNow' |-> View(s)']
  BY DEF task_bar, View
<1>2. task_bar = [s \in TasksNow |-> View(s)]
  BY TaskBarIs
<1>3. Abstract!With(r, View(r)') =
         [s \in TasksNow \cup {r} |-> IF s = r THEN View(r)' ELSE task_bar[s]]
  BY TaskBarIs DEF Abstract!With
<1>4. \A s \in TasksNow \cup {r} : View(s)' = IF s = r THEN View(r)' ELSE task_bar[s]
  BY <1>2
<1> QED BY <1>1, <1>3, <1>4

\* or loses one.
LEMMA TaskBarWithout ==
    ASSUME NEW r \in Slots, TasksNow' = TasksNow \ {r},
           \A s \in TasksNow \ {r} : View(s)' = View(s)
    PROVE  task_bar' = Abstract!Without(r)
PROOF
<1>1. task_bar' = [s \in TasksNow' |-> View(s)']
  BY DEF task_bar, View
<1>2. task_bar = [s \in TasksNow |-> View(s)]
  BY TaskBarIs
<1>3. Abstract!Without(r) = [s \in TasksNow \ {r} |-> task_bar[s]]
  BY TaskBarIs DEF Abstract!Without
<1>4. \A s \in TasksNow \ {r} : View(s)' = task_bar[s]
  BY <1>2
<1> QED BY <1>1, <1>3, <1>4

\* Before the round's next place the mapped rest of the round is the queue's.
LEMMA OrderBarKept ==
    ASSUME UNCHANGED <<task_index_queue, queue_position>> PROVE order_bar' = order_bar
PROOF BY DEF order_bar

LEMMA OrderBarEmpty == queue_position = 0 => order_bar = Abstract!NoRound
PROOF
<1> SUFFICES ASSUME queue_position = 0 PROVE order_bar = Abstract!NoRound
  OBVIOUS
<1>1. 0..(queue_position - 1) = {}
  OBVIOUS
<1> QED BY <1>1 DEF order_bar, Abstract!NoRound

-----------------------------------------------------------------------------
(* Where the contexts are *)

\* The slots that hold tasks, and the scheduler's.
LEMMA TasksNowIs ==
    ASSUME Safe
    PROVE  /\ InIdle => TasksNow = {0}
           /\ InStart => TasksNow = {0}
           /\ Settled /\ cpu.at # "sched_start" =>
                 TasksNow = {s \in Slots : tasks[s].status \in {"READY", "RUNNING"}}
PROOF
<1>1. 0 \in Slots /\ active_task_block \in Slots
  BY TasksMaxAssumption DEF Safe, TypeInv, TypeOK, Slots
<1>2. InIdle => TasksNow = {0}
  BY <1>1 DEF InIdle, Dormant, TasksNow, InTaskSlot, IsScheduler
<1>3. InStart => TasksNow = {0}
  BY <1>1 DEF InStart, Dormant, TasksNow, InTaskSlot, IsScheduler
<1>4. Settled /\ cpu.at # "sched_start" =>
         TasksNow = {s \in Slots : tasks[s].status \in {"READY", "RUNNING"}}
  BY DEF TasksNow, InTaskSlot, IsScheduler
<1> QED BY <1>2, <1>3, <1>4

LEMMA SafePlaced == Punctual /\ Safe /\ Executing => ContextsPlaced
PROOF
<1> SUFFICES ASSUME Punctual, Safe, Executing, NEW s \in TasksNow
             PROVE  /\ Context(s) = TaskContext(s)
                    /\ ~(TaskCodeAt /\ s = active_task_block) => Saved(s) \in DOMAIN frames
  BY DEF ContextsPlaced
<1>1. CASE TaskCodeAt /\ s = active_task_block
  BY <1>1 DEF Context, TaskContext
<1>2. CASE ~(TaskCodeAt /\ s = active_task_block)
  <2>1. s \in Slots /\ tasks[s].status \in {"READY", "RUNNING"}
    BY DEF TasksNow, InTaskSlot
  <2>2. ContextPlace(s) = Saved(s) /\ Saved(s) \in DOMAIN frames
    <3>1. CASE tasks[s].status = "READY"
      <4>1. tasks[s].task_sp_adr = Saved(s) /\ ContextSaved(s)
        BY <2>1, <3>1, ExecutingPhases DEF InMain, InIdle, InStart, Settled, Astray, ReadySaved
      <4> QED BY <3>1, <4>1 DEF ContextPlace, ContextSaved
    <3>2. CASE tasks[s].status = "RUNNING"
      <4>1. CASE InTask
        <5>1. s = active_task_block /\ cpu.at # "dead"
          BY <2>1, <3>2, <4>1, SafeOneRunning DEF OneRunning
        <5>2. ~TaskCodeAt
          BY <1>2, <5>1
        <5>3. cpu.at = "sched_start"
          BY <4>1, <5>1, <5>2 DEF InTask, TaskCodeAt
        <5> QED BY <5>1, <5>3 DEF TasksNow, IsScheduler
      <4>2. CASE ~InTask
        <5>1. InMain \/ InScheduler
          BY <4>2
          DEF Safe, Phase, InTask, InScheduler, Executing, InIdle, InStart, Dormant, InTaskCode,
              Resumable, Leaving, Entering, Resumed, InLoop, InHandle, InSelect, InPrepare,
              HandingOver, Astray, Ended, TaskLabels, SchedulerLabels
        <5>2. ~InMain
          BY <2>1 DEF InMain
        <5>3. Resumed \/ InLoop \/ InHandle \/ InSelect \/ InPrepare \/ HandingOver
          BY <5>1, <5>2, SchedulerPhases
        <5>4. ~InSelect /\ ~InPrepare
          BY <2>1, <3>2 DEF InSelect, InPrepare, NoneRunning, Running
        <5>5. CASE Resumed \/ InLoop \/ InHandle
          BY <2>1, <3>2, <5>5
          DEF Resumed, InLoop, InHandle, Previous, Running, ContextPlace, ContextSaved
        <5>6. CASE HandingOver
          BY <2>1, <3>2, <5>6 DEF HandingOver, OnlyRunning, Running, ContextPlace, ContextSaved
        <5> QED BY <5>3, <5>4, <5>5, <5>6
      <4> QED BY <4>1, <4>2
    <3> QED BY <2>1, <3>1, <3>2
  <2> QED BY <1>2, <2>2 DEF Context, TaskContext
<1> QED BY <1>1, <1>2

\* The same of the state after a step.
LEMMA NextPlaced == Punctual /\ Safe' /\ Executing' => ContextsPlaced'
PROOF
<1> SUFFICES ASSUME Punctual PROVE Safe' /\ Executing' => ContextsPlaced'
  OBVIOUS
<1>1. Safe /\ Executing => ContextsPlaced
  BY SafePlaced
<1> QED BY <1>1, PTL

-----------------------------------------------------------------------------
(* What the mapping says in each phase *)

Mapping(running, chosen, scheduler) ==
    /\ running_bar = running /\ chosen_bar = chosen /\ scheduler_bar = scheduler
    /\ halted_bar = FALSE

LivingSlots == {s \in Slots : tasks[s].status \in {"READY", "RUNNING"}}

Mapped ==
    /\ InMain => TasksNow = {} /\ Mapping(tasks_max, tasks_max, tasks_max)
    /\ InIdle => TasksNow = {0} /\ Mapping(active_task_block, tasks_max, tasks_max)
    /\ InStart => TasksNow = {0} /\ Mapping(tasks_max, tasks_max, active_task_block)
    /\ InTaskCode =>
          TasksNow = LivingSlots /\ Mapping(active_task_block, tasks_max, Scheduler)
    /\ Leaving => TasksNow = LivingSlots /\ Mapping(tasks_max, tasks_max, Scheduler)
    /\ Resumed \/ InLoop \/ InHandle \/ InSelect =>
          TasksNow = LivingSlots /\ Mapping(tasks_max, tasks_max, Scheduler)
    /\ InPrepare \/ HandingOver \/ Entering =>
          TasksNow = LivingSlots /\ Mapping(tasks_max, active_task_block, Scheduler)

LEMMA SafeMapped == Safe => Mapped
PROOF
<1> SUFFICES ASSUME Safe PROVE Mapped
  OBVIOUS
<1> USE DEF Mapping, running_bar, chosen_bar, scheduler_bar, halted_bar, TaskCodeAt, TaskLabels
<1>1. InMain => TasksNow = {} /\ Mapping(tasks_max, tasks_max, tasks_max)
  BY DEF InMain, Dormant, TasksNow, InTaskSlot
<1>2. InIdle => TasksNow = {0} /\ Mapping(active_task_block, tasks_max, tasks_max)
  BY TasksNowIs DEF InIdle, Dormant
<1>3. InStart => TasksNow = {0} /\ Mapping(tasks_max, tasks_max, active_task_block)
  BY TasksNowIs DEF InStart, Dormant
<1>4. Settled /\ cpu.at # "sched_start" => TasksNow = LivingSlots
  BY TasksNowIs DEF LivingSlots
<1>5. InTaskCode =>
         TasksNow = LivingSlots /\ Mapping(active_task_block, tasks_max, Scheduler)
  BY <1>4 DEF InTaskCode, TaskSide, Resumable, Scheduler
<1>6. Leaving => TasksNow = LivingSlots /\ Mapping(tasks_max, tasks_max, Scheduler)
  BY <1>4 DEF Leaving, TaskSide, Scheduler
<1>7. Resumed \/ InLoop \/ InHandle \/ InSelect =>
         TasksNow = LivingSlots /\ Mapping(tasks_max, tasks_max, Scheduler)
  BY <1>4 DEF Resumed, InLoop, InHandle, InSelect, SchedulerSide, Scheduler
<1>8. InPrepare \/ HandingOver =>
         TasksNow = LivingSlots /\ Mapping(tasks_max, active_task_block, Scheduler)
  BY <1>4 DEF InPrepare, HandingOver, SchedulerSide, Scheduler
<1>9. Entering => TasksNow = LivingSlots /\ Mapping(tasks_max, active_task_block, Scheduler)
  BY <1>4 DEF Entering, TaskSide, Resumable, Scheduler
<1> QED BY <1>1, <1>2, <1>3, <1>5, <1>6, <1>7, <1>8, <1>9 DEF Mapped

LEMMA NextMapped == Safe' => Mapped'
PROOF BY SafeMapped, PTL

\* A halt changes nothing of what the mapping says but that the system has halted.
LEMMA HaltMapped ==
    ASSUME mode = "run", cpu \in Contexts, NEW reason, FATAL_ERROR(reason)
    PROVE  /\ halted_bar' = TRUE
           /\ UNCHANGED <<task_bar, running_bar, chosen_bar, order_bar, scheduler_bar, pid_cnt>>
PROOF
<1>1. /\ mode' = "halted" /\ cpu' = [cpu EXCEPT !.i = FALSE]
      /\ UNCHANGED <<tasks, task_index_queue, queue_position, active_task_block, pid_cnt,
                     prev_task_sp, next_task_sp, scheduler_task_sp, frames>>
  BY DEF FATAL_ERROR, kernel, globals
<1>2. cpu'.at = cpu.at /\ cpu'.pid = cpu.pid
  BY <1>1 DEF Contexts
<1>3. TasksNow' = TasksNow
  BY <1>1, <1>2 DEF TasksNow, InTaskSlot, IsScheduler
<1>4. \A s \in TasksNow : View(s)' = View(s)
  <2> TAKE s \in TasksNow
  <2>1. Context(s)' = IF TaskCodeAt /\ s = active_task_block THEN cpu' ELSE Context(s)
    BY <1>1, <1>2 DEF Context, ContextPlace, TaskCodeAt, Lost
  <2>2. Doing(Context(s))' = Doing(Context(s))
    BY <1>2, <2>1 DEF Doing, Context
  <2> QED BY <1>1, <2>2 DEF View
<1>5. task_bar' = task_bar
  BY <1>3, <1>4, TaskBarKept
<1>6. UNCHANGED <<running_bar, chosen_bar, scheduler_bar>> /\ halted_bar' = TRUE
  BY <1>1, <1>2 DEF running_bar, chosen_bar, scheduler_bar, halted_bar, TaskCodeAt
<1> QED BY <1>1, <1>5, <1>6, OrderBarKept

\* A task's view is the same if its number and its priority are and its context says the same.
LEMMA ViewKept ==
    ASSUME ContextsPlaced, ContextsPlaced', NEW s \in TasksNow, s \in TasksNow',
           tasks'[s].pid = tasks[s].pid, tasks'[s].priority = tasks[s].priority,
           Doing(TaskContext(s))' = Doing(TaskContext(s))
    PROVE  View(s)' = View(s)
PROOF
<1>1. Context(s) = TaskContext(s) /\ Context(s)' = TaskContext(s)'
  BY DEF ContextsPlaced
<1>2. Doing(Context(s))' = Doing(Context(s))
  BY <1>1 DEF Doing
<1> QED BY <1>2 DEF View

-----------------------------------------------------------------------------
(* The steps, phase by phase *)

\* The first task.
LEMMA MainRefines ==
    ASSUME Punctual, Safe, Safe', InMain, Next PROVE Abstract!Boot
PROOF
<1>1. /\ InIdle' /\ pid_cnt = 0 /\ pid_cnt' = 1 /\ tasks'[0].pid = 0 /\ tasks'[0].priority = 0
  BY MainStep DEF Safe, InMain
<1>2. /\ Mapping(tasks_max, tasks_max, tasks_max) /\ TasksNow = {}
      /\ Mapping(active_task_block, tasks_max, tasks_max)' /\ TasksNow' = {0}
  BY <1>1, SafeMapped, NextMapped DEF Mapped
<1>3. 0 \in Slots /\ active_task_block' = 0 /\ cpu'.at = "idle"
  BY <1>1, TasksMaxAssumption DEF InIdle, Slots
<1>4. View(0)' = Abstract!Task(0, 0)
  <2>1. Context(0)' = cpu'
    BY <1>3 DEF Context, TaskCodeAt, TaskLabels
  <2> QED
    BY <1>1, <1>3, <2>1 DEF View, Doing, Abstract!Task, Abstract!Working
<1>5. task_bar' = Abstract!With(0, Abstract!Task(0, 0))
  <2>1. TasksNow' = TasksNow \cup {0} /\ \A s \in TasksNow \ {0} : View(s)' = View(s)
    BY <1>2
  <2>2. task_bar' = Abstract!With(0, View(0)')
    BY <1>3, <2>1, TaskBarWith
  <2> QED BY <1>4, <2>2
<1>6. order_bar = Abstract!NoRound /\ order_bar' = Abstract!NoRound
  <2>1. queue_position = 0 /\ queue_position' = 0
    BY <1>1 DEF InMain, InIdle, Dormant
  <2>2. (queue_position = 0 => order_bar = Abstract!NoRound)'
    BY OrderBarEmpty, PTL
  <2> QED BY <2>1, <2>2, OrderBarEmpty DEF Abstract!NoRound
<1>7. 0 \in Abstract!Slots
  BY <1>3 DEF Slots, Abstract!Slots
<1> QED BY <1>1, <1>2, <1>3, <1>5, <1>6, <1>7 DEF Abstract!Boot, Mapping

\* run_idle_fn's first spawn.
LEMMA IdleSpawns ==
    ASSUME Punctual, Refinable, InIdle, Next
    PROVE  /\ InStart' /\ pid_cnt = 1 /\ pid_cnt' = 2
           /\ active_task_block' \in Slots \ {0} /\ tasks'[active_task_block'].pid = 1
           /\ tasks'[0].pid = tasks[0].pid /\ tasks'[0].priority = tasks[0].priority
           /\ frames'[Saved(0)].at = "user"
           /\ UNCHANGED <<task_index_queue, queue_position>>
PROOF
<1>1. spawn_task("idle", "sched_start", 0)
  BY Steps DEF InIdle, Dormant, At, Irq, MatchPossible, Punctual, SpawnScheduler
<1>2. InStart' /\ TypeInv
  BY IdleStep DEF Refinable, PidSafe, Safe
<1>3. 0 \in Slots /\ 1 \in Slots /\ 0 \in 0..UINT8_MAX
      /\ "idle" \in Labels /\ "sched_start" \in Labels
  BY TasksMaxAssumption, UInt8Assumption DEF Slots, Labels, TaskLabels, SchedulerLabels
<1>4. Free(tasks) # {} /\ tasks[0].status = "RUNNING"
  BY <1>3 DEF Free, InIdle
<1>5. active_task_block = 0 /\ sp = task_sp_range_high(active_task_block)
  BY DEF InIdle
<1> DEFINE new == Min(Free(tasks))
<1>6. /\ new \in Slots /\ tasks[new].status = "EMPTY" /\ active_task_block' = new
      /\ frames'[Saved(0)].at = "user"
      /\ \A s \in Slots : tasks'[s].pid = IF s = new THEN pid_cnt ELSE tasks[s].pid
      /\ \A s \in Slots : tasks'[s].priority = IF s = new THEN 0 ELSE tasks[s].priority
      /\ pid_cnt' = pid_cnt + 1
      /\ UNCHANGED task_index_queue
  BY <1>1, <1>2, <1>3, <1>4, <1>5, SpawnEffect
<1> HIDE DEF new
<1>7. pid_cnt = 1 /\ new # 0
  BY <1>4, <1>6 DEF Refinable, SchedulerIsSecond
<1> QED BY <1>2, <1>3, <1>6, <1>7 DEF InIdle, InStart, Dormant

\* The scheduler's creation.
LEMMA IdleRefines ==
    ASSUME Punctual, Refinable, Safe', InIdle, Next PROVE Abstract!StartScheduler
PROOF
<1>1. /\ InStart' /\ pid_cnt = 1 /\ pid_cnt' = 2
      /\ active_task_block' \in Slots \ {0}
      /\ tasks'[0].pid = tasks[0].pid /\ tasks'[0].priority = tasks[0].priority
      /\ frames'[Saved(0)].at = "user"
      /\ UNCHANGED <<task_index_queue, queue_position>>
  BY IdleSpawns
<1>2. /\ Mapping(active_task_block, tasks_max, tasks_max) /\ TasksNow = {0}
      /\ Mapping(tasks_max, tasks_max, active_task_block)' /\ TasksNow' = {0}
  BY <1>1, SafeMapped, NextMapped DEF Mapped, Refinable, PidSafe
<1>3. ContextsPlaced /\ ContextsPlaced'
  BY <1>1, SafePlaced, NextPlaced DEF Refinable, PidSafe, Executing, InIdle, InStart, Dormant
<1>4. task_bar' = task_bar
  <2>1. active_task_block = 0 /\ cpu.at = "idle" /\ cpu'.at = "sched_start"
    BY <1>1 DEF InIdle, InStart
  <2>2. Doing(TaskContext(0))' = Doing(TaskContext(0))
    BY <1>1, <2>1 DEF Doing, TaskContext, TaskCodeAt, TaskLabels
  <2>3. View(0)' = View(0)
    BY <1>1, <1>2, <1>3, <2>2, ViewKept
  <2> QED BY <1>2, <2>3, TaskBarKept
<1>5. order_bar' = order_bar
  BY <1>1, OrderBarKept
<1>6. scheduler_bar' \in Abstract!Free
  <2>1. active_task_block' # tasks_max
    BY <1>1, TasksMaxAssumption DEF Slots
  <2> QED
    BY <1>1, <1>2, <2>1, TaskBarIs DEF Mapping, Abstract!Free, Abstract!Slots, Slots
<1>7. active_task_block # tasks_max
  BY TasksMaxAssumption DEF InIdle
<1>8. /\ running_bar # tasks_max /\ running_bar' = tasks_max
      /\ chosen_bar' = chosen_bar /\ halted_bar' = halted_bar
  BY <1>2, <1>7 DEF Mapping
<1>9. pid_cnt = 1 /\ pid_cnt' = pid_cnt + 1
  BY <1>1
<1> QED
  BY <1>4, <1>5, <1>6, <1>8, <1>9
  DEF Abstract!StartScheduler, Abstract!SchedulerPid, Abstract!Nobody

\* Nothing of it is seen when the scheduler starts its loop.
LEMMA StartRefines ==
    ASSUME Punctual, Refinable, Safe', InStart, Next PROVE UNCHANGED Abstract!vars
PROOF
<1>1. /\ InLoop' /\ Scheduler' = active_task_block /\ start_scheduler
      /\ UNCHANGED <<task_index_queue, queue_position, pid_cnt>>
      /\ frames'[Saved(0)] = frames[Saved(0)]
      /\ \A s \in Slots : /\ tasks'[s].pid = tasks[s].pid
                          /\ tasks'[s].priority = tasks[s].priority
  BY StartStep DEF Refinable, PidSafe, Safe, InMain, InStart
<1>2. /\ Mapping(tasks_max, tasks_max, active_task_block) /\ TasksNow = {0}
      /\ Mapping(tasks_max, tasks_max, Scheduler)' /\ TasksNow' = LivingSlots'
  BY <1>1, SafeMapped, NextMapped DEF Mapped, Refinable, PidSafe
<1>3. ContextsPlaced /\ ContextsPlaced'
  BY <1>1, SafePlaced, NextPlaced
  DEF Refinable, PidSafe, Executing, InStart, InLoop, Dormant
<1>4. TasksNow' = {0}
  <2>1. tasks' = [tasks EXCEPT ![active_task_block].status = "SCHEDULER"]
    BY <1>1 DEF start_scheduler
  <2>2. tasks \in [Slots -> Tasks] /\ active_task_block \in Slots /\ 0 \in Slots
    BY TasksMaxAssumption DEF Refinable, PidSafe, Safe, TypeInv, TypeOK, Slots
  <2>3. \A s \in Slots : tasks'[s].status = IF s = 0 THEN "READY"
                                           ELSE IF s = active_task_block THEN "SCHEDULER" ELSE "EMPTY"
    BY <2>1, <2>2 DEF InStart, Tasks
  <2> QED BY <1>2, <2>2, <2>3 DEF LivingSlots
<1>5. task_bar' = task_bar
  <2>1. 0 \in Slots /\ ~TaskCodeAt /\ ~TaskCodeAt'
    BY <1>1, TasksMaxAssumption DEF InStart, InLoop, TaskCodeAt, TaskLabels, Slots
  <2>2. TaskContext(0) = frames[Saved(0)] /\ TaskContext(0)' = frames'[Saved(0)]
    BY <2>1 DEF TaskContext
  <2>3. View(0)' = View(0)
    BY <1>1, <1>2, <1>3, <1>4, <2>1, <2>2, ViewKept DEF Doing
  <2> QED BY <1>2, <1>4, <2>3, TaskBarKept
<1> QED BY <1>1, <1>2, <1>5, OrderBarKept DEF Abstract!vars, Mapping

\* The task whose code executes.
LEMMA TaskExecutes ==
    ASSUME Safe, InTaskCode
    PROVE  /\ active_task_block \in TasksNow /\ active_task_block \in Abstract!Slots
           /\ Context(active_task_block) = cpu
           /\ task_bar[active_task_block] = View(active_task_block)
           /\ Abstract!Runs(active_task_block)
           /\ cpu.at = "user" => Abstract!Works(active_task_block)
           /\ scheduler_bar # Abstract!Nobody
PROOF
<1>1. /\ active_task_block \in Slots /\ Scheduler \in Slots
      /\ tasks[active_task_block].status = "RUNNING"
  BY DEF Safe, TypeInv, TypeOK, InTaskCode, TaskSide, Settled, OneScheduler, OnlyRunning, Running
<1>2. TasksNow = LivingSlots /\ Mapping(active_task_block, tasks_max, Scheduler)
  BY SafeMapped DEF Mapped
<1>3. active_task_block \in TasksNow
  BY <1>1, <1>2 DEF LivingSlots
<1>4. Context(active_task_block) = cpu
  BY DEF InTaskCode, Context, TaskCodeAt, Resumable, TaskLabels
<1>5. task_bar[active_task_block] = View(active_task_block)
  BY <1>3, TaskBarIs
<1>6. Abstract!Runs(active_task_block)
  BY <1>2, <1>3, TaskBarIs DEF Abstract!Runs, Mapping
<1>7. cpu.at = "user" => Abstract!Works(active_task_block)
  BY <1>4, <1>5, <1>6 DEF Abstract!Works, View, Doing
<1>8. scheduler_bar # Abstract!Nobody
  BY <1>1, <1>2, TasksMaxAssumption DEF Mapping, Abstract!Nobody, Slots
<1> QED BY <1>1, <1>3, <1>4, <1>5, <1>6, <1>7, <1>8 DEF Abstract!Slots, Slots

\* A task creates another.
LEMMA SpawnRefines ==
    ASSUME Punctual, Safe, Safe', InTaskCode, NEW priority \in Priorities,
           spawn_task("user", "user", priority)
    PROVE  Abstract!Spawn(active_task_block, priority) \/ Abstract!Terminate(active_task_block)
PROOF
<1> DEFINE a == active_task_block
<1>1. cpu.at = "user" /\ pid_cnt < MaxPid /\ mode = "run"
  BY DEF spawn_task, At
<1>2. Abstract!Works(a) /\ scheduler_bar # Abstract!Nobody
  BY <1>1, TaskExecutes
<1>3. CASE Free(tasks) = {}
  <2>1. FATAL_ERROR("list_full") /\ cpu \in Contexts
    BY <1>3 DEF spawn_task, Safe, TypeInv, TypeOK
  <2> QED BY <1>1, <1>2, <2>1, HaltMapped DEF Abstract!Terminate
<1>4. CASE Free(tasks) # {}
  <2>1. a \in Slots /\ Scheduler \in Slots /\ TypeInv
        /\ tasks[a].status = "RUNNING" /\ sp = task_sp_range_high(active_task_block)
    BY DEF Safe, TypeInv, TypeOK, InTaskCode, TaskSide, Settled, OneScheduler, OnlyRunning, Running
  <2>2. "user" \in Labels /\ priority \in 0..UINT8_MAX
    BY PrioritiesAssumption DEF Labels, TaskLabels
  <2>3. PICK new \in Slots : new = Min(Free(tasks))
    <3>1. Free(tasks) \in SUBSET Slots
      BY DEF Free
    <3> QED BY <1>4, <3>1, MinSlot
  <2>4. /\ tasks[new].status = "EMPTY" /\ active_task_block' = new
        /\ \A s \in Slots :
              tasks'[s].status = IF s = new THEN "RUNNING"
                                 ELSE IF s = a THEN "READY" ELSE tasks[s].status
        /\ frames'[Saved(a)].at = "user"
        /\ \A s \in Slots \ {a, new} : Saved(s) \in DOMAIN frames =>
              Saved(s) \in DOMAIN frames' /\ frames'[Saved(s)] = frames[Saved(s)]
        /\ \A s \in Slots : tasks'[s].pid = IF s = new THEN pid_cnt ELSE tasks[s].pid
        /\ \A s \in Slots : tasks'[s].priority = IF s = new THEN priority ELSE tasks[s].priority
        /\ pid_cnt' = pid_cnt + 1 /\ queue_position' = 0
        /\ cpu' = [at |-> "user", i |-> TRUE, pid |-> 0, ptr |-> 0]
        /\ UNCHANGED mode
    BY <1>4, <2>1, <2>2, <2>3, SpawnEffect
  <2>5. UNCHANGED scheduler_task_sp
    BY <1>4 DEF spawn_task, globals
  <2>6. InTaskCode'
    BY <1>1, <2>4, SpawnStep DEF Safe, Ended
  <2>7. /\ TasksNow = LivingSlots /\ Mapping(a, tasks_max, Scheduler)
        /\ TasksNow' = LivingSlots' /\ Mapping(active_task_block, tasks_max, Scheduler)'
        /\ ContextsPlaced /\ ContextsPlaced'
    BY <1>1, <2>4, <2>6, SafeMapped, NextMapped, SafePlaced, NextPlaced DEF Mapped, Executing
  <2>8. TasksNow' = TasksNow \cup {new} /\ new \notin TasksNow /\ new # Scheduler
    BY <2>1, <2>4, <2>7
    DEF LivingSlots, InTaskCode, TaskSide, Settled, OneScheduler
  <2>9. TaskCodeAt /\ TaskCodeAt' /\ cpu'.at = "user" /\ a # new
    BY <1>1, <2>1, <2>4 DEF TaskCodeAt, TaskLabels
  <2>10. ASSUME NEW s \in TasksNow PROVE View(s)' = View(s)
    <3>1. s \in Slots /\ s # new /\ s \in TasksNow'
      BY <2>7, <2>8 DEF LivingSlots
    <3>2. TaskContext(s)' = frames'[Saved(s)]
      BY <2>4, <3>1 DEF TaskContext
    <3>3. Doing(TaskContext(s))' = Doing(TaskContext(s))
      <4>1. CASE s = a
        BY <1>1, <2>4, <2>9, <3>2, <4>1 DEF TaskContext, Doing
      <4>2. CASE s # a
        <5>1. Saved(s) \in DOMAIN frames /\ TaskContext(s) = frames[Saved(s)]
          BY <2>7, <4>2 DEF ContextsPlaced, TaskContext
        <5>2. TaskContext(s)' = TaskContext(s)
          BY <2>4, <3>1, <3>2, <4>2, <5>1
        <5> QED BY <5>2 DEF Doing
      <4> QED BY <4>1, <4>2
    <3> QED BY <2>4, <2>7, <3>1, <3>3, ViewKept
  <2>11. View(new)' = Abstract!Task(pid_cnt, priority)
    <3>1. Context(new)' = cpu'
      BY <2>4, <2>9 DEF Context
    <3> QED BY <2>4, <2>9, <3>1 DEF View, Doing, Abstract!Task, Abstract!Working
  <2>12. task_bar' = Abstract!With(new, Abstract!Task(pid_cnt, priority))
    <3>1. task_bar' = Abstract!With(new, View(new)')
      BY <2>4, <2>8, <2>10, TaskBarWith
    <3> QED BY <2>11, <3>1
  <2>13. order_bar' = Abstract!NoRound
    <3>1. (queue_position = 0 => order_bar = Abstract!NoRound)'
      BY OrderBarEmpty, PTL
    <3> QED BY <2>4, <3>1 DEF Abstract!NoRound
  <2>14. new \in Abstract!Free
    BY <2>4, <2>7, <2>8, TaskBarIs DEF Abstract!Free, Abstract!Slots, Slots, Mapping
  <2>15. /\ running_bar' = new
         /\ chosen_bar' = chosen_bar /\ scheduler_bar' = scheduler_bar /\ halted_bar' = halted_bar
    BY <2>4, <2>5, <2>7 DEF Mapping, Scheduler
  <2> QED
    BY <1>1, <1>2, <2>4, <2>12, <2>13, <2>14, <2>15 DEF Abstract!Spawn
<1> QED BY <1>3, <1>4

\* A task ends.
LEMMA ExitRefines ==
    ASSUME Punctual, PidSafe, Safe', InTaskCode, Exit
    PROVE  Abstract!Exit(active_task_block)
PROOF
<1> DEFINE a == active_task_block
<1>1. /\ cpu.at = "user" /\ mode = "run" /\ a # 0 /\ a \in Slots /\ Safe /\ cpu \in Contexts
      /\ tasks \in [Slots -> Tasks]
  BY DEF Exit, At, PidSafe, Safe, TypeInv, TypeOK
<1>2. /\ tasks' = [tasks EXCEPT ![a].status = "EMPTY", ![a].task_sp_adr = task_sp_range_high(a)]
      /\ queue_position' = 0 /\ mode' = "switch" /\ cpu' = [cpu EXCEPT !.at = "dead", !.i = FALSE]
      /\ UNCHANGED <<task_index_queue, active_task_block, pid_cnt, globals, frames, sp, ocf, fault>>
  BY DEF Exit, Invalidated, k_yield
<1>3. /\ \A s \in Slots : /\ tasks'[s].status = IF s = a THEN "EMPTY" ELSE tasks[s].status
                          /\ tasks'[s].pid = tasks[s].pid
                          /\ tasks'[s].priority = tasks[s].priority
  BY <1>1, <1>2 DEF Tasks
<1>4. Leaving'
  BY <1>1, ExitStep DEF Safe
<1>5. /\ TasksNow = LivingSlots /\ Mapping(a, tasks_max, Scheduler)
      /\ TasksNow' = LivingSlots' /\ Mapping(tasks_max, tasks_max, Scheduler)'
      /\ ContextsPlaced /\ ContextsPlaced'
  BY <1>1, <1>2, <1>4, SafeMapped, NextMapped, SafePlaced, NextPlaced DEF Mapped, Executing
<1>6. TasksNow' = TasksNow \ {a}
  BY <1>1, <1>3, <1>5 DEF LivingSlots
<1>7. cpu'.at = "dead"
  BY <1>1, <1>2 DEF Contexts
<1>8. ASSUME NEW s \in TasksNow \ {a} PROVE View(s)' = View(s)
  <2>1. s \in Slots /\ s \in TasksNow'
    BY <1>5, <1>6 DEF LivingSlots
  <2>2. TaskContext(s)' = TaskContext(s)
    BY <1>2, <1>7 DEF TaskContext
  <2>3. Doing(TaskContext(s))' = Doing(TaskContext(s))
    BY <2>2 DEF Doing
  <2> QED BY <1>3, <1>5, <2>1, <2>3, ViewKept
<1>9. task_bar' = Abstract!Without(a)
  BY <1>1, <1>6, <1>8, TaskBarWithout
<1>10. order_bar' = Abstract!NoRound
  <2>1. (queue_position = 0 => order_bar = Abstract!NoRound)'
    BY OrderBarEmpty, PTL
  <2> QED BY <1>2, <2>1 DEF Abstract!NoRound
<1>11. Abstract!Works(a) /\ task_bar[a] = View(a)
  BY <1>1, TaskExecutes
<1>12. task_bar[a].pid # 0
  <2>1. tasks[a].status = "RUNNING"
    BY <1>1 DEF InTaskCode, OnlyRunning, Running
  <2>2. tasks[a].pid # 0
    BY <1>1, <2>1 DEF PidSafe, Pids, Living
  <2> QED BY <1>11, <2>2 DEF View
<1>13. /\ running_bar' = tasks_max
       /\ chosen_bar' = chosen_bar /\ scheduler_bar' = scheduler_bar /\ halted_bar' = halted_bar
  BY <1>2, <1>5 DEF Mapping, Scheduler, globals
<1> QED
  BY <1>2, <1>9, <1>10, <1>11, <1>12, <1>13 DEF Abstract!Exit, Abstract!Nobody

\* A step of the executing task that changes what it does and nothing else.
LEMMA ActivityChanges ==
    ASSUME Punctual, Safe, Safe', InTaskCode, InTaskCode' \/ Leaving', cpu'.at \in TaskLabels,
           UNCHANGED <<task_index_queue, queue_position, active_task_block, pid_cnt,
                       scheduler_task_sp, frames>>,
           \A s \in Slots : tasks'[s].status = tasks[s].status /\ tasks'[s].pid = tasks[s].pid,
           \A s \in Slots \ {active_task_block} : tasks'[s].priority = tasks[s].priority
    PROVE  /\ task_bar' = Abstract!With(active_task_block,
                              [pid |-> tasks[active_task_block].pid,
                               priority |-> tasks'[active_task_block].priority,
                               doing |-> Doing(cpu')])
           /\ Doing(cpu') = Doing(cpu)
                 /\ tasks'[active_task_block].priority = tasks[active_task_block].priority =>
              task_bar' = task_bar
           /\ UNCHANGED <<chosen_bar, order_bar, scheduler_bar, halted_bar, pid_cnt>>
           /\ InTaskCode' => running_bar' = running_bar
           /\ Leaving' => running_bar' = Abstract!Nobody
PROOF
<1> DEFINE a == active_task_block
<1>1. a \in Slots /\ a \in TasksNow /\ Context(a) = cpu
  BY TaskExecutes DEF Safe, TypeInv, TypeOK
<1>2. /\ TasksNow = LivingSlots /\ Mapping(a, tasks_max, Scheduler)
      /\ TasksNow' = LivingSlots'
      /\ InTaskCode' => Mapping(active_task_block, tasks_max, Scheduler)'
      /\ Leaving' => Mapping(tasks_max, tasks_max, Scheduler)'
  BY SafeMapped, NextMapped DEF Mapped
<1>3. ContextsPlaced /\ ContextsPlaced'
  BY SafePlaced, NextPlaced DEF Executing, InTaskCode, Leaving
<1>4. TasksNow' = TasksNow
  BY <1>2 DEF LivingSlots
<1>5. ASSUME NEW s \in TasksNow \ {a} PROVE View(s)' = View(s)
  <2>1. s \in Slots
    BY <1>2 DEF LivingSlots
  <2>2. TaskContext(s)' = TaskContext(s)
    BY DEF TaskContext
  <2>3. Doing(TaskContext(s))' = Doing(TaskContext(s))
    BY <2>2 DEF Doing
  <2> QED BY <1>3, <1>4, <2>1, <2>3, ViewKept
<1>6. Context(a)' = cpu'
  BY DEF Context, TaskCodeAt
<1>7. View(a)' = [pid |-> tasks[a].pid, priority |-> tasks'[a].priority, doing |-> Doing(cpu')]
  <2>1. Doing(Context(a))' = Doing(cpu')
    BY <1>6 DEF Doing
  <2> QED BY <1>1, <2>1 DEF View
<1>8. task_bar' = Abstract!With(a, View(a)')
  BY <1>1, <1>4, <1>5, TaskBarWith
<1>9. ASSUME Doing(cpu') = Doing(cpu), tasks'[a].priority = tasks[a].priority
      PROVE  task_bar' = task_bar
  <2>1. View(a)' = View(a)
    BY <1>1, <1>7, <1>9 DEF View
  <2> QED BY <1>4, <1>5, <2>1, TaskBarKept
<1>10. /\ UNCHANGED <<chosen_bar, scheduler_bar, halted_bar>>
       /\ InTaskCode' => running_bar' = running_bar
       /\ Leaving' => running_bar' = Abstract!Nobody
  BY <1>2 DEF Mapping, Scheduler, Abstract!Nobody
<1> QED BY <1>7, <1>8, <1>9, <1>10, OrderBarKept

\* A task changes its priority.
LEMMA SetPriorityRefines ==
    ASSUME Punctual, Safe, Safe', InTaskCode, SetPriority
    PROVE  \E priority \in Priorities : Abstract!SetPriority(active_task_block, priority)
PROOF
<1> DEFINE a == active_task_block
<1>1. PICK priority \in Priorities : tasks' = [tasks EXCEPT ![a].priority = priority]
  BY DEF SetPriority
<1>2. /\ UNCHANGED <<task_index_queue, queue_position, active_task_block, pid_cnt,
                     scheduler_task_sp, frames, cpu>>
      /\ cpu.at = "user"
  BY DEF SetPriority, globals, machine, At
<1>3. tasks \in [Slots -> Tasks] /\ a \in Slots /\ InTaskCode'
  BY SetPriorityStep DEF Safe, TypeInv, TypeOK
<1>4. /\ \A s \in Slots : tasks'[s].status = tasks[s].status /\ tasks'[s].pid = tasks[s].pid
      /\ \A s \in Slots \ {a} : tasks'[s].priority = tasks[s].priority
      /\ tasks'[a].priority = priority
  BY <1>1, <1>3 DEF Tasks
<1>5. /\ Abstract!Works(a) /\ task_bar[a] = View(a) /\ Context(a) = cpu
  BY <1>2, TaskExecutes
<1>6. /\ task_bar' = Abstract!With(a, [pid |-> tasks[a].pid, priority |-> priority,
                                       doing |-> Doing(cpu')])
      /\ UNCHANGED <<running_bar, chosen_bar, order_bar, scheduler_bar, halted_bar, pid_cnt>>
  BY <1>2, <1>3, <1>4, ActivityChanges DEF TaskLabels
<1>7. [task_bar[a] EXCEPT !.priority = priority] =
         [pid |-> tasks[a].pid, priority |-> priority, doing |-> Doing(cpu')]
  BY <1>2, <1>5 DEF View
<1> QED BY <1>5, <1>6, <1>7 DEF Abstract!SetPriority

\* The steps of a task that touch neither the table nor the stacks are a wait's begin or end,
\* the task giving up the CPU, or nothing the tasks could tell.
LEMMA MachineRefines ==
    ASSUME Punctual, Safe, Safe', InTaskCode, UNCHANGED <<kernel, globals, frames, sp, fault>>,
           cpu'.at \in TaskLabels,
           \/ /\ mode' = "run" /\ cpu'.i
              /\ \/ cpu'.at \in Resumable /\ mt'
                 \/ cpu'.at = "scan" /\ ~mt'
           \/ mode' = "switch" /\ cpu'.at \in {"user", "lookup"} /\ ~cpu'.i /\ ~ocf'
    PROVE  /\ mode' = "run" /\ Doing(cpu') = Doing(cpu) => UNCHANGED Abstract!vars
           /\ mode' = "switch" /\ Doing(cpu') = Doing(cpu) =>
                 Abstract!Release(active_task_block)
           /\ mode' = "run" =>
                 /\ task_bar' = Abstract!With(active_task_block,
                                   [task_bar[active_task_block] EXCEPT !.doing = Doing(cpu')])
                 /\ UNCHANGED <<running_bar, chosen_bar, order_bar, scheduler_bar, halted_bar,
                                pid_cnt>>
PROOF
<1> DEFINE a == active_task_block
<1>1. UNCHANGED <<tasks, task_index_queue, queue_position, active_task_block, pid_cnt,
                  scheduler_task_sp, frames>>
  BY DEF kernel, globals
<1>2. InTaskCode' \/ Leaving'
  BY MachineStep DEF Safe
<1>3. /\ mode' = "run" => InTaskCode'
      /\ mode' = "switch" => Leaving'
  BY <1>2 DEF InTaskCode, Leaving
<1>4. /\ task_bar' = Abstract!With(a, [pid |-> tasks[a].pid, priority |-> tasks[a].priority,
                                       doing |-> Doing(cpu')])
      /\ Doing(cpu') = Doing(cpu) => task_bar' = task_bar
      /\ UNCHANGED <<chosen_bar, order_bar, scheduler_bar, halted_bar, pid_cnt>>
      /\ mode' = "run" => running_bar' = running_bar
      /\ mode' = "switch" => running_bar' = Abstract!Nobody
  BY <1>1, <1>2, <1>3, ActivityChanges
<1>5. /\ task_bar[a] = View(a) /\ Abstract!Runs(a) /\ scheduler_bar # Abstract!Nobody
  BY TaskExecutes
<1>6. [task_bar[a] EXCEPT !.doing = Doing(cpu')] =
         [pid |-> tasks[a].pid, priority |-> tasks[a].priority, doing |-> Doing(cpu')]
  BY <1>5 DEF View
<1>7. mode' = "run" /\ Doing(cpu') = Doing(cpu) => UNCHANGED Abstract!vars
  BY <1>4 DEF Abstract!vars
<1>8. mode' = "switch" /\ Doing(cpu') = Doing(cpu) => Abstract!Release(a)
  BY <1>4, <1>5 DEF Abstract!Release
<1> QED BY <1>4, <1>6, <1>7, <1>8

\* The timer takes the CPU from a task.
LEMMA PreemptRefines ==
    ASSUME Punctual, Safe, Safe', InTaskCode, Irq, TimerISR
    PROVE  Abstract!Release(active_task_block)
PROOF
<1> DEFINE a == active_task_block
<1>1. /\ Resumed' /\ ContextsStay(a, Scheduler)
      /\ frames'[Saved(a)] = [cpu EXCEPT !.i = FALSE]
      /\ cpu \in Contexts /\ a \in Slots
  BY PreemptStep DEF Safe, TypeInv, TypeOK
<1>2. /\ UNCHANGED <<tasks, task_index_queue, queue_position, active_task_block, pid_cnt,
                     scheduler_task_sp>>
      /\ \A s \in Slots \ {a, Scheduler} : Saved(s) \in DOMAIN frames =>
            frames'[Saved(s)] = frames[Saved(s)]
  BY <1>1 DEF ContextsStay, kernel
<1>3. /\ TasksNow = LivingSlots /\ Mapping(a, tasks_max, Scheduler)
      /\ TasksNow' = LivingSlots' /\ Mapping(tasks_max, tasks_max, Scheduler)'
      /\ ContextsPlaced /\ ContextsPlaced'
  BY <1>1, SafeMapped, NextMapped, SafePlaced, NextPlaced
  DEF Mapped, Executing, InTaskCode, Resumed
<1>4. TasksNow' = TasksNow
  BY <1>2, <1>3 DEF LivingSlots
<1>5. TaskCodeAt /\ ~TaskCodeAt'
  BY <1>1 DEF InTaskCode, Resumed, TaskCodeAt, TaskLabels, Resumable
<1>6. ASSUME NEW s \in TasksNow PROVE View(s)' = View(s)
  <2>1. s \in Slots /\ s # Scheduler
    BY <1>3 DEF LivingSlots, InTaskCode, TaskSide, Settled, OneScheduler
  <2>2. TaskContext(s)' = frames'[Saved(s)]
    BY <1>5 DEF TaskContext
  <2>3. Doing(TaskContext(s))' = Doing(TaskContext(s))
    <3>1. CASE s = a
      <4>1. /\ frames'[Saved(s)].at = cpu.at /\ frames'[Saved(s)].pid = cpu.pid
            /\ TaskContext(s) = cpu
        BY <1>1, <1>5, <3>1 DEF Contexts, TaskContext
      <4> QED BY <2>2, <4>1 DEF Doing
    <3>2. CASE s # a
      <4>1. TaskContext(s)' = TaskContext(s)
        BY <1>2, <1>3, <2>1, <2>2, <3>2 DEF ContextsPlaced, TaskContext
      <4> QED BY <4>1 DEF Doing
    <3> QED BY <3>1, <3>2
  <2> QED BY <1>2, <1>3, <1>4, <2>3, ViewKept
<1>7. task_bar' = task_bar
  BY <1>4, <1>6, TaskBarKept
<1>8. /\ running_bar' = Abstract!Nobody
      /\ UNCHANGED <<chosen_bar, scheduler_bar, halted_bar>>
  BY <1>2, <1>3 DEF Mapping, Scheduler, Abstract!Nobody
<1> QED BY <1>2, <1>7, <1>8, TaskExecutes, OrderBarKept DEF Abstract!Release

\* A wait whose task is in no slot, or in one that is EMPTY, may end.
LEMMA WaitMayEnd ==
    ASSUME Refinable, InTaskCode, cpu.at \in {"lookup", "scan", "read"},
           \A s \in Slots : tasks[s].pid = cpu.pid => tasks[s].status = "EMPTY"
    PROVE  /\ task_bar[active_task_block].doing.waiting
           /\ Abstract!Ended(task_bar[active_task_block].doing.pid)
PROOF
<1> DEFINE a == active_task_block
<1>1. Safe /\ task_bar[a] = View(a) /\ Context(a) = cpu
  BY TaskExecutes DEF Refinable, PidSafe
<1>2. task_bar[a].doing = [waiting |-> TRUE, pid |-> cpu.pid]
  BY <1>1 DEF View, Doing
<1>3. cpu.pid # 1
  <2>1. Scheduler \in Slots /\ tasks[Scheduler].status = "SCHEDULER"
    BY DEF InTaskCode, TaskSide, Settled, OneScheduler
  <2>2. scheduler_task_sp # NullSp
    BY <2>1, SavedIs DEF InTaskCode, TaskSide, Settled, OneScheduler
  <2>3. tasks[Scheduler].pid = 1
    BY <2>2 DEF Refinable, SchedulerIsSecond
  <2> QED BY <2>1, <2>3
<1>4. \A s \in DOMAIN task_bar : task_bar[s].pid # cpu.pid
  <2> TAKE s \in DOMAIN task_bar
  <2>1. s \in TasksNow /\ task_bar[s].pid = tasks[s].pid
    BY TaskBarIs DEF View
  <2>2. s \in Slots /\ tasks[s].status \in {"READY", "RUNNING"}
    BY <2>1 DEF TasksNow, InTaskSlot
  <2> QED BY <2>1, <2>2
<1> QED BY <1>2, <1>3, <1>4 DEF Abstract!Ended, Abstract!SchedulerPid

\* A task comes back from wait_for_task_finnish.
LEMMA WaitOverRefines ==
    ASSUME Punctual, Refinable, Safe', InTaskCode, cpu.at \in {"lookup", "scan", "read"},
           \A s \in Slots : tasks[s].pid = cpu.pid => tasks[s].status = "EMPTY",
           cpu' = WaitOver(cpu), mode' = mode, mt',
           UNCHANGED <<kernel, globals, frames, sp, ocf, fault>>
    PROVE  Abstract!WaitOver(active_task_block)
PROOF
<1> DEFINE a == active_task_block
<1>1. Safe /\ cpu \in Contexts /\ mode = "run" /\ cpu.i
  BY DEF Refinable, PidSafe, Safe, TypeInv, TypeOK, InTaskCode
<1>2. cpu'.at = "user" /\ cpu'.i
  BY <1>1 DEF WaitOver, Contexts
<1>3. Doing(cpu') = Abstract!Working
  BY <1>2 DEF Doing, Abstract!Working
<1>4. /\ task_bar' = Abstract!With(a, [task_bar[a] EXCEPT !.doing = Doing(cpu')])
      /\ UNCHANGED <<running_bar, chosen_bar, order_bar, scheduler_bar, halted_bar, pid_cnt>>
  BY <1>1, <1>2, MachineRefines DEF TaskLabels, Resumable
<1>5. Abstract!Runs(a)
  BY <1>1, TaskExecutes
<1> QED BY <1>3, <1>4, <1>5, WaitMayEnd DEF Abstract!WaitOver

\* get_task and the read of the status: the wait goes on, ends or yields.
LEMMA WaitStepRefines ==
    ASSUME Punctual, Refinable, Safe', InTaskCode, LookUp \/ Scan \/ (~Irq /\ ReadStatus)
    PROVE  \/ Abstract!WaitOver(active_task_block) \/ Abstract!Release(active_task_block)
           \/ UNCHANGED Abstract!vars
PROOF
<1>1. Safe /\ cpu \in Contexts /\ mode = "run" /\ cpu.i /\ ocf \in BOOLEAN
  BY DEF Refinable, PidSafe, Safe, TypeInv, TypeOK, InTaskCode
<1>2. CASE LookUp
  <2>1. cpu' = [cpu EXCEPT !.at = "scan"] /\ ~mt' /\ cpu.at = "lookup"
        /\ UNCHANGED <<kernel, globals, frames, sp, mode, ocf, fault>>
    BY <1>2 DEF LookUp, At
  <2>2. cpu'.at = "scan" /\ cpu'.i /\ cpu'.pid = cpu.pid
    BY <1>1, <2>1 DEF Contexts
  <2>3. Doing(cpu') = Doing(cpu)
    BY <2>1, <2>2 DEF Doing
  <2> QED BY <1>1, <2>1, <2>2, <2>3, MachineRefines DEF TaskLabels
<1>3. CASE Scan
  <2>1. mt' /\ cpu.at = "scan" /\ UNCHANGED <<kernel, globals, frames, sp, mode, ocf, fault>>
    BY <1>3 DEF Scan, At
  <2>2. CASE Holding(cpu.pid) = {}
    <3>1. cpu' = WaitOver(cpu) /\ \A s \in Slots : tasks[s].pid # cpu.pid
      BY <1>3, <2>2 DEF Scan, Holding
    <3> QED BY <2>1, <3>1, WaitOverRefines
  <2>3. CASE Holding(cpu.pid) # {}
    <3>1. cpu' = [cpu EXCEPT !.at = "read", !.ptr = first_holding(cpu.pid)]
      BY <1>3, <2>3 DEF Scan
    <3>2. cpu'.at = "read" /\ cpu'.i /\ cpu'.pid = cpu.pid
      BY <1>1, <3>1 DEF Contexts
    <3>3. Doing(cpu') = Doing(cpu)
      BY <2>1, <3>2 DEF Doing
    <3> QED BY <1>1, <2>1, <3>2, <3>3, MachineRefines DEF TaskLabels, Resumable
  <2> QED BY <2>2, <2>3
<1>4. CASE ~Irq /\ ReadStatus
  <2>1. cpu.at = "read" /\ UNCHANGED <<kernel, globals, frames, sp, mt, ocf, fault>>
    BY <1>4 DEF ReadStatus, At
  <2>2. mt /\ ~ocf
    BY <1>1, <1>4, <2>1 DEF InTaskCode, Irq
  <2>3. CASE tasks[cpu.ptr].status = "EMPTY"
    <3>1. cpu' = WaitOver(cpu) /\ mode' = mode
      BY <1>4, <2>3 DEF ReadStatus
    <3>2. \A s \in Slots : tasks[s].pid = cpu.pid => tasks[s].status = "EMPTY"
      BY <2>1, <2>3 DEF Refinable, PidSafe, Waits, Found, Living
    <3> QED BY <2>1, <2>2, <3>1, <3>2, WaitOverRefines
  <2>4. CASE tasks[cpu.ptr].status # "EMPTY"
    <3>1. mode' = "switch" /\ cpu' = [cpu EXCEPT !.at = "lookup", !.i = FALSE, !.ptr = 0]
      BY <1>4, <2>4 DEF ReadStatus
    <3>2. cpu'.at = "lookup" /\ ~cpu'.i /\ cpu'.pid = cpu.pid
      BY <1>1, <3>1 DEF Contexts
    <3>3. Doing(cpu') = Doing(cpu)
      BY <2>1, <3>2 DEF Doing
    <3> QED BY <1>1, <2>1, <2>2, <3>1, <3>2, <3>3, MachineRefines DEF TaskLabels
  <2> QED BY <2>3, <2>4
<1> QED BY <1>2, <1>3, <1>4

\* The system calls.
LEMMA CallRefines ==
    ASSUME Punctual, Refinable, Safe', InTaskCode, ~Irq, SystemCall
    PROVE  \/ \E priority \in Priorities :
                 \/ Abstract!Spawn(active_task_block, priority)
                 \/ Abstract!SetPriority(active_task_block, priority)
           \/ \E pid \in 0..(MaxPid - 1) : Abstract!Wait(active_task_block, pid)
           \/ Abstract!Exit(active_task_block) \/ Abstract!Release(active_task_block)
           \/ Abstract!Terminate(active_task_block)
PROOF
<1>1. Safe /\ cpu \in Contexts /\ mode = "run" /\ cpu.i /\ cpu.at = "user" /\ mt /\ ~ocf
  BY DEF Refinable, PidSafe, Safe, TypeInv, TypeOK, InTaskCode, Irq, SystemCall, Spawn, spawn_task,
         Exit, Yield, SetPriority, Terminate, Wait, At
<1>2. CASE Spawn
  BY <1>1, <1>2, SpawnRefines DEF Spawn
<1>3. CASE Exit
  BY <1>3, ExitRefines DEF Refinable
<1>4. CASE Yield
  <2>1. cpu' = [cpu EXCEPT !.at = "user", !.i = FALSE] /\ mode' = "switch"
        /\ UNCHANGED <<kernel, globals, frames, sp, mt, ocf, fault>>
    BY <1>4 DEF Yield, k_yield
  <2>2. cpu'.at = "user" /\ ~cpu'.i
    BY <1>1, <2>1 DEF Contexts
  <2>3. Doing(cpu') = Doing(cpu)
    BY <1>1, <2>2 DEF Doing
  <2> QED BY <1>1, <2>1, <2>2, <2>3, MachineRefines DEF TaskLabels
<1>5. CASE SetPriority
  BY <1>1, <1>5, SetPriorityRefines
<1>6. CASE Terminate
  BY <1>1, <1>6, HaltMapped, TaskExecutes DEF Terminate, Abstract!Terminate
<1>7. CASE Wait
  <2>1. PICK pid \in 0..(MaxPid - 1) : cpu' = [cpu EXCEPT !.at = "lookup", !.pid = pid]
    BY <1>7 DEF Wait
  <2>2. UNCHANGED <<kernel, globals, frames, sp, mode, mt, ocf, fault>>
    BY <1>7 DEF Wait
  <2>3. cpu'.at = "lookup" /\ cpu'.i /\ cpu'.pid = pid
    BY <1>1, <2>1 DEF Contexts
  <2>4. Doing(cpu') = Abstract!WaitingFor(pid)
    BY <2>3 DEF Doing, Abstract!WaitingFor
  <2>5. /\ task_bar' = Abstract!With(active_task_block,
                           [task_bar[active_task_block] EXCEPT !.doing = Doing(cpu')])
        /\ UNCHANGED <<running_bar, chosen_bar, order_bar, scheduler_bar, halted_bar, pid_cnt>>
    BY <1>1, <2>2, <2>3, MachineRefines DEF TaskLabels, Resumable
  <2>6. Abstract!Works(active_task_block)
    BY <1>1, TaskExecutes
  <2>7. Abstract!Wait(active_task_block, pid)
    BY <2>4, <2>5, <2>6 DEF Abstract!Wait
  <2> QED BY <2>7
<1> QED BY <1>2, <1>3, <1>4, <1>5, <1>6, <1>7 DEF SystemCall

\* Task code.
LEMMA TaskCodeRefines ==
    ASSUME Punctual, Refinable, Safe', InTaskCode, Next
    PROVE  Abstract!Next \/ UNCHANGED Abstract!vars
PROOF
<1>1. active_task_block \in Abstract!Slots /\ Safe
  BY TaskExecutes DEF Refinable, PidSafe
<1>2. \/ ~Irq /\ SystemCall
      \/ LookUp \/ Scan \/ (~Irq /\ ReadStatus)
      \/ Irq /\ TimerISR
      \/ TimerMatch
  BY Steps DEF InTaskCode, At, Resumable
<1>3. CASE ~Irq /\ SystemCall
  BY <1>1, <1>3, CallRefines DEF Abstract!Next
<1>4. CASE LookUp \/ Scan \/ (~Irq /\ ReadStatus)
  BY <1>1, <1>4, WaitStepRefines DEF Abstract!Next
<1>5. CASE Irq /\ TimerISR
  BY <1>1, <1>5, PreemptRefines DEF Abstract!Next
<1>6. CASE TimerMatch
  <2>1. UNCHANGED <<kernel, globals, frames, sp, cpu, mode, mt, fault>>
    BY <1>6 DEF TimerMatch
  <2>2. cpu'.at \in TaskLabels /\ mode' = "run" /\ Doing(cpu') = Doing(cpu)
    BY <2>1 DEF InTaskCode, Resumable, TaskLabels
  <2> QED BY <1>1, <2>1, <2>2, MachineRefines DEF InTaskCode
<1> QED BY <1>2, <1>3, <1>4, <1>5, <1>6

\* The tasks say the same after a step that neither makes, ends nor numbers one and leaves
\* every context saying what it said.
LEMMA TasksUntouched ==
    ASSUME Punctual, Safe, Safe', Executing, Executing', TasksNow' = TasksNow,
           \A s \in Slots : /\ tasks'[s].pid = tasks[s].pid
                            /\ tasks'[s].priority = tasks[s].priority,
           \A s \in TasksNow : Doing(TaskContext(s))' = Doing(TaskContext(s))
    PROVE  task_bar' = task_bar
PROOF
<1>1. ContextsPlaced /\ ContextsPlaced'
  BY SafePlaced, NextPlaced
<1>2. \A s \in TasksNow : s \in Slots
  BY DEF TasksNow
<1>3. ASSUME NEW s \in TasksNow PROVE View(s)' = View(s)
  BY <1>1, <1>2, ViewKept
<1> QED BY <1>3, TaskBarKept

\* The switch from a task to the scheduler puts the task's context on its stack.
LEMMA LeavingRefines ==
    ASSUME Punctual, Safe, Safe', Leaving, Next PROVE UNCHANGED Abstract!vars
PROOF
<1> DEFINE a == active_task_block
<1>1. /\ Resumed' /\ ContextsStay(a, Scheduler) /\ frames'[Saved(a)] = cpu
  BY LeavingStep DEF Safe
<1>2. /\ UNCHANGED <<tasks, task_index_queue, queue_position, active_task_block, pid_cnt,
                     scheduler_task_sp>>
      /\ \A s \in Slots \ {a, Scheduler} : Saved(s) \in DOMAIN frames =>
            frames'[Saved(s)] = frames[Saved(s)]
  BY <1>1 DEF ContextsStay, kernel
<1>3. /\ TasksNow = LivingSlots /\ Mapping(tasks_max, tasks_max, Scheduler)
      /\ TasksNow' = LivingSlots' /\ Mapping(tasks_max, tasks_max, Scheduler)'
      /\ Executing /\ Executing' /\ ContextsPlaced
  BY <1>1, SafeMapped, NextMapped, SafePlaced DEF Mapped, Executing, Leaving, Resumed
<1>4. TasksNow' = TasksNow
  BY <1>2, <1>3 DEF LivingSlots
<1>5. ~TaskCodeAt' /\ (TaskCodeAt <=> cpu.at # "dead")
  BY <1>1 DEF Leaving, Resumed, TaskCodeAt, TaskLabels
<1>6. ASSUME NEW s \in TasksNow PROVE TaskContext(s)' = TaskContext(s)
  <2>1. s \in Slots /\ s # Scheduler /\ (s = a => cpu.at # "dead")
    BY <1>3 DEF LivingSlots, Leaving, TaskSide, Settled, OneScheduler
  <2>2. TaskContext(s)' = frames'[Saved(s)]
    BY <1>5 DEF TaskContext
  <2>3. CASE s = a
    BY <1>1, <1>5, <2>1, <2>2, <2>3 DEF TaskContext
  <2>4. CASE s # a
    BY <1>2, <1>3, <2>1, <2>2, <2>4 DEF ContextsPlaced, TaskContext
  <2> QED BY <2>3, <2>4
<1>7. ASSUME NEW s \in TasksNow PROVE Doing(TaskContext(s))' = Doing(TaskContext(s))
  BY <1>6 DEF Doing
<1>8. task_bar' = task_bar
  <2>1. \A s \in Slots : tasks'[s].pid = tasks[s].pid /\ tasks'[s].priority = tasks[s].priority
    BY <1>2
  <2> QED BY <1>3, <1>4, <1>7, <2>1, TasksUntouched
<1>9. UNCHANGED <<running_bar, chosen_bar, scheduler_bar, halted_bar>>
  BY <1>2, <1>3 DEF Mapping, Scheduler
<1> QED BY <1>2, <1>8, <1>9, OrderBarKept DEF Abstract!vars

\* The switch from the scheduler to a task takes the task's context from its stack.
LEMMA HandingOverRefines ==
    ASSUME Punctual, Safe, Safe', HandingOver, Next PROVE UNCHANGED Abstract!vars
PROOF
<1> DEFINE a == active_task_block
<1>1. Entering' /\ ContextsStay(Scheduler, a) /\ cpu' = frames[Saved(a)]
  BY HandingOverStep DEF Safe
<1>2. /\ UNCHANGED <<tasks, task_index_queue, queue_position, active_task_block, pid_cnt,
                     scheduler_task_sp>>
      /\ \A s \in Slots \ {a, Scheduler} : Saved(s) \in DOMAIN frames =>
            frames'[Saved(s)] = frames[Saved(s)]
  BY <1>1 DEF ContextsStay, kernel
<1>3. /\ TasksNow = LivingSlots /\ Mapping(tasks_max, a, Scheduler)
      /\ TasksNow' = LivingSlots' /\ Mapping(tasks_max, active_task_block, Scheduler)'
      /\ Executing /\ Executing' /\ ContextsPlaced
  BY <1>1, SafeMapped, NextMapped, SafePlaced DEF Mapped, Executing, Entering, HandingOver
<1>4. TasksNow' = TasksNow
  BY <1>2, <1>3 DEF LivingSlots
<1>5. ~TaskCodeAt /\ TaskCodeAt'
  BY <1>1 DEF Entering, HandingOver, TaskCodeAt, TaskLabels, Resumable
<1>6. ASSUME NEW s \in TasksNow PROVE TaskContext(s)' = TaskContext(s)
  <2>1. s \in Slots /\ s # Scheduler
    BY <1>3 DEF LivingSlots, HandingOver, SchedulerSide, Settled, OneScheduler
  <2>2. TaskContext(s) = frames[Saved(s)] /\ Saved(s) \in DOMAIN frames
    BY <1>3, <1>5 DEF TaskContext, ContextsPlaced
  <2>3. TaskContext(s)' = IF s = a THEN cpu' ELSE frames'[Saved(s)]
    BY <1>2, <1>5 DEF TaskContext
  <2> QED BY <1>1, <1>2, <2>1, <2>2, <2>3
<1>7. ASSUME NEW s \in TasksNow PROVE Doing(TaskContext(s))' = Doing(TaskContext(s))
  BY <1>6 DEF Doing
<1>8. task_bar' = task_bar
  <2>1. \A s \in Slots : tasks'[s].pid = tasks[s].pid /\ tasks'[s].priority = tasks[s].priority
    BY <1>2
  <2> QED BY <1>3, <1>4, <1>7, <2>1, TasksUntouched
<1>9. UNCHANGED <<running_bar, chosen_bar, scheduler_bar, halted_bar>>
  BY <1>2, <1>3 DEF Mapping, Scheduler
<1> QED BY <1>2, <1>8, <1>9, OrderBarKept DEF Abstract!vars

\* The chosen task goes on where it was.
LEMMA EnteringRefines ==
    ASSUME Punctual, Safe, Safe', Entering, Next PROVE Abstract!Resume
PROOF
<1> DEFINE a == active_task_block
<1>1. InTaskCode' /\ cpu \in Contexts /\ a \in Slots
  BY EnteringStep DEF Safe, TypeInv, TypeOK
<1>2. /\ UNCHANGED <<tasks, task_index_queue, queue_position, active_task_block, pid_cnt,
                     scheduler_task_sp, frames>>
      /\ cpu' = [cpu EXCEPT !.i = TRUE]
  BY Steps DEF Entering, At, Irq, MatchPossible, Punctual, Return, kernel, globals
<1>3. /\ TasksNow = LivingSlots /\ Mapping(tasks_max, a, Scheduler)
      /\ TasksNow' = LivingSlots' /\ Mapping(active_task_block, tasks_max, Scheduler)'
      /\ Executing /\ Executing'
  BY <1>1, SafeMapped, NextMapped DEF Mapped, Executing, Entering, InTaskCode
<1>4. TasksNow' = TasksNow
  BY <1>2, <1>3 DEF LivingSlots
<1>5. cpu'.at = cpu.at /\ cpu'.pid = cpu.pid
  BY <1>1, <1>2 DEF Contexts
<1>6. ASSUME NEW s \in TasksNow PROVE Doing(TaskContext(s))' = Doing(TaskContext(s))
  <2>1. TaskContext(s)' = IF TaskCodeAt /\ s = a THEN cpu' ELSE frames[Saved(s)]
    BY <1>2, <1>5 DEF TaskContext, TaskCodeAt
  <2> QED BY <1>5, <2>1 DEF Doing, TaskContext
<1>7. task_bar' = task_bar
  <2>1. \A s \in Slots : tasks'[s].pid = tasks[s].pid /\ tasks'[s].priority = tasks[s].priority
    BY <1>2
  <2> QED BY <1>3, <1>4, <1>6, <2>1, TasksUntouched
<1>8. /\ chosen_bar = a /\ running_bar' = a /\ chosen_bar' = tasks_max
      /\ UNCHANGED scheduler_bar /\ halted_bar = FALSE /\ halted_bar' = FALSE
  BY <1>2, <1>3 DEF Mapping, Scheduler
<1>9. a # tasks_max
  BY <1>1, TasksMaxAssumption DEF Slots
<1> QED BY <1>2, <1>7, <1>8, <1>9, OrderBarKept DEF Abstract!Resume, Abstract!Nobody

\* While the scheduler works the tasks' contexts stay where they are.
LEMMA SchedulerUnseen ==
    ASSUME Punctual, Safe, Safe', Executing, Executing', ~TaskCodeAt, ~TaskCodeAt', UNCHANGED frames,
           TasksNow = LivingSlots, TasksNow' = LivingSlots',
           \A s \in Slots : /\ s \in LivingSlots' <=> s \in LivingSlots
                            /\ tasks'[s].pid = tasks[s].pid
                            /\ tasks'[s].priority = tasks[s].priority
    PROVE  task_bar' = task_bar
PROOF
<1>1. TasksNow' = TasksNow
  BY DEF LivingSlots
<1>2. ASSUME NEW s \in TasksNow PROVE Doing(TaskContext(s))' = Doing(TaskContext(s))
  <2>1. TaskContext(s)' = TaskContext(s)
    BY DEF TaskContext
  <2> QED BY <2>1 DEF Doing
<1> QED BY <1>1, <1>2, TasksUntouched

\* The phases of the scheduler's loop, between which a task that is alive stays so.
InItsLoop == Resumed \/ InLoop \/ InHandle \/ InSelect \/ InPrepare \/ HandingOver

\* What the mapping says in them.
LoopMapping ==
    /\ TasksNow = LivingSlots /\ Executing /\ ~TaskCodeAt
    /\ running_bar = tasks_max /\ scheduler_bar = Scheduler /\ halted_bar = FALSE
    /\ chosen_bar = IF InPrepare \/ HandingOver THEN active_task_block ELSE tasks_max
    /\ Scheduler \in Slots /\ Scheduler # tasks_max

LEMMA InItsLoopMapped == Safe /\ InItsLoop => LoopMapping
PROOF
<1> SUFFICES ASSUME Safe, InItsLoop PROVE LoopMapping
  OBVIOUS
<1>1. Mapped
  BY SafeMapped
<1>2. Executing /\ ~TaskCodeAt
  BY DEF InItsLoop, Resumed, InLoop, InHandle, InSelect, InPrepare, HandingOver, Executing,
         TaskCodeAt, TaskLabels
<1>3. Scheduler \in Slots
  BY DEF InItsLoop, Resumed, InLoop, InHandle, InSelect, InPrepare, HandingOver, SchedulerSide,
         Settled, OneScheduler
<1>4. Scheduler # tasks_max
  BY <1>3, TasksMaxAssumption DEF Slots
<1>5. InPrepare \/ HandingOver => ~(Resumed \/ InLoop \/ InHandle \/ InSelect)
  BY DEF Resumed, InLoop, InHandle, InSelect, InPrepare, HandingOver
<1> QED BY <1>1, <1>2, <1>3, <1>4, <1>5 DEF InItsLoop, Mapped, Mapping, LoopMapping

LEMMA NextInItsLoopMapped == Safe' /\ InItsLoop' => LoopMapping'
PROOF BY InItsLoopMapped, PTL

\* A step within the loop that chooses nobody is not seen.
LEMMA LoopUnseen ==
    ASSUME Punctual, Safe, Safe', InItsLoop, InItsLoop',
           InPrepare \/ HandingOver <=> InPrepare' \/ HandingOver',
           UNCHANGED <<task_index_queue, queue_position, active_task_block, pid_cnt,
                       scheduler_task_sp, frames>>,
           \A s \in Slots : /\ s \in LivingSlots' <=> s \in LivingSlots
                            /\ tasks'[s].pid = tasks[s].pid
                            /\ tasks'[s].priority = tasks[s].priority
    PROVE  UNCHANGED Abstract!vars
PROOF
<1>1. /\ TasksNow = LivingSlots /\ Executing /\ ~TaskCodeAt
      /\ TasksNow' = LivingSlots' /\ Executing' /\ ~TaskCodeAt'
      /\ UNCHANGED <<running_bar, chosen_bar, scheduler_bar, halted_bar>>
  BY InItsLoopMapped, NextInItsLoopMapped DEF LoopMapping, Scheduler
<1>2. task_bar' = task_bar
  BY <1>1, SchedulerUnseen
<1> QED BY <1>1, <1>2, OrderBarKept DEF Abstract!vars

\* The scheduler comes back and masks the timer; a compare match is noted.
LEMMA QuietRefines ==
    ASSUME Punctual, Safe, Safe', InItsLoop, ~HandingOver, Return \/ MaskTimer \/ TimerMatch, Next
    PROVE  UNCHANGED Abstract!vars
PROOF
<1>1. /\ UNCHANGED <<tasks, task_index_queue, queue_position, active_task_block, pid_cnt,
                     scheduler_task_sp, frames>>
      /\ \A s \in Slots : /\ s \in LivingSlots' <=> s \in LivingSlots
                          /\ tasks'[s].pid = tasks[s].pid
                          /\ tasks'[s].priority = tasks[s].priority
  BY DEF Return, MaskTimer, TimerMatch, kernel, globals, LivingSlots
<1>2. InItsLoop' /\ (InPrepare \/ HandingOver <=> InPrepare' \/ HandingOver')
  <2>1. CASE Resumed
    <3>1. InLoop'
      BY <2>1, ResumedStep DEF Safe, InMain, Resumed
    <3> QED BY <2>1, <3>1 DEF InItsLoop, Resumed, InLoop, InPrepare, HandingOver
  <2>2. CASE InLoop
    <3>1. InHandle'
      BY <2>2, LoopStep DEF Safe
    <3> QED BY <2>2, <3>1 DEF InItsLoop, InLoop, InHandle, InPrepare, HandingOver
  <2>3. CASE InHandle \/ InSelect \/ InPrepare
    <3>1. TimerMatch
      BY <2>3 DEF InHandle, InSelect, InPrepare, Return, MaskTimer, At
    <3>2. InHandle' \/ InSelect' \/ InPrepare'
      BY <2>3, <3>1, MatchStep DEF Safe
    <3> QED
      BY <2>3, <3>1, <3>2 DEF TimerMatch, InItsLoop, InHandle, InSelect, InPrepare, HandingOver
  <2> QED BY <2>1, <2>2, <2>3 DEF InItsLoop
<1> QED BY <1>1, <1>2, LoopUnseen

\* handle_previous_task marks the task READY, or halts because it misreads its stack.
LEMMA HandleRefines ==
    ASSUME Punctual, Safe, Safe', InHandle, handle_previous_task, Next
    PROVE  Abstract!Reject \/ UNCHANGED Abstract!vars
PROOF
<1> DEFINE a == active_task_block
           handled ==
               CASE tasks[a].status = "SCHEDULER" ->
                       [tasks EXCEPT ![a].task_sp_adr = scheduler_task_sp]
                 [] tasks[a].status = "RUNNING" -> Suspended(tasks, a, prev_task_sp)
                 [] OTHER -> tasks
<1>1. /\ tasks \in [Slots -> Tasks] /\ a \in Slots /\ cpu \in Contexts /\ mode = "run"
      /\ InItsLoop /\ ~InPrepare /\ ~HandingOver
  BY DEF Safe, TypeInv, TypeOK, InHandle, InItsLoop, InPrepare, HandingOver
<1>2. /\ running_bar = tasks_max /\ chosen_bar = tasks_max /\ scheduler_bar # tasks_max
  BY <1>1, InItsLoopMapped DEF LoopMapping
<1>3. CASE mode' = "halted"
  <2>1. PICK reason \in Faults : FATAL_ERROR(reason)
    BY <1>1, <1>3 DEF handle_previous_task, Faults
  <2> QED BY <1>1, <1>2, <2>1, HaltMapped DEF Abstract!Reject, Abstract!Nobody
<1>4. CASE mode' # "halted"
  <2>1. /\ tasks' = handled
        /\ cpu' = [cpu EXCEPT !.at = "sched_select"]
        /\ UNCHANGED <<task_index_queue, queue_position, active_task_block, pid_cnt,
                       globals, frames, sp, mode, mt, ocf, fault>>
    BY <1>4 DEF handle_previous_task, FATAL_ERROR
  <2>2. \A s \in Slots : /\ handled[s].pid = tasks[s].pid
                         /\ handled[s].priority = tasks[s].priority
                         /\ handled[s].status \in {"READY", "RUNNING"} <=>
                               tasks[s].status \in {"READY", "RUNNING"}
    <3>1. CASE tasks[a].status = "SCHEDULER"
      <4>1. handled = [tasks EXCEPT ![a].task_sp_adr = scheduler_task_sp]
        BY <3>1
      <4> HIDE DEF handled
      <4> QED BY <1>1, <4>1 DEF Tasks
    <3>2. CASE tasks[a].status = "RUNNING"
      <4>1. handled = [tasks EXCEPT ![a].status = "READY", ![a].task_sp_adr = prev_task_sp]
        BY <3>2 DEF Suspended
      <4> HIDE DEF handled
      <4> QED BY <1>1, <3>2, <4>1 DEF Tasks
    <3>3. CASE tasks[a].status = "EMPTY"
      <4>1. handled = tasks
        BY <3>3
      <4> HIDE DEF handled
      <4> QED BY <4>1
    <3> QED BY <3>1, <3>2, <3>3 DEF InHandle, Previous
  <2> HIDE DEF handled
  <2>3. cpu'.at = "sched_select"
    BY <1>1, <2>1 DEF Contexts
  <2>4. InItsLoop' /\ ~InPrepare' /\ ~HandingOver'
    <3>1. InHandle' \/ InSelect' \/ InPrepare' \/ Ended'
      BY HandleStep DEF Safe
    <3> QED
      BY <1>4, <2>3, <3>1 DEF InItsLoop, InHandle, InSelect, InPrepare, HandingOver, Ended
  <2>5. \A s \in Slots : /\ s \in LivingSlots' <=> s \in LivingSlots
                         /\ tasks'[s].pid = tasks[s].pid
                         /\ tasks'[s].priority = tasks[s].priority
    BY <2>1, <2>2 DEF LivingSlots
  <2> QED BY <1>1, <2>1, <2>4, <2>5, LoopUnseen DEF globals
<1> QED BY <1>3, <1>4

\* prepare_next_task marks the chosen task RUNNING.
LEMMA PrepareRefines ==
    ASSUME Punctual, Safe, Safe', InPrepare, prepare_next_task, Next
    PROVE  UNCHANGED Abstract!vars
PROOF
<1> DEFINE a == active_task_block
<1>1. /\ tasks \in [Slots -> Tasks] /\ a \in Slots /\ cpu \in Contexts
      /\ tasks[a].status = "READY" /\ tasks[a].task_sp_adr = Saved(a) /\ InItsLoop
  BY DEF Safe, TypeInv, TypeOK, InItsLoop, InPrepare, SchedulerSide, Settled, ReadySaved
<1>2. /\ tasks' = [tasks EXCEPT ![a].status = "RUNNING"]
      /\ mode' = "switch"
      /\ UNCHANGED <<task_index_queue, queue_position, active_task_block, pid_cnt, globals, frames>>
  BY <1>1, SavedIs DEF prepare_next_task, k_yield
<1>3. HandingOver'
  BY <1>2, PrepareStep DEF Safe, InHandle, InSelect, InPrepare
<1>4. \A s \in Slots : /\ s \in LivingSlots' <=> s \in LivingSlots
                       /\ tasks'[s].pid = tasks[s].pid
                       /\ tasks'[s].priority = tasks[s].priority
  BY <1>1, <1>2 DEF LivingSlots, Tasks
<1> QED BY <1>1, <1>2, <1>3, <1>4, LoopUnseen DEF InItsLoop, globals

\* select_next_task serves the last of n tasks of a list: every living task of a listed
\* priority in ascending order if the round is new, what the queue still holds if it is not.
ListedSlots == {s \in LivingSlots : tasks[s].priority < UINT8_MAX}

Serves(n, list) ==
    /\ queue_position' = n - 1
    /\ \A k \in 0..(n - 1) : task_index_queue'[k] = list[k]
    /\ active_task_block' = list[n - 1]
    /\ IF queue_position = 0
       THEN /\ {list[k] : k \in DOMAIN list} = ListedSlots
            /\ \A j, k \in DOMAIN list :
                  j < k => /\ list[j] # list[k]
                           /\ tasks[list[j]].priority =< tasks[list[k]].priority
       ELSE n = queue_position /\ \A k \in 0..(n - 1) : list[k] = task_index_queue[k]
    /\ cpu' = [cpu EXCEPT !.at = "sched_prepare"]
    /\ UNCHANGED <<tasks, pid_cnt, scheduler_task_sp, frames, mode>>

LEMMA RoundIs ==
    ASSUME Safe, InSelect, select_next_task, ~(queue_position = 0 /\ num_prioritized(tasks) = 0)
    PROVE  \E n \in 1..tasks_max : \E list \in [0..(n - 1) -> LivingSlots] : Serves(n, list)
PROOF
<1>1. /\ tasks \in [Slots -> Tasks] /\ 0 \in Slots
      /\ task_index_queue \in [0..tasks_max -> Slots]
      /\ queue_position \in Nat /\ queue_position =< tasks_max
      /\ Prioritized(tasks)
  <2>1. /\ tasks \in [Slots -> Tasks] /\ queue_position \in Slots
        /\ task_index_queue \in [0..tasks_max -> Slots]
    BY DEF Safe, TypeInv, TypeOK
  <2>2. Prioritized(tasks)
    BY <2>1, UInt8Assumption DEF Prioritized, Tasks
  <2> QED BY <2>1, <2>2, TasksMaxAssumption DEF Slots
<1>2. Schedulable(tasks) = ListedSlots /\ ListedSlots \subseteq LivingSlots
  <2>1. \A s \in Slots : tasks[s].status # "RUNNING"
    BY DEF InSelect, NoneRunning, Running
  <2> QED BY <1>1, <2>1 DEF LivingSlots, ListedSlots, Schedulable
<1>3. num_prioritized(tasks) \in 0..tasks_max
  BY SchedulableFinite
<1>4. CASE queue_position = 0
  <2> DEFINE n == num_prioritized(tasks)
             queue == prioritize_tasks(tasks, task_index_queue)
             list == [k \in 0..(n - 1) |-> queue[k]]
  <2>0. n \in 1..tasks_max
    BY <1>3, <1>4, TasksMaxAssumption
  <2>1. /\ task_index_queue' = queue /\ queue_position' = n - 1 /\ active_task_block' = queue[n - 1]
        /\ cpu' = [cpu EXCEPT !.at = "sched_prepare"]
        /\ UNCHANGED <<tasks, pid_cnt, scheduler_task_sp, frames, mode>>
    BY <1>4 DEF select_next_task
  <2>2. \A k \in 0..(n - 1) : queue[k] \in ListedSlots /\ PlaceOf(tasks, queue[k]) = k
    BY <1>1, <1>2, PrioritizedList
  <2>3. \A t \in ListedSlots : \E k \in 0..(n - 1) : queue[k] = t
    BY <1>1, <1>2, PrioritizedAll
  <2>4. n \in Int /\ n - 1 \in 0..(n - 1) /\ n \in 1..tasks_max
    BY <2>0, TasksMaxAssumption
  <2> HIDE DEF n, queue
  <2>5. {list[k] : k \in DOMAIN list} = ListedSlots /\ list \in [0..(n - 1) -> LivingSlots]
    BY <1>2, <2>2, <2>3
  <2>6. ASSUME NEW j \in 0..(n - 1), NEW k \in 0..(n - 1), j < k
        PROVE  queue[j] # queue[k] /\ tasks[queue[j]].priority =< tasks[queue[k]].priority
    <3>1. PlaceOf(tasks, queue[j]) = j /\ PlaceOf(tasks, queue[k]) = k /\ ~(k < j)
      BY <2>2, <2>6
    <3>2. queue[j] \in Schedulable(tasks) /\ queue[k] \in Schedulable(tasks)
      BY <1>2, <2>2
    <3>3. ~Precedes(tasks, queue[k], queue[j])
      BY <1>1, <3>1, <3>2, PlaceMonotone
    <3>4. tasks[queue[j]].priority \in Nat /\ tasks[queue[k]].priority \in Nat
      BY <1>1, <3>2 DEF Prioritized, Schedulable
    <3> QED BY <2>6, <3>1, <3>3, <3>4 DEF Precedes
  <2>7. \A k \in 0..(n - 1) : task_index_queue'[k] = list[k]
    BY <2>1
  <2>8. active_task_block' = list[n - 1]
    BY <2>1, <2>4
  <2>9. \A j, k \in DOMAIN list :
           j < k => list[j] # list[k] /\ tasks[list[j]].priority =< tasks[list[k]].priority
    BY <2>6
  <2> HIDE DEF list
  <2>10. Serves(n, list)
    BY <1>4, <2>1, <2>5, <2>7, <2>8, <2>9 DEF Serves
  <2> QED BY <2>4, <2>5, <2>10
<1>5. CASE queue_position # 0
  <2> DEFINE n == queue_position
             list == [k \in 0..(n - 1) |-> task_index_queue[k]]
  <2>1. /\ task_index_queue' = task_index_queue /\ queue_position' = n - 1
        /\ active_task_block' = task_index_queue[n - 1]
        /\ cpu' = [cpu EXCEPT !.at = "sched_prepare"]
        /\ UNCHANGED <<tasks, pid_cnt, scheduler_task_sp, frames, mode>>
    BY <1>5 DEF select_next_task
  <2>2. n \in 1..tasks_max /\ n - 1 \in 0..(n - 1)
    BY <1>1, <1>5
  <2>3. \A k \in 0..(n - 1) : k \in 0..tasks_max
    BY <1>1, TasksMaxAssumption
  <2>4. \A k \in 0..(n - 1) : task_index_queue[k] \in LivingSlots
    BY <1>1, <2>3 DEF LivingSlots, InSelect, SchedulerSide, Settled, TailReady
  <2>5. list \in [0..(n - 1) -> LivingSlots]
    BY <2>4
  <2>6. \A k \in 0..(n - 1) : task_index_queue'[k] = list[k] /\ list[k] = task_index_queue[k]
    BY <2>1
  <2>7. active_task_block' = list[n - 1]
    BY <2>1, <2>2
  <2> HIDE DEF list
  <2>8. Serves(n, list)
    BY <1>5, <2>1, <2>6, <2>7 DEF Serves
  <2> QED BY <2>2, <2>5, <2>8
<1> QED BY <1>4, <1>5

\* select_next_task takes the next task of the round, or the first of a new one,
LEMMA ChooseRefines ==
    ASSUME Punctual, Safe, Safe', InSelect, select_next_task, Next,
           ~(queue_position = 0 /\ num_prioritized(tasks) = 0)
    PROVE  Abstract!Choose
PROOF
<1>1. PICK n \in 1..tasks_max : \E list \in [0..(n - 1) -> LivingSlots] : Serves(n, list)
  BY RoundIs
<1>2. PICK list \in [0..(n - 1) -> LivingSlots] : Serves(n, list)
  BY <1>1
<1> USE DEF Serves
<1>3. cpu'.at = "sched_prepare" /\ mode = "run" /\ cpu.at = "sched_select"
  BY <1>2 DEF Safe, TypeInv, TypeOK, Contexts, InSelect
<1>4. InPrepare'
  BY <1>2, <1>3, SelectStep DEF Safe, Ended, InHandle, InSelect
<1>5. LoopMapping /\ LoopMapping' /\ ~InPrepare /\ ~HandingOver
  BY <1>3, <1>4, InItsLoopMapped, NextInItsLoopMapped DEF InItsLoop, InPrepare, HandingOver
<1>6. task_bar' = task_bar
  <2>1. \A s \in Slots : /\ s \in LivingSlots' <=> s \in LivingSlots
                         /\ tasks'[s].pid = tasks[s].pid
                         /\ tasks'[s].priority = tasks[s].priority
    BY <1>2 DEF LivingSlots
  <2> QED BY <1>2, <1>5, <2>1, SchedulerUnseen DEF LoopMapping
<1>7. DOMAIN task_bar = LivingSlots /\ \A s \in LivingSlots : task_bar[s].priority = tasks[s].priority
  BY <1>5, TaskBarIs DEF LoopMapping, View
<1>8. Abstract!Rounds(list)
  <2>1. CASE queue_position = 0
    <3>1. Abstract!Round(list)
      <4>1. Abstract!Listed = ListedSlots
        BY <1>7 DEF Abstract!Listed, ListedSlots
      <4> QED BY <1>2, <1>7, <2>1, <4>1 DEF Abstract!Round
    <3> QED BY <2>1, <3>1, OrderBarEmpty DEF Abstract!Rounds
  <2>2. CASE queue_position # 0
    <3>1. n = queue_position /\ \A k \in 0..(n - 1) : list[k] = task_index_queue[k]
      BY <1>2, <2>2
    <3>2. list = order_bar
      BY <3>1 DEF order_bar
    <3>3. 0 \in DOMAIN order_bar
      BY <3>1 DEF order_bar
    <3>4. order_bar # Abstract!NoRound
      BY <3>3 DEF Abstract!NoRound
    <3> QED BY <3>2, <3>4 DEF Abstract!Rounds
  <2> QED BY <2>1, <2>2
<1>9. order_bar' = [k \in 0..(n - 2) |-> list[k]]
  <2>1. queue_position' - 1 = n - 2 /\ \A k \in 0..(n - 2) : k \in 0..(n - 1)
    BY <1>2
  <2>2. order_bar' = [k \in 0..(n - 2) |-> task_index_queue'[k]]
    BY <2>1 DEF order_bar
  <2> QED BY <1>2, <2>1, <2>2
<1>10. list \in [0..(n - 1) -> DOMAIN task_bar] /\ n \in 1..tasks_max
  BY <1>7
<1>11. /\ running_bar = tasks_max /\ running_bar' = tasks_max
       /\ chosen_bar = tasks_max /\ chosen_bar' = list[n - 1]
       /\ scheduler_bar # tasks_max /\ scheduler_bar' = scheduler_bar
       /\ halted_bar = FALSE /\ halted_bar' = FALSE /\ pid_cnt' = pid_cnt
  BY <1>2, <1>4, <1>5 DEF LoopMapping, Scheduler
<1> QED BY <1>6, <1>8, <1>9, <1>10, <1>11 DEF Abstract!Choose, Abstract!Nobody

\* or halts because it finds none.
LEMMA SelectRefines ==
    ASSUME Punctual, Safe, Safe', InSelect, select_next_task, Next
    PROVE  Abstract!Choose \/ Abstract!Reject
PROOF
<1>1. CASE queue_position = 0 /\ num_prioritized(tasks) = 0
  <2>1. FATAL_ERROR("no_ready_task")
    BY <1>1 DEF select_next_task
  <2>2. mode = "run" /\ cpu \in Contexts /\ InItsLoop /\ ~InPrepare /\ ~HandingOver
    BY DEF Safe, TypeInv, TypeOK, InSelect, InItsLoop, InPrepare, HandingOver
  <2>3. running_bar = tasks_max /\ chosen_bar = tasks_max /\ scheduler_bar # tasks_max
    BY <2>2, InItsLoopMapped DEF LoopMapping
  <2> QED BY <2>1, <2>2, <2>3, HaltMapped DEF Abstract!Reject, Abstract!Nobody
<1>2. CASE ~(queue_position = 0 /\ num_prioritized(tasks) = 0)
  BY <1>2, ChooseRefines
<1> QED BY <1>1, <1>2

-----------------------------------------------------------------------------
(* The theorem *)

\* The empty table is the table without tasks,
LEMMA InitRefines == Init => Abstract!Init
PROOF
<1> SUFFICES ASSUME Init PROVE Abstract!Init
  OBVIOUS
<1>1. Safe /\ InMain
  BY InitSafe, InitPhase
<1>2. TasksNow = {} /\ Mapping(tasks_max, tasks_max, tasks_max)
  BY <1>1, SafeMapped DEF Mapped
<1>3. task_bar = [s \in {} |-> 0]
  BY <1>2, TaskBarIs
<1>4. order_bar = Abstract!NoRound /\ pid_cnt = 0
  BY OrderBarEmpty DEF Init
<1> QED BY <1>2, <1>3, <1>4 DEF Abstract!Init, Abstract!Nobody, Mapping

\* nothing changes when nothing does,
LEMMA StutterRefines == UNCHANGED vars => UNCHANGED Abstract!vars
PROOF
<1> SUFFICES ASSUME UNCHANGED vars PROVE UNCHANGED Abstract!vars
  OBVIOUS
<1>1. UNCHANGED <<tasks, task_index_queue, queue_position, active_task_block, pid_cnt,
                  prev_task_sp, next_task_sp, scheduler_task_sp, frames, cpu, mode>>
  BY DEF vars, kernel, globals, machine
<1>2. TasksNow' = TasksNow
  BY <1>1 DEF TasksNow, InTaskSlot, IsScheduler
<1>3. \A s \in TasksNow : View(s)' = View(s)
  BY <1>1 DEF View, Doing, Context, ContextPlace, TaskCodeAt, Lost
<1>4. task_bar' = task_bar
  BY <1>2, <1>3, TaskBarKept
<1>5. UNCHANGED <<running_bar, chosen_bar, scheduler_bar, halted_bar>>
  BY <1>1 DEF running_bar, chosen_bar, scheduler_bar, halted_bar, TaskCodeAt
<1> QED BY <1>1, <1>4, <1>5, OrderBarKept DEF Abstract!vars

\* and every step of the kernel is a step of its tasks or none.
LEMMA StepRefines ==
    ASSUME Punctual, Refinable, Refinable', [Next]_vars
    PROVE  [Abstract!Next]_(Abstract!vars)
PROOF
<1>1. Safe /\ Safe'
  BY DEF Refinable, PidSafe
<1>2. CASE UNCHANGED vars
  BY <1>2, StutterRefines
<1>3. CASE Next
  <2>1. CASE InMain
    BY <1>1, <1>3, <2>1, MainRefines DEF Abstract!Next
  <2>2. CASE InIdle
    BY <1>1, <1>3, <2>2, IdleRefines DEF Abstract!Next
  <2>3. CASE InStart
    BY <1>1, <1>3, <2>3, StartRefines
  <2>4. CASE InTaskCode
    BY <1>1, <1>3, <2>4, TaskCodeRefines
  <2>5. CASE Leaving
    BY <1>1, <1>3, <2>5, LeavingRefines
  <2>6. CASE Entering
    BY <1>1, <1>3, <2>6, EnteringRefines DEF Abstract!Next
  <2>7. CASE HandingOver
    BY <1>1, <1>3, <2>7, HandingOverRefines
  <2>8. CASE Resumed \/ InLoop
    <3>1. Return \/ MaskTimer
      <4>1. TypeInv /\ (Resumed => pid_cnt # 0)
        BY <1>1, <2>8 DEF Safe, InMain, Resumed
      <4> QED BY <1>3, <2>8, <4>1, ResumedStep, LoopStep
    <3>2. InItsLoop /\ ~HandingOver
      BY <2>8 DEF InItsLoop, Resumed, InLoop, HandingOver
    <3> QED BY <1>1, <1>3, <3>1, <3>2, QuietRefines
  <2>9. CASE InHandle \/ InSelect \/ InPrepare
    <3>1. \/ InHandle /\ handle_previous_task
          \/ InSelect /\ select_next_task
          \/ InPrepare /\ prepare_next_task
          \/ TimerMatch
      BY <1>3, <2>9, Steps DEF InHandle, InSelect, InPrepare, At, Irq
    <3>2. InItsLoop /\ ~HandingOver
      BY <2>9 DEF InItsLoop, InHandle, InSelect, InPrepare, HandingOver
    <3>3. CASE TimerMatch
      BY <1>1, <1>3, <3>2, <3>3, QuietRefines
    <3>4. CASE InHandle /\ handle_previous_task
      BY <1>1, <1>3, <3>4, HandleRefines DEF Abstract!Next
    <3>5. CASE InSelect /\ select_next_task
      BY <1>1, <1>3, <3>5, SelectRefines DEF Abstract!Next
    <3>6. CASE InPrepare /\ prepare_next_task
      BY <1>1, <1>3, <3>6, PrepareRefines
    <3> QED BY <3>1, <3>3, <3>4, <3>5, <3>6
  <2>10. CASE Ended
    <3>1. UNCHANGED vars
      BY <1>3, <2>10, Steps DEF Ended, At, Irq, MatchPossible, halt_exec
    <3> QED BY <3>1, StutterRefines
  <2> QED
    BY <1>1, <2>1, <2>2, <2>3, <2>4, <2>5, <2>6, <2>7, <2>8, <2>9, <2>10 DEF Safe, Phase, Astray
<1> QED BY <1>2, <1>3

\* The scheduler keeps its slot and its number.
LEMMA SecondStep ==
    ASSUME Punctual, Refinable, Next
    PROVE  SchedulerIsSecond'
PROOF
<1>1. Safe /\ TypeInv /\ active_task_block \in Slots
  BY DEF Refinable, PidSafe, Safe, TypeInv, TypeOK
<1>2. CASE InMain
  <2>1. InIdle' /\ pid_cnt' = 1
    BY <1>1, <1>2, MainStep
  <2> QED BY <2>1 DEF SchedulerIsSecond, InIdle, InStart, Dormant
<1>3. CASE InIdle
  <2>1. InStart' /\ pid_cnt' = 2 /\ tasks'[active_task_block'].pid = 1
    BY <1>3, IdleSpawns
  <2> QED BY <2>1 DEF SchedulerIsSecond, InIdle, InStart, Dormant
<1>4. CASE InStart
  <2>1. /\ InLoop' /\ Scheduler' = active_task_block
        /\ tasks'[active_task_block].pid = tasks[active_task_block].pid
    BY <1>1, <1>4, StartStep DEF Safe, InMain, InStart
  <2>2. ~InIdle' /\ ~InStart'
    BY <2>1 DEF InLoop, InIdle, InStart
  <2>3. tasks[active_task_block].pid = 1
    BY <1>4 DEF Refinable, SchedulerIsSecond
  <2> QED BY <1>1, <2>1, <2>2, <2>3 DEF SchedulerIsSecond
<1>5. CASE Ended
  <2>1. UNCHANGED vars
    BY <1>5, Steps DEF Ended, At, Irq, MatchPossible, halt_exec
  <2>2. UNCHANGED <<tasks, scheduler_task_sp, mode>>
    BY <2>1 DEF vars, kernel, globals, machine
  <2> QED
    BY <1>5, <2>2
    DEF Ended, Refinable, SchedulerIsSecond, Scheduler, InIdle, InStart, Dormant
<1>6. CASE Settled /\ Executing /\ cpu.at # "sched_start" /\ ~InMain
  <2>1. /\ Scheduler \in Slots /\ Living(Scheduler) /\ scheduler_task_sp = Saved(Scheduler)
        /\ scheduler_task_sp # NullSp
    BY <1>6, SavedIs DEF Settled, OneScheduler, Living
  <2>2. UNCHANGED scheduler_task_sp
    <3>1. ~start_scheduler
      BY <1>6 DEF start_scheduler, At
    <3> QED
      BY <3>1
      DEF Next, Boot, SpawnScheduler, spawn_task, SchedulerStep, MaskTimer, handle_previous_task,
          select_next_task, prepare_next_task, Switch, TimerISR, CONTEXT_SWTICH, Return, TimerMatch,
          SystemCall, Spawn, Exit, Yield, SetPriority, Terminate, Wait, WaitStep, LookUp, Scan,
          ReadStatus, WrapAround, halt_exec, FATAL_ERROR, vars, globals
  <2>3. ~InIdle' /\ ~InStart'
    BY <2>1, <2>2 DEF InIdle, InStart, Dormant
  <2>4. tasks'[Scheduler].pid = tasks[Scheduler].pid
    BY <1>1, <1>6, <2>1, TableStep DEF LivesKept, Created
  <2>5. tasks[Scheduler].pid = 1
    BY <2>1 DEF Refinable, SchedulerIsSecond
  <2> QED BY <2>1, <2>2, <2>3, <2>4, <2>5 DEF SchedulerIsSecond, Scheduler
<1>7. \/ InMain \/ InIdle \/ InStart \/ Ended
      \/ Settled /\ Executing /\ cpu.at # "sched_start" /\ ~InMain
  BY <1>1
  DEF Safe, Phase, Executing, InTaskCode, Resumable, Leaving, Entering, TaskSide, Resumed, InLoop,
      InHandle, InSelect, InPrepare, HandingOver, SchedulerSide, InMain, Astray
<1> QED BY <1>2, <1>3, <1>4, <1>5, <1>6, <1>7

\* The invariant the refinement rests on holds of every behaviour.
THEOREM RefinableAlways == Punctual => (Spec => []Refinable)
PROOF
<1> SUFFICES ASSUME Punctual PROVE Spec => []Refinable
  OBVIOUS
<1>1. Init => Refinable
  <2> SUFFICES ASSUME Init PROVE Refinable
    OBVIOUS
  <2>1. scheduler_task_sp = NullSp /\ cpu.at = "main"
    BY DEF Init
  <2> QED BY <2>1, InitPidSafe DEF Refinable, SchedulerIsSecond, InIdle, InStart
<1>2. Refinable /\ [Next]_vars => Refinable'
  <2> SUFFICES ASSUME Refinable, [Next]_vars PROVE Refinable'
    OBVIOUS
  <2>1. PidSafe'
    BY NextPidSafe DEF Refinable
  <2>2. CASE Next
    BY <2>1, <2>2, SecondStep DEF Refinable
  <2>3. CASE UNCHANGED vars
    <3>1. UNCHANGED <<tasks, queue_position, active_task_block, pid_cnt, next_task_sp,
                      scheduler_task_sp, frames, sp, cpu, mode, ocf, fault>>
      BY <2>3 DEF vars, kernel, globals, machine
    <3>2. SchedulerIsSecond'
      BY <3>1
      DEF Refinable, SchedulerIsSecond, Scheduler, InIdle, InStart, Dormant, ContextSaved, Quiet
    <3> QED BY <2>1, <3>2 DEF Refinable
  <2> QED BY <2>2, <2>3
<1> QED BY <1>1, <1>2, PTL DEF Spec

\* The kernel keeps the promises of AbstractTasks: through every preemption, spawn, exit and
\* reuse of a slot, a task goes on exactly where it was, in rounds of descending priority.
THEOREM Implements == Punctual => (Spec => ImplementsAbstractTasks)
PROOF
<1> SUFFICES ASSUME Punctual PROVE Spec => ImplementsAbstractTasks
  OBVIOUS
<1>1. Spec => []Refinable
  BY RefinableAlways
<1>2. Refinable /\ Refinable' /\ [Next]_vars => [Abstract!Next]_(Abstract!vars)
  BY StepRefines
<1> QED BY <1>1, <1>2, InitRefines, PTL DEF Spec, ImplementsAbstractTasks, Abstract!Spec

=============================================================================

------------------------------ MODULE Simplos ------------------------------
(***************************************************************************)
(* The simplos kernel on one CPU: the task table, the scheduler task, the  *)
(* context switch shared by k_yield and the timer interrupt, and the       *)
(* system calls a task makes (os.cpp).                                     *)
(*                                                                         *)
(* A step is a stretch of code between two points where an interrupt can   *)
(* matter.  A stack pointer is a block and a depth in bytes below that     *)
(* block's top; what a task keeps on its own stack above its current call  *)
(* is depth 0.  `frames' holds the saved contexts that are still intact in *)
(* memory, by the stack pointer that was stored for them.                  *)
(*                                                                         *)
(* A definition named like another with a suffix (Scan and                 *)
(* Scan_missing_is_alive) is a plausible bug in the code the other models; *)
(* nothing uses it, it is there to show that the properties notice.        *)
(***************************************************************************)
EXTENDS Prioritize, FiniteSetsExt

CONSTANTS
    task_memory_size,   \* bytes in one task's block
    MaxPid,             \* bound: tasks created in a behaviour
    BootOverrun,        \* may the timer match before the scheduler's first pass?
    SchedulerOverrun,   \* while the scheduler works, with MT disabled?
    LateMatch           \* between the cli of a yield and the scheduler's
                        \* DISABLE_MT? (a few dozen cycles)

ASSUME MemorySizeAssumption == task_memory_size \in Nat /\ task_memory_size > 144
ASSUME MaxPidAssumption == MaxPid \in 2..65535
ASSUME TimerAssumption == {BootOverrun, SchedulerOverrun, LateMatch} \subseteq BOOLEAN

VARIABLES
    tasks,              \* Task_Queue::tasks
    task_index_queue,   \* Task_Queue::task_index_queue
    queue_position,     \* Task_Queue::queue_position
    active_task_block,  \* Scheduler::active_task_block
    pid_cnt,            \* Kernel::pid_cnt
    prev_task_sp, next_task_sp, scheduler_task_sp,  \* the globals of main.cpp
    frames,             \* contexts intact on the stacks
    sp,                 \* the stack pointer
    cpu,                \* program point, SREG's I bit, and a wait's pid and task pointer
    mode,               \* what the CPU is doing: see Modes
    mt,                 \* OCIE1A: the timer interrupt is enabled
    ocf,                \* OCF1A: a compare match is pending
    fault               \* why the system halted

kernel == <<tasks, task_index_queue, queue_position, active_task_block, pid_cnt>>
globals == <<prev_task_sp, next_task_sp, scheduler_task_sp>>
machine == <<frames, sp, cpu, mode, mt, ocf, fault>>
vars == <<kernel, globals, machine>>

pc_bytes == 3
register_bytes == 33
num_context_switch_overhead_bytes == pc_bytes + register_bytes

\* Task code: run_idle_fn before and after it starts the scheduler, any other
\* task, and the three parts of wait_for_task_finnish.
TaskLabels == {"idle", "user", "lookup", "scan", "read"}
SchedulerLabels == {"sched_start", "sched_loop", "sched_handle", "sched_select", "sched_prepare"}
Labels == TaskLabels \cup SchedulerLabels \cup {"main", "dead"}

\* "switch": inside k_yield, after its cli and before CONTEXT_SWTICH;
\* "tail": the new context is loaded and MT enabled, sei/ret or reti is next;
\* "wild": executing whatever an unsaved stack pointer led to.
Modes == {"run", "switch", "tail", "halted", "wild"}
Faults == {"none", "terminated", "list_full", "no_ready_task", "bad_task_sp",
           "malformed_pc", "bad_next_task", "started_twice"}

StackPointers == [block : 0..tasks_max, depth : Nat]
NullSp == [block |-> tasks_max, depth |-> 0]        \* the value 0
task_sp_range_high_one_past(block) == [block |-> block + 1, depth |-> task_memory_size - 1]
task_sp_range_high(block) == [block |-> block, depth |-> 0]
Pushed(a, bytes) == [block |-> a.block, depth |-> a.depth + bytes]
Popped(a, bytes) == [block |-> a.block, depth |-> a.depth - bytes]
Contexts == [at : Labels, i : BOOLEAN, pid : Nat, ptr : Slots]
Statuses == {"SLEEPING", "READY", "RUNNING", "EMPTY", "SCHEDULER"}
Tasks == [status : Statuses, priority : 0..UINT8_MAX, pid : Nat, task_sp_adr : StackPointers]

-----------------------------------------------------------------------------
(* Interrupts and the stacks *)

Irq == mode \in {"run", "tail"} /\ cpu.i /\ mt /\ ocf

\* Code at `label' can take its next step: no interrupt is due before it.
At(label) == mode = "run" /\ cpu.at = label /\ ~Irq

\* What remains intact once the stack of a's block has been cut back to a.
StillIntact(saved, a) ==
    [x \in {x \in DOMAIN saved : x.block = a.block => x.depth =< a.depth} |-> saved[x]]

\* Push a context on the current stack.
WithSaved(context) ==
    LET here == Pushed(sp, num_context_switch_overhead_bytes)
        kept == StillIntact(frames, sp)
    IN  [x \in DOMAIN kept \cup {here} |-> IF x = here THEN context ELSE kept[x]]

\* FATAL_ERROR and a failed ASSERT: halt_exec with interrupts off.  What the
\* handler wrote before it halted can no longer be observed.
FATAL_ERROR(reason) ==
    /\ mode' = "halted"
    /\ fault' = reason
    /\ cpu' = [cpu EXCEPT !.i = FALSE]
    /\ UNCHANGED <<kernel, globals, frames, sp, mt, ocf>>

SCHEDULED_TASK_OR_SCHEDULER_inverted ==
    IF next_task_sp = NullSp THEN next_task_sp ELSE scheduler_task_sp

SCHEDULED_TASK_OR_SCHEDULER ==
    IF next_task_sp # NullSp THEN next_task_sp ELSE scheduler_task_sp

next_task_sp_once_taken_kept == next_task_sp

\* SELECT_SCHEDULED_TASK_OR_SCHEDULER ends by clearing next_task_sp.
next_task_sp_once_taken == NullSp

\* CONTEXT_SWTICH: save, record where in prev_task_sp, load the chosen context
\* and enable MT.  A stack pointer under which no context is intact loads
\* arbitrary registers and an arbitrary program counter.
CONTEXT_SWTICH(context) ==
    LET here == Pushed(sp, num_context_switch_overhead_bytes)
        stored == WithSaved(context)
        chosen == SCHEDULED_TASK_OR_SCHEDULER
        loaded == Popped(chosen, register_bytes)
    IN  /\ prev_task_sp' = here
        /\ next_task_sp' = next_task_sp_once_taken
        /\ mt' = TRUE
        /\ IF chosen \in DOMAIN stored
           THEN /\ mode' = "tail"
                /\ cpu' = stored[chosen]
                /\ sp' = loaded
                /\ frames' = StillIntact(stored, loaded)
           ELSE /\ mode' = "wild"
                /\ frames' = stored
                /\ UNCHANGED <<cpu, sp>>
        /\ UNCHANGED <<kernel, scheduler_task_sp, fault>>

k_yield_without_cli(return) ==
    /\ mode' = "switch"
    /\ cpu' = [cpu EXCEPT !.at = return]

\* Call k_yield up to and including its cli; the caller goes on at `return'.
k_yield(return) ==
    /\ mode' = "switch"
    /\ cpu' = [cpu EXCEPT !.at = return, !.i = FALSE]

\* The rest of k_yield, up to its sei.
Switch ==
    /\ mode = "switch"
    /\ CONTEXT_SWTICH(cpu)
    /\ UNCHANGED ocf

\* The timer interrupt: the hardware clears OCF1A and I; ends before its reti.
TimerISR ==
    /\ Irq
    /\ ocf' = FALSE
    /\ CONTEXT_SWTICH([cpu EXCEPT !.i = FALSE])

\* sei; ret of k_yield, or the interrupt's reti.
Return ==
    /\ mode = "tail"
    /\ ~Irq
    /\ mode' = "run"
    /\ cpu' = [cpu EXCEPT !.i = TRUE]
    /\ sp' = Popped(sp, pc_bytes)
    /\ UNCHANGED <<kernel, globals, frames, mt, ocf, fault>>

\* Where the compare match can fall.  Every 128 ms, whatever the switches do: RESET_TIMER
\* stores its zeros 0x20 below the registers it names, so TCNT1 runs on (ContextSwitch).
\* In task code a match falls anywhere; for the rest, which takes less than a period, the
\* constants say what to consider.
MatchPossible ==
    \/ mode = "run" /\ cpu.at \in {"user", "lookup", "scan", "read"}
    \/ mode = "run" /\ cpu.at \in {"main", "idle", "sched_start"} /\ BootOverrun
    \/ mode = "run" /\ cpu.at \in {"sched_handle", "sched_select", "sched_prepare"}
                    /\ SchedulerOverrun
    \/ mode = "run" /\ cpu.at = "sched_loop" /\ LateMatch
    \/ mode \in {"switch", "tail"} /\ LateMatch

TimerMatch ==
    /\ MatchPossible
    /\ ~ocf
    /\ ocf' = TRUE
    /\ UNCHANGED <<kernel, globals, frames, sp, cpu, mode, mt, fault>>

-----------------------------------------------------------------------------
(* Creating and ending tasks *)

Free(table) == {s \in Slots : table[s].status = "EMPTY"}

init_task_list(table) ==
    [s \in Slots |-> [table[s] EXCEPT !.status = "EMPTY", !.task_sp_adr = task_sp_range_high(s)]]

\* add_to_task_list takes the first EMPTY slot; create_simplos_task numbers it.
create_simplos_task(table, priority) ==
    [table EXCEPT ![Min(Free(table))] =
        [status |-> "RUNNING", priority |-> priority, pid |-> pid_cnt,
         task_sp_adr |-> task_sp_range_high(Min(Free(table)))]]

Invalidated_past_end == tasks_max

\* invalidate_scheduled_queue: the next selection starts a new round.
Invalidated == 0

Suspended_status_only(table, block, task_sp_adr) == [table EXCEPT ![block].status = "READY"]
Suspended_sp_only(table, block, task_sp_adr) == [table EXCEPT ![block].task_sp_adr = task_sp_adr]

\* The task in `block' gives up the CPU with its context at task_sp_adr.
Suspended(table, block, task_sp_adr) ==
    [table EXCEPT ![block].status = "READY", ![block].task_sp_adr = task_sp_adr]

\* main: the task list, the idle task in its first slot and on its stack; interrupts stay off.
Boot ==
    LET list == init_task_list(tasks)
        index == Min(Free(list))
    IN  /\ At("main")
        /\ IF pid_cnt # 0
           THEN FATAL_ERROR("started_twice")
           ELSE /\ tasks' = create_simplos_task(list, 0)
                /\ pid_cnt' = pid_cnt + 1
                /\ task_index_queue' = [task_index_queue EXCEPT ![0] = index]
                /\ queue_position' = 0
                /\ active_task_block' = 0
                /\ sp' = task_sp_range_high(index)
                /\ mt' = FALSE
                /\ cpu' = [cpu EXCEPT !.at = "idle"]
                /\ UNCHANGED <<globals, frames, mode, ocf, fault>>

\* spawn_task: the caller becomes READY with its context saved, and the new
\* task runs fn at once on its own stack.
spawn_task(caller, fn, priority) ==
    /\ At(caller)
    /\ pid_cnt < MaxPid
    /\ IF Free(tasks) = {}
       THEN FATAL_ERROR("list_full")
       ELSE LET new == Min(Free(tasks))
                old_sp == Pushed(sp, num_context_switch_overhead_bytes)
                context == [cpu EXCEPT !.at = "user", !.i = FALSE]
            IN  /\ tasks' = Suspended(create_simplos_task(tasks, priority), active_task_block, old_sp)
                /\ pid_cnt' = pid_cnt + 1
                /\ active_task_block' = new
                /\ sp' = task_sp_range_high(new)
                /\ frames' = StillIntact(WithSaved(context), task_sp_range_high(new))
                /\ queue_position' = Invalidated
                /\ mt' = TRUE
                /\ cpu' = [at |-> fn, i |-> TRUE, pid |-> 0, ptr |-> 0]
                /\ UNCHANGED <<task_index_queue, globals, mode, ocf, fault>>

\* run_idle_fn starts the scheduler before anything else.
SpawnScheduler == spawn_task("idle", "sched_start", 0)
Spawn == \E priority \in Priorities : spawn_task("user", "user", priority)

\* kill_current_task, reached when a task's function returns.
Exit ==
    /\ At("user")
    /\ active_task_block # 0            \* run_idle_fn ends with terminate()
    /\ tasks' = [tasks EXCEPT ![active_task_block].status = "EMPTY",
                              ![active_task_block].task_sp_adr =
                                    task_sp_range_high(active_task_block)]
    /\ queue_position' = Invalidated
    /\ mt' = FALSE
    /\ k_yield("dead")
    /\ UNCHANGED <<task_index_queue, active_task_block, pid_cnt, globals, frames, sp, ocf, fault>>

-----------------------------------------------------------------------------
(* The scheduler task *)

\* start_scheduler up to its loop: from here on a switch can reach the scheduler.
start_scheduler ==
    /\ At("sched_start")
    /\ tasks' = [tasks EXCEPT ![active_task_block].status = "SCHEDULER"]
    /\ frames' = WithSaved([cpu EXCEPT !.at = "sched_loop"])
    /\ sp' = Pushed(sp, num_context_switch_overhead_bytes)
    /\ scheduler_task_sp' = sp'
    /\ mt' = FALSE
    /\ cpu' = [cpu EXCEPT !.at = "sched_loop"]
    /\ UNCHANGED <<task_index_queue, queue_position, active_task_block, pid_cnt,
                   prev_task_sp, next_task_sp, mode, ocf, fault>>

MaskTimer_not_masking ==
    /\ At("sched_loop")
    /\ cpu' = [cpu EXCEPT !.at = "sched_handle"]
    /\ UNCHANGED <<kernel, globals, frames, sp, mode, mt, ocf, fault>>

\* The DISABLE_MT at the top of the scheduler's loop.
MaskTimer ==
    /\ At("sched_loop")
    /\ mt' = FALSE
    /\ cpu' = [cpu EXCEPT !.at = "sched_handle"]
    /\ UNCHANGED <<kernel, globals, frames, sp, mode, ocf, fault>>

assert_task_pointer_integrity_skipped(block, task_sp_adr) == TRUE

\* assert_task_pointer_integrity: a stack pointer in the task's own block that
\* leaves room for one more context.
assert_task_pointer_integrity(block, task_sp_adr) ==
    /\ task_sp_adr.block = block
    /\ task_sp_adr.depth + num_context_switch_overhead_bytes < task_memory_size

\* assert_stack_pointer_points_to_valid_return_address looks two bytes too low
\* (ContextSwitch): it takes SREG, r0 and the PC's high byte for the PC, and an intact
\* context for malformed if all three are 0.  Other memory may hold anything.
ReturnAddressValid(task_sp_adr) ==
    IF task_sp_adr \in DOMAIN frames /\ frames[task_sp_adr].i THEN {TRUE} ELSE BOOLEAN

handle_previous_task ==
    LET prev == active_task_block
        handled ==
            CASE tasks[prev].status = "SCHEDULER" ->
                    [tasks EXCEPT ![prev].task_sp_adr = scheduler_task_sp]
              [] tasks[prev].status = "RUNNING" -> Suspended(tasks, prev, prev_task_sp)
              [] OTHER -> tasks
        saved_sp == handled[prev].task_sp_adr
        sp_valid == assert_task_pointer_integrity(prev, saved_sp)
    IN  /\ At("sched_handle")
        /\ \E valid \in ReturnAddressValid(saved_sp) :
              IF tasks[prev].status = "EMPTY" \/ (sp_valid /\ valid)
              THEN /\ tasks' = handled
                   /\ cpu' = [cpu EXCEPT !.at = "sched_select"]
                   /\ UNCHANGED <<task_index_queue, queue_position, active_task_block, pid_cnt,
                                  globals, frames, sp, mode, mt, ocf, fault>>
              ELSE FATAL_ERROR(IF sp_valid THEN "malformed_pc" ELSE "bad_task_sp")

\* select_next_task, with the reschedule it makes when the round is used up.
select_next_task ==
    LET rescheduled == queue_position = 0
        queue == IF rescheduled THEN prioritize_tasks(tasks, task_index_queue)
                                ELSE task_index_queue
        position == (IF rescheduled THEN num_prioritized(tasks) ELSE queue_position) - 1
    IN  /\ At("sched_select")
        /\ IF rescheduled /\ num_prioritized(tasks) = 0
           THEN FATAL_ERROR("no_ready_task")
           ELSE /\ task_index_queue' = queue
                /\ queue_position' = position
                /\ active_task_block' = queue[position]
                /\ next_task_sp' = tasks[queue[position]].task_sp_adr
                /\ cpu' = [cpu EXCEPT !.at = "sched_prepare"]
                /\ UNCHANGED <<tasks, pid_cnt, prev_task_sp, scheduler_task_sp,
                               frames, sp, mode, mt, ocf, fault>>

\* prepare_next_task, and the k_yield that ends the loop's body.
prepare_next_task ==
    LET next == tasks[active_task_block]
    IN  /\ At("sched_prepare")
        /\ IF /\ assert_task_pointer_integrity(active_task_block, next.task_sp_adr)
              /\ next.status \notin {"EMPTY", "SCHEDULER"}
           THEN /\ tasks' = [tasks EXCEPT ![active_task_block].status = "RUNNING"]
                /\ k_yield("sched_loop")
                /\ UNCHANGED <<task_index_queue, queue_position, active_task_block, pid_cnt,
                               globals, frames, sp, mt, ocf, fault>>
           ELSE FATAL_ERROR("bad_next_task")

-----------------------------------------------------------------------------
(* The other system calls *)

Yield ==
    /\ At("user")
    /\ k_yield("user")
    /\ UNCHANGED <<kernel, globals, frames, sp, mt, ocf, fault>>

SetPriority ==
    /\ At("user")
    /\ \E priority \in Priorities :
          tasks' = [tasks EXCEPT ![active_task_block].priority = priority]
    /\ UNCHANGED <<task_index_queue, queue_position, active_task_block, pid_cnt, globals, machine>>

Terminate ==
    /\ At("user")
    /\ FATAL_ERROR("terminated")

\* wait_for_task_finnish(pid), for a pid spawn may have returned or not.
Wait ==
    /\ At("user")
    /\ \E pid \in 0..(MaxPid - 1) : cpu' = [cpu EXCEPT !.at = "lookup", !.pid = pid]
    /\ UNCHANGED <<kernel, globals, frames, sp, mode, mt, ocf, fault>>

\* get_task: DISABLE_MT ...
LookUp ==
    /\ At("lookup")
    /\ mt' = FALSE
    /\ cpu' = [cpu EXCEPT !.at = "scan"]
    /\ UNCHANGED <<kernel, globals, frames, sp, mode, ocf, fault>>

WaitOver(context) == [context EXCEPT !.at = "user", !.pid = 0, !.ptr = 0]

Holding(pid) == {s \in Slots : tasks[s].pid = pid}

first_holding_from_the_end(pid) == Max(Holding(pid))
first_holding(pid) == Min(Holding(pid))

Scan_missing_is_alive ==
    /\ At("scan")
    /\ mt' = TRUE
    /\ IF Holding(cpu.pid) = {}
       THEN mode' = "switch" /\ cpu' = [cpu EXCEPT !.at = "lookup", !.i = FALSE]
       ELSE mode' = mode /\ cpu' = [cpu EXCEPT !.at = "read", !.ptr = first_holding(cpu.pid)]
    /\ UNCHANGED <<kernel, globals, frames, sp, ocf, fault>>

Scan_missing_stays_masked ==
    /\ At("scan")
    /\ mt' = (Holding(cpu.pid) # {})
    /\ cpu' = IF Holding(cpu.pid) = {}
              THEN WaitOver(cpu)
              ELSE [cpu EXCEPT !.at = "read", !.ptr = first_holding(cpu.pid)]
    /\ UNCHANGED <<kernel, globals, frames, sp, mode, ocf, fault>>

\* ... the first slot with that pid, EMPTY or not, and ENABLE_MT; task_status
\* takes a pid in no slot for an EMPTY task.
Scan ==
    /\ At("scan")
    /\ mt' = TRUE
    /\ cpu' = IF Holding(cpu.pid) = {}
              THEN WaitOver(cpu)
              ELSE [cpu EXCEPT !.at = "read", !.ptr = first_holding(cpu.pid)]
    /\ UNCHANGED <<kernel, globals, frames, sp, mode, ocf, fault>>

\* task->status is read with MT enabled again: the slot may have changed hands.
ReadStatus ==
    /\ At("read")
    /\ IF tasks[cpu.ptr].status = "EMPTY"
       THEN cpu' = WaitOver(cpu) /\ mode' = mode
       ELSE mode' = "switch" /\ cpu' = [cpu EXCEPT !.at = "lookup", !.i = FALSE, !.ptr = 0]
    /\ UNCHANGED <<kernel, globals, frames, sp, mt, ocf, fault>>

\* A corrupted CPU may run into address 0 and the startup code (simplos.hpp).
WrapAround ==
    /\ mode = "wild"
    /\ mode' = "run"
    /\ cpu' = [at |-> "main", i |-> FALSE, pid |-> 0, ptr |-> 0]
    /\ UNCHANGED <<kernel, globals, frames, sp, mt, ocf, fault>>

halt_exec == mode = "halted" /\ UNCHANGED vars

-----------------------------------------------------------------------------
Init ==
    /\ tasks = [s \in Slots |->
                   [status |-> "EMPTY", priority |-> 0, pid |-> 0, task_sp_adr |-> NullSp]]
    /\ task_index_queue = [k \in 0..tasks_max |-> 0]
    /\ queue_position = 0
    /\ active_task_block = 0
    /\ pid_cnt = 0
    /\ prev_task_sp = NullSp /\ next_task_sp = NullSp /\ scheduler_task_sp = NullSp
    /\ frames = [x \in {} |-> 0]
    /\ sp = NullSp
    /\ cpu = [at |-> "main", i |-> FALSE, pid |-> 0, ptr |-> 0]
    /\ mode = "run"
    /\ mt = FALSE
    /\ ocf = FALSE
    /\ fault = "none"

SchedulerStep ==
    start_scheduler \/ MaskTimer \/ handle_previous_task \/ select_next_task \/ prepare_next_task

WaitStep == LookUp \/ Scan \/ ReadStatus

SystemCall == Spawn \/ Exit \/ Yield \/ SetPriority \/ Terminate \/ Wait

Next ==
    \/ Boot \/ SpawnScheduler
    \/ SchedulerStep
    \/ Switch \/ TimerISR \/ Return \/ TimerMatch
    \/ SystemCall \/ WaitStep
    \/ WrapAround \/ halt_exec

Spec == Init /\ [][Next]_vars

InWait(s) == mode = "run" /\ cpu.at \in {"lookup", "scan", "read"} /\ active_task_block = s

\* The CPU executes the kernel's code and the timer runs.  Of task code nothing is assumed: it
\* may loop for ever, or yield for ever.  But a wait's step takes a few hundred cycles of the
\* 128 ms a task has the CPU, so a waiter that gets the CPU again and again takes one, unless
\* it is each time resumed with a match already pending: a pass of the scheduler is assumed to
\* be shorter than the period.
Fairness ==
    /\ WF_vars(Boot \/ SpawnScheduler \/ SchedulerStep \/ Switch \/ TimerISR \/ Return \/ WaitStep)
    /\ WF_vars(TimerMatch)
    /\ \A s \in Slots : []<>InWait(s) => []<><<WaitStep /\ active_task_block = s>>_vars

FairSpec == Spec /\ Fairness

-----------------------------------------------------------------------------
(* Properties *)

Executing == mode \in {"run", "switch", "tail"}
Stopped == ~Executing

\* Type correctness of the kernel's data and of the machine.
TypeOK ==
    /\ tasks \in [Slots -> Tasks]
    /\ task_index_queue \in [0..tasks_max -> Slots]
    /\ queue_position \in Slots
    /\ active_task_block \in Slots
    /\ pid_cnt \in 0..MaxPid
    /\ {prev_task_sp, next_task_sp, scheduler_task_sp, sp} \subseteq StackPointers
    /\ DOMAIN frames \subseteq StackPointers
    /\ \A a \in DOMAIN frames : frames[a] \in Contexts
    /\ cpu \in Contexts
    /\ mode \in Modes
    /\ mt \in BOOLEAN /\ ocf \in BOOLEAN
    /\ fault \in Faults

\* Code that belongs to the task in active_task_block, and the loop of start_scheduler.
InTask == Executing /\ cpu.at \in TaskLabels \cup {"sched_start", "dead"}
InScheduler == Executing /\ cpu.at \in SchedulerLabels \ {"sched_start"}

\* The stack in use is the stack of whoever executes: active_task_block's while task
\* code runs, the scheduler's while its loop runs (k_yield, the ISR, spawn_task).
StackOwnership ==
    /\ InTask => sp.block = active_task_block
    /\ InScheduler => sp.block = scheduler_task_sp.block

\* While task code runs, its slot and no other is RUNNING; kill_current_task's slot is EMPTY.
OneRunning ==
    InTask => \A s \in Slots :
        tasks[s].status = "RUNNING" <=> s = active_task_block /\ cpu.at # "dead"

IsSuspended(s, a) ==
    /\ a \in DOMAIN frames
    /\ a.block = s
    /\ frames[a].at \in TaskLabels
    /\ ~frames[a].i

\* The context of every READY task is intact on the task's own stack at its task_sp_adr,
\* and resumes with interrupts off, so that nothing interrupts the switch that loads it.
ReadyIntact ==
    Executing => \A s \in Slots :
        tasks[s].status = "READY" => IsSuspended(s, tasks[s].task_sp_adr)

\* So is that of the RUNNING task while the scheduler has the CPU: at prev_task_sp, set by
\* the switch that left it, until handle_previous_task has stored it, and at next_task_sp
\* in the switch that goes to it.
PreemptedIntact ==
    InScheduler => \A s \in Slots :
        tasks[s].status = "RUNNING" =>
            IsSuspended(s, IF mode = "switch" THEN next_task_sp ELSE prev_task_sp)

\* The part of the queue still to be served names distinct READY tasks, whatever was
\* spawned, killed or re-prioritised since the queue was filled.
QueueTailReady ==
    Executing => \A j, k \in 0..(queue_position - 1) :
        /\ tasks[task_index_queue[k]].status = "READY"
        /\ task_index_queue[j] = task_index_queue[k] => j = k

\* A next_task_sp that is set cannot be taken by the timer interrupt, and belongs to the
\* task active_task_block already names.
HandoverMasked ==
    Executing /\ next_task_sp # NullSp =>
        ~mt /\ next_task_sp = tasks[active_task_block].task_sp_adr

\* Once the scheduler runs, no task runs with the timer interrupt shut out: every path
\* through a switch, spawn_task, kill_current_task and get_task leaves both I and MT set.
TaskPreemptible == mode = "run" /\ cpu.at \in {"user", "lookup", "read"} => cpu.i /\ mt

\* The kernel's own assertions and FATAL_ERRORs never stop it, except a full task list and
\* the misplaced check of the return address, and it loads only contexts that were saved.
NoInternalFault == mode # "wild" /\ fault \in {"none", "terminated", "list_full", "malformed_pc"}

\* wait_for_task_finnish returns only when no slot holds a living task with that pid, even
\* if the slot changed hands between get_task and the read of its status.
WaitReturnsAfterExit ==
    [][cpu.at \in {"scan", "read"} /\ cpu'.at = "user" =>
          \A s \in Slots : tasks[s].pid = cpu.pid => tasks[s].status = "EMPTY"]_vars

NewRound == cpu.at = "sched_select" /\ cpu'.at = "sched_prepare" /\ queue_position = 0

\* READY, and of a priority up to 254.  spawn and set_priority take 255 as well, but a round
\* lists no task of that priority (scheduler.cpp:36).
ReadyBelowMax(s) == tasks[s].status = "READY" /\ tasks[s].priority < UINT8_MAX

\* A scheduling round lists exactly the READY tasks of priorities up to 254: of those
\* reschedule leaves none out and repeats none.  (It does leave out those of priority 255,
\* though test_scheduler.cpp:83 is named "reschedules_all_tasks_with_staus_ready".)
RoundListsReadyBelowMax ==
    [][NewRound =>
          /\ {task_index_queue'[k] : k \in 0..queue_position'} = {s \in Slots : ReadyBelowMax(s)}
          /\ \A j, k \in 0..queue_position' : task_index_queue'[j] = task_index_queue'[k] => j = k]_vars

\* The task a new round starts with has the highest priority of the READY tasks, of
\* priorities up to 254.
HighestPriorityFirst ==
    [][NewRound => \A s \in Slots :
          ReadyBelowMax(s) => tasks[s].priority =< tasks[active_task_block'].priority]_vars

\* Every READY task of a priority up to 254 is eventually run, however low it is, if tasks
\* stop being spawned (here they do: MaxPid) and the system is not stopped.
ReadyTaskRuns ==
    \A s \in Slots : ReadyBelowMax(s) ~> tasks[s].status = "RUNNING" \/ Stopped

\* A task of a priority up to 254 that waits for a task that has ended comes back from
\* wait_for_task_finnish.
WaiterReturns ==
    \A s \in Slots :
        /\ mode = "run" /\ cpu.at = "lookup" /\ active_task_block = s
        /\ tasks[s].priority < UINT8_MAX
        /\ \A t \in Holding(cpu.pid) : tasks[t].status = "EMPTY"
        /\ cpu.pid < pid_cnt
        ~> (mode = "run" /\ cpu.at = "user" /\ active_task_block = s) \/ Stopped

(* Whatever the timer does *)

\* The timer cannot reach code that was never saved except in two windows: before the
\* scheduler has set scheduler_task_sp, and between ENABLE_MT and reti of the scheduler's
\* first resumption, whose saved SREG still has I set.
WildOnlyInKnownWindows ==
    [][mode # "wild" /\ mode' = "wild" =>
          \/ scheduler_task_sp = NullSp
          \/ mode = "tail" /\ cpu.at = "sched_loop" /\ cpu.i]_vars

=============================================================================

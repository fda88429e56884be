# simplos in TLA+

simplos is a small pre-emptive operating system for one ATmega2560 (`src/simplos/src`). It has a
fixed table of five tasks, each with its own block of RAM for a stack, a scheduler that is itself
a task, and one context switch that `yield` and the timer interrupt share. This directory holds
TLA+ modules of it, the TLC configurations that check them on small instances, and TLAPS proofs.

Paths below are relative to `src/simplos/src`.

## The system

| part | state | operations |
|---|---|---|
| Task table (`simplos.cpp`, `simplos_types.hpp`, `os.cpp`) | `tasks[]` (status, priority, pid, saved stack pointer), `pid_cnt`, `active_task_block` | `create_simplos_task`, `spawn_task`, `kill_current_task`, `set_priority`, `get_task`/`task_status`, `wait_for_task_finnish`, `terminate` |
| Scheduler (`scheduler.cpp`) | `task_index_queue[]`, `queue_position`, `scheduler_task_sp` | `start_scheduler` and its loop: `handle_previous_task`, `select_next_task` (with `reschedule` and `prioritize_tasks`), `prepare_next_task`; `invalidate_scheduled_queue` |
| Context switch (`hal/context_switch_macros.hpp`, `k_yield`, the ISR in `hal/atmega2560_hal.cpp`) | `prev_task_sp`, `next_task_sp`, SP, SREG's I bit, OCIE1A ("MT") and OCF1A | `CONTEXT_SWTICH`, reached from `k_yield` and from the compare match |
| Memory layout (`memory.cpp`, `memory_layout.hpp`) | the blocks' ranges, the canaries, the heap's start | `task_sp_range_high/low`, `memory_region`, `assert_task_pointer_integrity`, `verify_canaries` |
| Boot (`main.cpp`) | all of the above | the order of initialisation, the idle task, `run_idle_fn` |
| Example program (`user_tasks/user_tasks.cpp`) | the pids it waits for | `run_idle_fn` and the five functions it spawns |
| Log (`hal/log.cpp`) | a character buffer and its fill | `add_entry`, `contains_entry[_starting_with]`, `clear`; used by the unit tests |
| Option, Array, serial port, printing, template helpers | none that the kernel depends on | |

How they interact. A task enters the kernel by a call: there is no other privilege level, so task
code, kernel code and the scheduler share one CPU and can be interrupted anywhere unless the I bit
is clear or MT is disabled. Every switch pushes the whole context on the current stack, stores
the stack pointer in `prev_task_sp`, and loads `next_task_sp` if it is set and
`scheduler_task_sp` if not. So the scheduler runs after every switch away from a task, and the
switch that ends its loop is the one that finds `next_task_sp` set. The parts talk through these three
globals, the table, and `active_task_block`, none of which is protected by more than MT or I.

What is hard: the interleaving of the timer interrupt with the switch itself; kernel data read on
one side of a switch and used on the other; slots (and so stacks and pids) that change hands while
somebody holds their index; a queue that outlives the tasks it names; two masks (I and MT) that
must both be restored on every path; polling waiters. Nothing is persisted and there are no
messages: crashes matter only as the halts the kernel itself makes, and as the wrap-around to
address 0 its own comments mention.

What makes each part correct:

- Context switch: a saved context is found again by whoever resumes it, on its own stack, intact;
  a chosen next task is taken exactly once, by the switch it was chosen for.
- Task table: one RUNNING task while task code runs; a slot is re-used only when nobody runs on its
  stack; `wait_for_task_finnish` returns only when the task is gone.
- Scheduler: a round serves each READY task of the priorities it scans once, from the highest down; what is left of
  a round never names a task that cannot be resumed; each such task runs eventually.
- Memory layout: blocks are disjoint; a task that passes the check can be saved once more without leaving its block; a task
  with room left passes.
- Example program: it ends, after the tasks it waits for.
- Log: it holds what was added since the last `clear`, and nothing else.

## Modules

| module | what it is |
|---|---|
| `Prioritize` | `prioritize_tasks` in closed form: the place of a task in the list is the number of schedulable tasks that precede it. The constants shared by all modules, with their assumptions |
| `PrioritizeLoop` | the two nested loops of `prioritize_tasks`, one step per task visited, in `uint8_t` arithmetic |
| `Simplos` | the kernel: task table, scheduler task, switch, interrupt, system calls, boot |
| `MCSimplos` | the values TLC's configurations give the constants of `Simplos` |
| `PrioritizeProofs` | what the closed form guarantees: places are distinct and contiguous, the last has the highest priority |
| `PrioritizeLoopProofs` | the loops compute the closed form |
| `SimplosProofs` | type correctness of the kernel; its inductive invariant, by phases, and the safety properties that follow from it; `wait_for_task_finnish` and the pids; and that each step of the kernel is an abstract step or a stutter |
| `MCSimplosSafety` | the inductive invariant and the refinement for TLC |
| `AbstractTasks` | what the kernel promises its tasks, without stacks, interrupts or scheduling time |
| `SimplosRefinement` | the refinement mapping by which `Simplos` implements `AbstractTasks` |
| `UserTasks`, `UserTasksProofs` | the example program, composed with `AbstractTasks`; and the proofs |
| `ContextSwitch`, `MCContextSwitch`, `ContextSwitchProofs` | the macros of the context switch, one AVR instruction per step; and the proofs |
| `Memory`, `MemoryProofs` | the RAM layout and the stack pointer checks, by address, with stacks that grow; and the proofs |
| `PidWrap`, `PidWrapProofs` | the pid counter beyond 65536 tasks; and the proofs |
| `Log`, `LogProofs` | the log of the mock HAL; and the proofs |

`Simplos` takes `prioritize_tasks` from `Prioritize` as one step of the scheduler, which is what it is
to everybody else (MT is disabled); `PrioritizeLoop` shows that the step is right. In the same way `ContextSwitch`
shows what `Simplos` takes for granted of a switch, `Memory` what it takes for granted of stacks (a task's pushes stay
in its own block), and `UserTasks` builds on what `SimplosRefinement` shows.

A definition named like another with a suffix (`Suspended`, `Suspended_sp_only`) is a plausible bug in the code the other
models. Nothing uses it; it is there to show that a property notices.

### State and actions of `Simplos`

`tasks`, `task_index_queue`, `queue_position`, `active_task_block`, `pid_cnt` and the three stack pointer globals are
the variables of the source. `task_sp` is left out: it is written and read within one step.
`sp`, `cpu`, `mt` and `ocf` are the CPU: the stack pointer, the program point with the I bit and the
locals of a wait, OCIE1A and OCF1A.

A stack pointer is a block and a depth in bytes below the top of that block's stack. What a task's own
functions keep on its stack is depth 0: a task's calls change only its own stack, so
between two switches they make no difference to anybody else (a stack that grows into another
block is not modelled, see below). `frames` maps the stack pointer of every saved context that is still intact
to the context. A push cuts a stack back to where it was and puts the new context on top; loading
a context leaves what is above it. `CONTEXT_SWTICH` loads the context at the chosen
pointer if one is there; if none is, the CPU executes whatever the memory holds: mode "wild".

One step is a stretch of code between two points where an interrupt can make a difference:

| code | actions |
|---|---|
| `main` to `run_idle_fn` | `Boot`; then `SpawnScheduler` |
| `spawn`/`spawn_task` | `Spawn` (interrupts are off throughout) |
| `kill_current_task` up to its `k_yield` | `Exit`, to mode "switch" |
| `k_yield`: the call and its `cli` / the switch / `sei; ret` | `Yield` (and the other callers) / `Switch` / `Return` |
| the ISR / its `reti` | `TimerISR` / `Return` |
| `start_scheduler` up to its loop; `DISABLE_MT`; the three parts of the loop's body | `start_scheduler`, `MaskTimer`, `handle_previous_task`, `select_next_task`, `prepare_next_task` |
| `wait_for_task_finnish`: entry; `DISABLE_MT` of `get_task`; its search and `ENABLE_MT`; the read of the status and the loop's `yield` | `Wait`, `LookUp`, `Scan`, `ReadStatus` |
| `FATAL_ERROR`, a failed `ASSERT`, `terminate` | mode "halted" with the reason in `fault` |
| the wrap-around of `simplos.hpp:35` | `WrapAround`, from mode "wild" to `main` |

`TimerMatch` sets OCF1A. Where it can, `MatchPossible` says. The timer matches every 128 ms, and `RESET_TIMER`, which
is meant to restart the period at each switch, does not (see Findings), so a match may fall anywhere: in task code always; in the
rest, which takes less than a period, if a constant says to consider it:
`BootOverrun` (main and `run_idle_fn` before the scheduler has saved itself, mostly serial output),
`SchedulerOverrun` (the body of the scheduler's loop, MT disabled) and `LateMatch` (the few dozen cycles
between a yield's `cli` and the scheduler's `DISABLE_MT`, or between `ENABLE_MT` and the return). The last is improbable, and
fatal; most runs leave it out, and `kernel_any_timer` says what it does.

`run_idle_fn` is fixed only up to its first spawn. After that the idle task, like any other, makes
any system call at any time. It never exits, because it ends in `terminate`.

### The other modules

`AbstractTasks`: a slot is a place for a task, `task` maps the slots of living tasks to pid, priority and what the task is doing,
and `running`, `chosen` and `order` say whose the CPU is, whose it will be and what is left of the round. `Release`, `Choose` and `Resume` are a
preemption: the task comes back as it was. A round lists the tasks of priorities up to 254 (`Listed`). `Reject` is what the kernel may do that nobody wants: stop at the misplaced check of
the return address, or because it finds no task to run. The mapping of `SimplosRefinement` finds a task's state where its context is: in the CPU, under the stack
pointer stored for it, or, between a switch and the scheduler's next step, under `prev_task_sp` or `next_task_sp`. A context
that has been lost maps to a state no task can be in.

`UserTasks`: each function of the program as its sequence of spawns, waits and loops, each on a step of `AbstractTasks`. The abstract module
leaves open which free slot a task gets; here it is the first. `Rejected`, the kernel's halt, may end the program at any switch.

`ContextSwitch`: `Code` maps program addresses to instructions: the macros, `spawn_task`, `start_scheduler`, `k_yield` and the ISR, in the order of the source.
`R`, `sreg`, `SP`, `pc` and `mem` are the CPU. The C code between the macros is one instruction each (`create`, `adopt`, `fn`,
`schedule`), and may scribble over registers and the free stack. Task code picks a pattern (registers, SREG and the depth of its stack), and yields or
spawns. The contents of the patterns, what the kernel's C code leaves in the registers, and where the linker puts each of six pieces of code are
constants, the last under `LayoutAssumption`: the pieces lie in flash, above address 0, and do not overlap. `MaxDepth` bounds the stacks of task code to 40 bytes,
and `StackBytes` is the 80 bytes of a block that are used: the stack, two return addresses and a context. `left` is a history variable: what each context saved has to give back. The compiler's own prologues, and
register allocation around `asm`, are not modelled.

`Memory`: addresses are numbers, and a push writes below SP. A task takes and gives back `Steps` bytes at a time, at most
`MaxGrowth` below where it was resumed, which may be more than the checks make room for. `beyond` is how far below its block any task has
written, and `overwritten` and `canary_bytes` what was hit there. A task whose stack was written to may go on anywhere once it gets the CPU:
mode "astray", which is not followed, nor are pushes that would reach the registers below the canaries.

`PidWrap`: only the table's statuses and pids, with `pid_cnt` modulo `pid_values` and the second start of `main`.

`Log`: the buffer and the memory behind it, byte by byte.

Abstracted in `Simplos`: task names, the time counters (kept only for printing), output, the heap (`malloc` always returns null), the canaries (`Memory`), the
register contents of a context (`ContextSwitch`) (a context is the point where it goes on and what a wait holds).

## Runs

| run | question | bounds | result |
|---|---|---|---|
| `kernel_lifecycle` | do contexts, statuses, masks and queue stay consistent whatever the tasks do? does the kernel keep the promises of `AbstractTasks`? does the invariant of the safety proofs hold? | 4 slots, 5 tasks created, one priority, matches also during scheduling | 315,719 states |
| `kernel_liveness` | does every READY task of a priority up to 254 run, does a waiter of such a priority return, does a round start with the highest? | 3 slots, 4 tasks, priorities 0, 254 and 255, changed at any time, matches also during scheduling | 81,030 states |
| `kernel_any_timer` | what can a badly timed compare match do at worst, or a task that is never scheduled? do rounds list the others, and only them? does the invariant of the safety proofs still hold? | 4 slots, 4 tasks, priorities 0 and 255, all three timer constants TRUE | 1,401,975 states |
| `prioritize_loop` | does the scan return, and return the closed form? | 3 slots, `UINT8_MAX` 4, priorities 0, 1, 3, 4 | 26,112 states |
| `user_tasks` | does the example program end, and when does it run out of slots? does the invariant of its proofs hold? | the program itself, 5 slots | 8,542 states |
| `context_switch` | does every switch give back registers, stack and place? | 3 tasks, three register patterns and depths, matches anywhere in task code | 1,468,244 states |
| `stack_room` | how far can tasks get out of their blocks before the checks stop them? do the checks stop only tasks that are out of room? | 4 blocks of 300 bytes, tasks take up to three times 37 bytes between switches | 205,119 states |
| `pid_wrap` | is a task found by its pid after the counter has wrapped? | 4 slots, 6 pids | 1,390 states |
| `log` | does the log find what was added, and only that? | 5 bytes, strings of at most 3 of two characters, every content of the buffer | 1,896 states |
| `flags_restored`, `saved_pc_check` | two statements of the source that the code does not keep | as `context_switch` | violated, see Findings |
| `first_block` | no task with room left is stopped, as the layout in the header says | the header's layout: 5 blocks of 649 bytes | violated, see Findings |

Why the bounds are enough. Slots: one is the idle task's and one the scheduler's for ever, so four
leave two that change hands, which is what it takes for one task to be killed, and its slot re-used,
while another waits, is preempted or is still in the queue; three leave one, and still let a slot be
re-used. `MaxPid` beyond the number of slots means that slots are re-used and that the table overflows.
Two priorities give every order of two tasks; 0 and 254 are the ends of what the scan lists, and 255 is what it leaves out.
The properties of scheduling are about priorities up to 254 and say so; `kernel_any_timer` and `kernel_liveness` have tasks of priority 255 beside them (see Findings for what becomes of those).
That rounds of several priorities refine `AbstractTasks` as well is left to the proof: `kernel_lifecycle` has one priority, so that four slots and five tasks stay within reach. `BlockBytes` is the real size; depths stay below 80, so any size above 144
behaves alike, and that is the assumption the module states.

`context_switch`: what a switch does depends on the bytes it moves, not on how many tasks there are; two tasks and the scheduler
give every pair of old and new, and the configuration places the program so that the return point's offset carries from the low into the
middle byte in one place and into the high byte in another. The three patterns give a zero and two non-zero values to every
register. The proofs cover every placement, and all contents of registers and flags. `stack_room`: blocks of 300 bytes hold several calls of 37 bytes and a context before the checks bite, and the first block has a part that is taken for
the OS stack, as in the header. Growth of 37 bytes, a context and one, is the most the checks can catch in time; the example tasks print through
`vfprintf` and may well take more, so the run lets them take 111, enough to write over a neighbour's saved context and, from the first block, over the canaries. The proofs cover every layout and every `MaxGrowth`. `pid_wrap`: with more pids than slots, and few of both, a task can live through a whole
round of the counter. `log`: strings of 3 are too long for the search by prefix and fill more than half of the buffer.

The properties, by what they guard against:

- `StackOwnership`, `OneRunning`, `ReadyIntact`, `PreemptedIntact`: `spawn_task` and `kill_current_task` change
  the table, `active_task_block` and the stack at different moments; the ISR stores a context wherever it strikes.
- `HandoverMasked`: `next_task_sp` is shared with the ISR.
- `QueueTailReady`: the queue is older than the table it is used with.
- `TaskPreemptible`: every path must restore both masks.
- `NoInternalFault`: none of the kernel's own checks can fail, but for a full table.
- `WaitReturnsAfterExit`: the status is read after the mask is lifted, through a pointer found before.
- `RoundListsReadyBelowMax`, `HighestPriorityFirst`, `ReturnsPrioritized`, `Returns`: the scheduling order.
- `ReadyTaskRuns`, `WaiterReturns`: progress, of tasks of priorities up to 254.
- `ImplementsAbstractTasks`: all of this together, as a task sees it.
- `ContextRestored`, `MaskedThroughout`, `NeverLost`: 36 bytes pushed and popped by hand, SP set in two halves, a computed return address, a jump counted by hand.
- `SpillBounded`: overflow is noticed at a switch, not when it happens, and `spawn_task` makes no check.
- `RejectsOnlyFullStacks`: a check that is stricter than it need be stops tasks that are well.
- `AloneIsFound`: the pids ended tasks leave in the table come round again.
- `UserSafe`, `DoneMeansDone`, `Stops`, `FullOnlyBesideWorker2`: what the example program relies on, with six tasks for five slots.
- `AddedAreFound`, `FoundWereAdded`, `PrefixesFound`: the walk looks one entry past the last.
- `WildOnlyInKnownWindows`, and `ReadyIntact` in `kernel_any_timer`: the kernel is fail-stop under any timer.

### Fairness

`FairSpec` assumes that the CPU executes kernel code (weak fairness of boot, the scheduler's steps, switch, interrupt and return) and
that the timer runs (weak fairness of `TimerMatch`). Of task code nothing is assumed: a task may compute for ever,
yield for ever or never call the kernel. A waiter that gets the CPU again and again is assumed to take a step of its wait at some point. That takes a few
hundred cycles of the 128 ms the task has the CPU, but a match in a scheduling pass stays pending until the next task is resumed, and takes the CPU from it before
its first instruction; the assumption includes that this does not happen to a waiter each time it is resumed. The source justifies it where a
pass is shorter than the period, for then the period's matches cannot all fall in passes; the Makefile's default build prints the tables
in each pass (VERBOSE_OUTPUT), over a serial line, and may take longer. Without it `WaiterReturns` fails; `ReadyTaskRuns` does not need it.

Progress of READY tasks rests on `MaxPid` as well: each spawn and exit starts
a new round at the highest priority, so tasks that spawn for ever can starve the lower ones.

`UserSpec` assumes that the kernel acts, and, by strong fairness for each function, that a task which is given the CPU again and
again comes to the end of its loop, or of a call: the loops of the example program are finite, and each turn of the CPU gets them further.

## Findings

- `flags_restored`: a switch ends in `SCILENT_ENABLE_MT`, whose `ori` changes Z, N, V and S after SREG has been restored. A task
  preempted between a comparison and its branch goes on with other flags. A test's comment says that registers are the same as
  before. `ContextRestored` holds of the rest: registers, stack, place, and the flags H, T and C.
- `saved_pc_check`: the check of the saved program counter reads two bytes too low, and an assertion stops the kernel over a sound context whose
  SREG, r0 and the program counter's high byte are 0. It also means that the low bytes of the program counter are never checked.
- `first_block`: the OS stack's region ends at 0x3FF, inside block 0, which starts at 0x350 (the layout in `memory_layout.hpp:9` ends the OS stack at 0x34F), and `memory_region` asks
  for the OS stack first. The first task is stopped with up to 176 bytes of its block left. `RejectsOnlyFullStacks` is about the other blocks.

What else differs from what names and comments suggest. The models have the behaviour of the code; no run is made of
these for their own sake:

- `RESET_TIMER` resets no timer. `CLEAR_IO_REG` subtracts 0x20 from the register's address, as `out` would need, but uses `sts`: it
  clears PRR1 and PRR0 at 0x65 and 0x64, and TCNT1 runs on. Hence matches anywhere in `Simplos`.
- `spawn` and `set_priority` accept priority 255, and no round lists a task that has it (`scheduler.cpp:36`): it is never scheduled again. The
  test `test_reschedule_reschedules_all_tasks_with_staus_ready` (`tests/test_scheduler.cpp:83`) says otherwise by its name, but has priorities up to 10.
  `RoundListsReadyBelowMax` says that rounds list the other READY tasks and not these; `ReadyTaskRuns`, `WaiterReturns` and `HighestPriorityFirst` are about the others only.
- A compare match between a yield's `cli` and the scheduler's `DISABLE_MT` is served inside the scheduler. That switch stores the
  scheduler's stack pointer in `prev_task_sp`, finds `next_task_sp` unset and resumes the scheduler, which then takes `prev_task_sp` for the
  yielding task's. `assert_task_pointer_integrity` (`memory.cpp:64`) stops the system. `kernel_any_timer` has these matches.
- `scheduler.hpp:20` says the queue is in decreasing order; the code (and its test) fills it in ascending order, and serves it from its end.
- A test is named `test_get_task_disables_mt_on_exit` (and is empty); `get_task` enables MT on exit, and must (`TaskPreemptible`).
- The log's walk also looks at the address after the last entry, and finds the empty string there if the byte is 0: hence the exception in `FoundWereAdded`.
- After 65536 tasks `pid_cnt` is 0 again, and the check against a second start (`simplos.cpp:81`) does not see that the kernel has run: in `PidWrap`
  `main` then goes on over living tasks.

## Proofs

All proofs about the kernel are for every number of slots, every set of priorities and every `MaxPid`, from the named
assumptions of `Prioritize` and `Simplos`; those about `Memory` and `PidWrap` are for every layout and every range of pids, and those about
`ContextSwitch` for every placement of the code and all contents of registers.

- `TypeCorrect` (`SimplosProofs`): `Spec => []TypeOK`, whatever the three timer constants are. `TypeOK` is not inductive: popping a
  context from a stack keeps a depth non-negative only if the context was pushed there. `TypeInv` adds that, and each action has its lemma.
- `ScanIsPrioritize` (`PrioritizeLoopProofs`): `Spec => []ReturnsPrioritized`. The loop's invariant `LoopInv` says that the tasks listed so
  far are those before the scan's position in (priority, slot) order, each at its place, and that the rest of
  the list is as given. `ScanInsideList`, its type correctness, says that no step writes past the list. A step that lists a task puts it at `num_sored`, which is the number of tasks before it, hence its place.
- `PrioritizeProofs`: `PlaceRange`, `PlaceInjective` and `PlaceOnto` say that places number the schedulable tasks from 0 without
  gaps, `PrioritizedList` and `PrioritizedAll` that the list's entries are those tasks and all of them, and `LastIsHighest` that the
  entry a round starts with has the highest priority.
- `Phases` (`SimplosProofs`) and the ten theorems after it: every safety property that `kernel_lifecycle`, `kernel_any_timer` and
  `kernel_liveness` check of the kernel.
- `WaitersSafe` and `WaitersReturnAfterExit` (`SimplosProofs`): what a waiter may rely on, and that its wait ends when it should.
- `Implements` (`SimplosProofs`): `Spec => ImplementsAbstractTasks`, from the invariant `RefinableAlways` shows.
- `BlocksDisjoint`, `SpillsBounded`, `ChecksAreFair` (`MemoryProofs`): blocks share no address; however much tasks take between two switches, none writes further
  below its block than that growth goes beyond what the checks make room for (`Unprotected`); the checks stop only tasks that have no room left, in the blocks that count as task RAM and
  while the canaries are whole. `StacksStayApart` is what follows where tasks take no more than a context and a byte: nobody writes to a stack or a canary that is not its own.
  The invariant says where a task that runs was resumed (at its block's top, or at a place that was checked and leaves a context's room), that it is at most
  `MaxGrowth` below, how far it can have written, and what a halted kernel had seen. Only the check of the *future* stack pointer makes it inductive, and it takes `RoomAssumption`, that a block has room for two contexts.
- `LivingTasksFound` (`PidWrapProofs`): `get_task` finds a living task that shares its pid with no living task. The invariant `NoneBelow` says that no
  slot below such a task's holds its pid, which follows from `add_to_task_list` taking the first free slot: those below were living, with other pids,
  when it was created, and slots below it get only pids that are new since. Taking the last free slot would break it.
- `DoneIsDone` and `OverflowBesideWorker2` (`UserTasksProofs`): what the example program relies on, on any kernel that keeps the promises
  of `AbstractTasks`, with five slots or more (`PlacesAssumption`) and in whatever order the kernel runs the tasks. See below.
- `NeverLostHolds`, `MaskedThroughoutHolds`, `ContextRestoredHolds` (`ContextSwitchProofs`): every instruction of the switch, from the first in the stack
  frame of one task to the `ret` or `reti` in that of another, does what `Simplos` takes a switch to do. See below.
- `AddedFound`, `FoundAdded` and `PrefixSearch` (`LogProofs`): the log holds what was added since the last `clear` and nothing but that, for every
  size of the buffer, every limit on the strings and whatever the buffer holds to begin with. See below.

### The inductive invariant

The invariant and most theorems hold for every timer and all priorities. Two named assumptions are made where the code needs
them, and a theorem that makes one says so:

- `Punctual`: no compare match before the scheduler's first pass (`BootOverrun`) or in the windows around a switch (`LateMatch`). A match
  during the scheduler's work (`SchedulerOverrun`) is allowed.
- `AllListed`: no task has priority 255, which `prioritize_tasks` leaves out (`Schedulable`). With such tasks the scheduler may find none to run, and halts.

| for every timer and all priorities | with `Punctual` | with `Punctual` and `AllListed` |
|---|---|---|
| `Phases`, `StacksOwned`, `OneTaskRuns`, `ReadyContextsIntact`, `QueueTailServable`, `HandoverUndisturbed`, `TasksPreemptible`, `WildFromKnownWindows`, `WaitersSafe`, `WaitersReturnAfterExit`, `RoundsComplete`, `RoundsStartHighest` | `PreemptedContextIntact`, `RefinableAlways`, `Implements` | `KernelNeverFaults` |

So a badly timed match costs the kernel its progress, never a READY task its context: it halts on its own assertion, or it leaves for unknown code
(`Astray`), from where the wrap-around of `simplos.hpp:35` ends in the check against a second start.

None of the properties is inductive. That a READY task's context is intact, say, holds after a switch
only if the stack pointer was on the outgoing task's own stack, only one task was RUNNING, the scheduler's own context was
saved, and `next_task_sp` was clear: each of these is needed for the others. `Safe` therefore says everything that
holds in each of fourteen phases: `InMain`, `InIdle`, `InStart` before the scheduler runs; `InTaskCode`, `Leaving` and `Entering` on a
task's stack; `Resumed`, `InLoop`, `InHandle`, `InSelect`, `InPrepare` and `HandingOver` on the scheduler's; `Astray` once the CPU has gone past a context that was never saved; and `Ended`. `Settled` is what all
phases after boot share. One lemma per phase shows to which phase its steps lead (`MainStep` to `EndedStep`):

    InMain -> InIdle -> InStart -> InLoop -> InHandle -> InSelect -> InPrepare -> HandingOver
                                     ^                                               |
                                  Resumed <- Leaving <- InTaskCode <- Entering <-----+
                                     ^------- (timer) -------+

With a timer that is not punctual there are five more ways. A match that is pending leaves a phase with the I bit clear as it is (`Quiet` says that a
punctual timer has none there). `InStart` and `Resumed` may go to `Astray`: the context the ISR is to load has never been saved
(`StartInterrupted`), or is gone (`ResumedInterrupted`). `InLoop` may go back to `Resumed` (`LoopInterrupted`): the ISR has interrupted the
scheduler and resumed it, and `prev_task_sp` is now the scheduler's own, which is the second case of `Previous`. `InHandle` then ends in
`Ended`: the assertion on the task's block fails, and that is why no READY task ever gets a stack pointer that is not its own.

`SwitchToScheduler` and `SwitchToTask` are the two uses of `CONTEXT_SWTICH`. They rest on `OthersKept` and
`CutKeepsOthers`: a push or a pop on one block leaves the contexts in other blocks alone. `SwitchToTask` has
two cases, because in the first pass the scheduler runs below the frame `start_scheduler` saved, and later at the top of its stack. The
kernel's assertions in `handle_previous_task` and `prepare_next_task` are discharged in `HandleStep` and `PrepareStep`; that
`select_next_task` never finds the table without a READY task if all priorities are listed, in `SelectStep`, because the idle task never ends.

For `WaitReturnsAfterExit` the invariant `PidSafe` adds that a pid other than 0 is in one slot only and below `pid_cnt`, that pid 0 is the
idle task's, and that whoever is between `get_task` and the read of the status (running, or in a saved context) points to the only
slot that may hold a living task with that pid. A new task never makes that false, because its pid is new.

### The refinement

With a punctual timer `ContextsPlaced` holds in every phase that `Safe` describes: a living task's context is the CPU, or lies at `Saved(s)`, the top of the task's own
stack with one context on it, however the mapping finds it (`task_sp_adr`, `prev_task_sp` or `next_task_sp`). So the
mapped table depends on a slot's entry and on one place only (`View`), and a step that touches neither leaves the mapping alone
(`TaskBarKept`); a step of one task changes one entry (`TaskBarWith`, `TaskBarWithout`). One lemma per phase (`MainRefines` to `HandingOverRefines`)
then names the abstract action, or the stutter, that each step of the phase is. The rest of the round is the queue below `queue_position`:
`invalidate_scheduled_queue` empties both, and `select_next_task` either takes the queue's last entry or a new list's, which
`PrioritizedAll` shows to be all living tasks of the priorities up to 254, in ascending order (`Choose`), or finds none and halts (`Reject`). `Refinable` adds to `PidSafe` that the scheduler is the
second task created (`SchedulerIsSecond`): it keeps pid 1 in a slot that never becomes free, so a wait for pid 1 ends in neither specification.

Without `Punctual` there is no refinement: a halt on the assertion, or of a kernel that has gone astray, is no promise anybody would want.

### The example program

That a task has ended when another comes back from a wait for it is what the kernel promises; that it can never be waited for
by the wrong task, or before it has been started, depends on the whole program. `UserSafe` says for each task who has been started (whoever an earlier step of some function started: `Starts`), whom it
waits for (the task its function names, whose pid it has got by then: `WaitsNow`), that a task once waited for is gone for ever (`WaitsOver`; its pid
is never given again), and that tasks go only at the end of their functions (`Lives`). `DoneMeansDone` follows: at `Stop` both waits of the idle task and, as the waiter
is gone, the waiter's own are over. `FullOnlyBesideWorker2` is a conjunct of the invariant, by a pigeonhole (`ThreeLeaveAPlace`):
wherever a function starts a task while worker2 is not alive, at most three of the program's tasks are, and with the scheduler they leave one of five slots free.

### The log

`LogInv` says that there is a set of addresses, among them 0 and `next_entry_index`, each but the last the start of an entry that was added,
followed by another of them, and each but the first the successor of one; and that every entry that was added starts at one of them (`Divides`). Adding an entry changes no byte
before `next_entry_index`, so the strings there stay as long as they are. `WalkedIs` then follows the walk: from every one of
these addresses it finds only what was added, and, past the end, perhaps the empty string. `From` is a recursive function, and that such a function exists has to be proved
before anything can be said of it (`FromIs`): the walk only goes up and stops inside the buffer, which is where `TypeOK` and the 0 behind the buffer are needed.

### The switch

`Inductive` is about some three hundred instructions, so most of the proof is about where they are. The argument has five layers:

1. The code in flash. `Runs(b, m)` says that macro `m` lies at `b`; the pieces do not overlap, so each lies where the linker put it (`Places`), and one lemma per macro names the instruction
   at each offset. Lemmas about all of the code (`CodeWellFormed`, and what is *not* a `ret`, or a `push` before `in_sreg`) go through the macros once.
2. Steps. For each kind of instruction a lemma says what `Execute` does with it, that no interrupt comes in between, and what it leaves alone. `TypeInv` follows: it is
   `TypeOK` with the range of SP and the program counter, and needs the return addresses of `WithPc` and `PcAbove` to be three bytes' worth.
3. Worlds. `Frame` is a whole context: its place on the owner's stack, a return point in that owner's code, and that registers, SREG and the stack above are those recorded in
   `left`. A world (`TaskWorld`, `SpawnWorld`, `BootWorld`, `PassWorld`, `ChosenWorld`, `ResumeWorld`) says whose contexts are saved and what the kernel's words point to.
   A store on one task's stack leaves the frames of the others alone, and a frame on the same stack if it lies above.
4. Phases. Each macro at work, with what its instructions so far have put into registers and memory, by offset: `Saving`, `StoringTaskSp`, `StoringOther`, `Disabling`, `Selecting` up to the
   choice; `Clearing`, `Restoring`, `Popping`, `Finishing`, `Resuming` after it; and those of `spawn_task`, `start_scheduler` and task code. `IInv` is their disjunction, and a lemma
   per phase says to which phase each of its instructions leads. `Returning` follows the three bytes of the return point, with the carries, through `SET_RETURN_POINT`.
5. The properties. `NeverLost` holds in every phase. `MaskedThroughout` needs that every phase between the first instruction of a switch and its
   `out` to SREG has the I flag clear, and that after it the flag is the resumed context's, which is set for the scheduler's first
   context only (`Excused`). `ContextRestored` is about the steps from `Resuming`, the only phase at a `ret` or `reti`.

None of the three properties is inductive, and none can be proved without the others: that registers are restored rests on the frame's place, that on the choice of
`next_task_sp` or `scheduler_task_sp`, and that on no interrupt between the two. `pc = Malformed` is a case of `IInv` of its own: the
misplaced check of the saved program counter can stop the kernel at any pass (see Findings). What stays fixed is the number of tasks, the addresses of the globals and the
blocks, and the bounds `MaxDepth` and `StackBytes`.

### Only model-checked

The liveness properties (`ReadyTaskRuns`, `WaiterReturns`, `Returns` of `PrioritizeLoop` and `Stops`): fairness is out of the prover's reach. Every other property of the passing
runs is stated by a theorem. The three runs that expect a violation have no theorem, of course.

## Not modelled

- What the scheduler writes to its own stack: each pass starts at the same stack pointer, and no check looks at it.
- The heap: measured at boot, used by nobody (`malloc` returns null).
- The compiler's code around the macros: register allocation, prologues, and `-fno-defer-pop`. The macros are modelled as written.
- A compare match in the middle of a switch, in `ContextSwitch`: interrupts are off there (`MaskedThroughout`), and what
  a match that stays pending does to the kernel is `Simplos`'s subject.
- Boot's UART set-up, the serial port (polled I/O), printing, and the measurement ticks, which are only printed. A print in task code
  shuts out interrupts for its duration, which delays a match; a match anywhere in task code covers that.
- `Option`, `Array` and `sstd`, which the kernel does not use; the mock HAL and the tests, which are read as statements about the program.

---------------------------- MODULE MemoryProofs ----------------------------
(***************************************************************************)
(* Proofs about Memory: the blocks the tasks' stacks get do not overlap,   *)
(* and the checks of the scheduler bound how far below its own a task      *)
(* writes, whatever it takes between two switches.                         *)
(***************************************************************************)
EXTENDS Memory, TLAPS

\* Products of a block's size and its number, which the SMT solver is told rather than asked.
LEMMA SizeIsNat == task_memory_size \in Nat
BY TasksMaxAssumption, LayoutAssumption DEF task_memory_size

\* Successive multiples of a number are that number apart.
LEMMA Multiples ==
    ASSUME NEW n \in Nat, NEW a \in Nat, NEW b \in Nat, a < b
    PROVE  n * a \in Nat /\ n * b \in Nat /\ n * a + n =< n * b
<1>1. PICK d \in Nat : b = a + 1 + d
  <2>1. b - a - 1 \in Nat /\ b = a + 1 + (b - a - 1)
    OBVIOUS
  <2> QED  BY <2>1
<1>2. n * b = n * a + n + n * d
  BY <1>1, SMT
<1>3. n * d \in Nat /\ n * a \in Nat /\ n * b \in Nat
  BY SMT
<1> QED  BY <1>2, <1>3

\* All blocks together fit where memory_layout.hpp puts them.
LEMMA BlocksFit == task_memory_size * tasks_max =< task_ram_start - task_ram_end
BY TasksMaxAssumption, LayoutAssumption, SMTT(30) DEF task_memory_size

\* The addresses of a block (task_sp_range_low, task_sp_range_high) are task RAM.
LEMMA BlockBounds ==
    ASSUME NEW b \in Blocks
    PROVE  /\ task_sp_range_low(b) \in Nat
           /\ task_ram_end =< task_sp_range_low(b)
           /\ task_sp_range_high(b) = task_sp_range_low(b) + task_memory_size - 1
           /\ task_sp_range_high(b) < task_ram_start
<1>1. b \in Nat /\ b < tasks_max /\ tasks_max \in Nat
  BY TasksMaxAssumption DEF Blocks
<1>2. /\ task_memory_size * b \in Nat
      /\ task_memory_size * b + task_memory_size =< task_memory_size * tasks_max
  BY <1>1, SizeIsNat, Multiples
<1>3. task_memory_size * tasks_max \in Nat
  BY <1>1, SizeIsNat, Multiples
<1> QED
  BY <1>1, <1>2, <1>3, BlocksFit, SizeIsNat, LayoutAssumption
  DEF task_sp_range_low, task_sp_range_high

\* Two tasks' blocks have no address in common.
THEOREM BlocksDisjoint ==
    ASSUME NEW b \in Blocks, NEW c \in Blocks, b < c
    PROVE  task_sp_range_high(b) < task_sp_range_low(c)
<1>1. b \in Nat /\ c \in Nat
  BY DEF Blocks
<1>2. task_memory_size * b + task_memory_size =< task_memory_size * c
      /\ task_memory_size * b \in Nat /\ task_memory_size * c \in Nat
  BY <1>1, SizeIsNat, Multiples
<1> QED
  BY <1>1, <1>2, SizeIsNat, LayoutAssumption DEF task_sp_range_low, task_sp_range_high

-----------------------------------------------------------------------------
(* The checks bound what a task writes below its block. *)

\* What the checks leave a task: two contexts' room where it is resumed.
Room ==
    mode = "task" =>
        /\ SP =< task_sp_range_high(active_task_block)
        /\ resumed_at - SP =< MaxGrowth
        /\ task_sp_range_low(active_task_block) + 2 * num_context_switch_overhead_bytes =< resumed_at

\* A suspended task's context was saved below the top of its own block.
SavedInside ==
    \A b \in Blocks :
        status[b] = "READY" =>
            task_sp_adr[b] + num_context_switch_overhead_bytes =< task_sp_range_high(b)

IInv == TypeOK /\ SpillBounded /\ Room /\ SavedInside /\ RejectsOnlyFullStacks

\* Where a block begins and ends; it has room for two contexts.
LEMMA BlockNumbers ==
    ASSUME NEW b \in Blocks
    PROVE  /\ task_sp_range_low(b) \in Nat /\ task_sp_range_high(b) \in Nat
           /\ task_ram_end =< task_sp_range_low(b)
           /\ task_sp_range_low(b) + 2 * num_context_switch_overhead_bytes =< task_sp_range_high(b)
BY BlockBounds, SizeIsNat, RoomAssumption, UseAssumption, LayoutAssumption

\* What is not protected is a number of bytes.
LEMMA UnprotectedIsNat ==
    /\ num_context_switch_overhead_bytes \in Nat /\ MaxGrowth \in Nat
    /\ Unprotected \in Nat
    /\ MaxGrowth - num_context_switch_overhead_bytes - 1 =< Unprotected
BY UseAssumption, LayoutAssumption DEF Unprotected, Larger

\* A push that ends at or above the block's first byte overwrites nothing of another's.
LEMMA PushStaysInside ==
    ASSUME TypeOK, NEW bytes \in Nat,
           SP =< task_sp_range_high(active_task_block),
           task_sp_range_low(active_task_block) =< SP - bytes + 1
    PROVE  Victims(bytes) = {} /\ CanariesAfter(bytes) = {canary_bytes}
<1>1. active_task_block \in Blocks /\ SP \in Nat
  BY DEF TypeOK
<1>2. ASSUME NEW b \in Blocks, b # active_task_block,
             Hit(task_sp_range_low(b), task_sp_range_high(b), bytes)
      PROVE  FALSE
  <2>1. task_sp_range_low(b) \in Nat /\ task_sp_range_high(b) \in Nat
        /\ task_sp_range_low(active_task_block) \in Nat
        /\ task_sp_range_high(active_task_block) \in Nat
    BY <1>1, BlockNumbers
  <2>2. CASE b < active_task_block
    <3>1. task_sp_range_high(b) < task_sp_range_low(active_task_block)
      BY <1>1, <2>2, BlocksDisjoint
    <3> QED  BY <1>1, <1>2, <2>1, <3>1 DEF Hit
  <2>3. CASE active_task_block < b
    <3>1. task_sp_range_high(active_task_block) < task_sp_range_low(b)
      BY <1>1, <2>3, BlocksDisjoint
    <3> QED  BY <1>1, <1>2, <2>1, <3>1 DEF Hit
  <2>4. b < active_task_block \/ active_task_block < b
    BY <1>1, <1>2, TasksMaxAssumption DEF Blocks
  <2> QED  BY <2>2, <2>3, <2>4
<1>3. Victims(bytes) = {}
  BY <1>2 DEF Victims
<1>4. ~Hit(canary_end, canary_start, bytes)
  BY <1>1, BlockBounds, LayoutAssumption DEF Hit
<1> QED  BY <1>3, <1>4 DEF CanariesAfter

\* A push that goes no further below the block than is allowed keeps the bound.
LEMMA PushBounded ==
    ASSUME TypeOK, SpillBounded, NEW bytes \in Nat, Pushed(bytes),
           SP =< task_sp_range_high(active_task_block),
           task_sp_range_low(active_task_block) - (SP - bytes + 1) =< Unprotected
    PROVE  /\ SP - bytes \in Nat /\ beyond' \in Nat
           /\ overwritten' \subseteq Blocks /\ canary_bytes' \in {"set", "changed"}
           /\ SpillBounded'
<1> DEFINE below == task_sp_range_low(active_task_block) - (SP - bytes + 1)
<1>1. /\ active_task_block \in Blocks /\ SP \in Nat /\ beyond \in Nat
      /\ registers_start \in Nat /\ registers_start =< SP - bytes
      /\ task_sp_range_low(active_task_block) \in Nat
      /\ beyond =< Unprotected /\ Unprotected \in Nat
  BY BlockNumbers, UnprotectedIsNat, LayoutAssumption DEF TypeOK, SpillBounded, Pushed
<1>2. SP - bytes \in Nat /\ below \in Int /\ below =< Unprotected
  BY <1>1
<1>3. beyond' = IF beyond < below THEN below ELSE beyond
  BY DEF Pushed, Larger
<1>4. beyond' \in Nat /\ beyond' =< Unprotected
  BY <1>1, <1>2, <1>3
<1>5. overwritten' \subseteq overwritten \cup Victims(bytes)
  BY DEF Pushed
<1>6. overwritten' \subseteq Blocks
  BY <1>5 DEF Victims, TypeOK
<1>7. canary_bytes' \in {"set", "changed"}
  BY DEF Pushed, CanariesAfter, TypeOK
<1>8. ASSUME beyond' = 0 PROVE overwritten' = {} /\ canary_bytes' = "set"
  <2>1. beyond = 0 /\ below =< 0
    BY <1>1, <1>2, <1>3, <1>8
  <2>2. overwritten = {} /\ canary_bytes = "set"
    BY <2>1 DEF SpillBounded
  <2>3. task_sp_range_low(active_task_block) =< SP - bytes + 1
    BY <1>1, <1>2, <2>1
  <2>4. Victims(bytes) = {} /\ CanariesAfter(bytes) = {canary_bytes}
    BY <2>3, PushStaysInside
  <2>5. overwritten' = {}
    BY <1>5, <2>2, <2>4
  <2> QED  BY <2>2, <2>4, <2>5 DEF Pushed
<1>9. Unprotected' = Unprotected
  BY DEF Unprotected, Larger
<1>10. SpillBounded'
  BY <1>4, <1>8, <1>9 DEF SpillBounded
<1> QED  BY <1>2, <1>4, <1>6, <1>7, <1>10

\* So does the context a switch pushes, wherever in its turn the task is.
LEMMA ContextBounded ==
    ASSUME IInv, mode = "task", Pushed(num_context_switch_overhead_bytes)
    PROVE  /\ SP - num_context_switch_overhead_bytes \in Nat /\ beyond' \in Nat
           /\ overwritten' \subseteq Blocks /\ canary_bytes' \in {"set", "changed"}
           /\ SpillBounded'
<1>1. /\ active_task_block \in Blocks /\ SP \in Nat /\ resumed_at \in Nat
      /\ task_sp_range_low(active_task_block) \in Nat
  BY BlockNumbers DEF IInv, TypeOK
<1>2. task_sp_range_low(active_task_block) - (SP - num_context_switch_overhead_bytes + 1)
         =< Unprotected
  BY <1>1, UnprotectedIsNat DEF IInv, Room
<1>3. SP =< task_sp_range_high(active_task_block)
  BY DEF IInv, Room
<1> QED  BY <1>2, <1>3, UnprotectedIsNat, PushBounded DEF IInv

\* Arithmetic on a uint16_t that does not wrap.
LEMMA NoWrap == ASSUME NEW x \in Nat, x < 65536 PROVE x % 65536 = x
BY SMT

\* The stack pointers a task gets lie in its block, and the checks leave room below them.
LEMMA CheckedRoom ==
    ASSUME NEW b \in Blocks, NEW a \in Nat, NEW canaries,
           assert_task_pointer_integrity(b, a, canaries)
    PROVE  task_sp_range_low(b) + num_context_switch_overhead_bytes =< a
<1>1. task_sp_range_low(b) \in Nat /\ task_sp_range_high(b) \in Int
      /\ task_ram_end =< task_sp_range_low(b) /\ task_sp_range_high(b) < task_ram_start
  BY BlockBounds, SizeIsNat
<1>2. /\ task_sp_range_low(b) =< a /\ a =< task_sp_range_high(b)
      /\ task_sp_range_low(b) =< (a - num_context_switch_overhead_bytes) % 65536
  BY DEF assert_task_pointer_integrity, mem_adr_belongs_to_task, in_region
<1>3. a - num_context_switch_overhead_bytes \in Nat
      /\ a - num_context_switch_overhead_bytes < 65536
  BY <1>1, <1>2, LayoutAssumption, UseAssumption
<1>4. (a - num_context_switch_overhead_bytes) % 65536 = a - num_context_switch_overhead_bytes
  BY <1>3, NoWrap
<1> QED  BY <1>1, <1>2, <1>3, <1>4, UseAssumption

\* A stack pointer with room below it, in a block clear of the OS stack, is rejected only if
\* the canaries have changed.
LEMMA RejectedWithRoom ==
    ASSUME NEW b \in Blocks, NEW a \in Nat, NEW canaries,
           a + num_context_switch_overhead_bytes =< task_sp_range_high(b),
           a + 1 - task_sp_range_low(b) > num_context_switch_overhead_bytes,
           os_stack_start < task_sp_range_low(b),
           ~assert_task_pointer_integrity(b, a, canaries)
    PROVE  canaries # "set"
<1>1. /\ task_sp_range_low(b) \in Nat /\ task_sp_range_high(b) \in Int
      /\ task_ram_end =< task_sp_range_low(b) /\ task_sp_range_high(b) < task_ram_start
      /\ num_context_switch_overhead_bytes \in Nat
  BY BlockBounds, SizeIsNat, UseAssumption, LayoutAssumption
<1>2. a - num_context_switch_overhead_bytes \in Nat
      /\ a - num_context_switch_overhead_bytes < 65536
  BY <1>1, LayoutAssumption
<1>3. (a - num_context_switch_overhead_bytes) % 65536 = a - num_context_switch_overhead_bytes
  BY <1>2, NoWrap
<1>4. /\ mem_adr_belongs_to_task(a, b)
      /\ mem_adr_belongs_to_task((a - num_context_switch_overhead_bytes) % 65536, b)
  BY <1>1, <1>3 DEF mem_adr_belongs_to_task, in_region
<1>5. in_task_ram(a)
  BY <1>1, LayoutAssumption DEF in_task_ram, in_region
<1> QED  BY <1>4, <1>5 DEF assert_task_pointer_integrity

\* So whatever step stops the kernel at such a stack pointer keeps RejectsOnlyFullStacks.
LEMMA StoppedFully ==
    ASSUME NEW b \in Blocks, NEW a \in Nat, active_task_block' = b, task_sp_adr'[b] = a,
           a + num_context_switch_overhead_bytes =< task_sp_range_high(b),
           canary_bytes' \in {"set", "changed"},
           mode' = "halted" => ~assert_task_pointer_integrity(b, a, canary_bytes')
    PROVE  RejectsOnlyFullStacks'
<1>1. RoomLeft' = a + 1 - task_sp_range_low(b)
  BY DEF RoomLeft, task_sp_range_low
<1>2. (os_stack_start < task_sp_range_low(active_task_block))'
          <=> os_stack_start < task_sp_range_low(b)
  BY DEF task_sp_range_low
<1>3. task_sp_range_low(b) \in Nat /\ num_context_switch_overhead_bytes \in Nat
  BY BlockNumbers, UnprotectedIsNat
<1>4. ASSUME mode' = "halted", os_stack_start < task_sp_range_low(b),
             ~(a + 1 - task_sp_range_low(b) =< num_context_switch_overhead_bytes)
      PROVE  canary_bytes' = "changed"
  <2>1. a + 1 - task_sp_range_low(b) > num_context_switch_overhead_bytes
    BY <1>3, <1>4
  <2>2. canary_bytes' # "set"
    BY <1>4, <2>1, RejectedWithRoom
  <2> QED  BY <2>2
<1> QED  BY <1>1, <1>2, <1>4 DEF RejectsOnlyFullStacks

LEMMA InvInit == Init => IInv
<1> SUFFICES ASSUME Init PROVE IInv
  OBVIOUS
<1>1. 0 \in Blocks
  BY TasksMaxAssumption DEF Blocks
<1>2. TypeOK
  BY <1>1, BlockNumbers DEF TypeOK, Init
<1>3. Room
  BY <1>1, BlockNumbers, UnprotectedIsNat DEF Room, Init
<1>4. SpillBounded
  BY UnprotectedIsNat DEF SpillBounded, Init
<1> QED  BY <1>2, <1>3, <1>4 DEF IInv, SavedInside, RejectsOnlyFullStacks, Init

LEMMA InvNext == IInv /\ [Next]_vars => IInv'
<1> SUFFICES ASSUME IInv, [Next]_vars PROVE IInv'
  OBVIOUS
<1>0. /\ num_context_switch_overhead_bytes \in Nat /\ MaxGrowth \in Nat /\ Steps \subseteq Nat
      /\ SP \in Nat /\ resumed_at \in Nat /\ active_task_block \in Blocks
      /\ TypeOK /\ SpillBounded
  BY UseAssumption, UnprotectedIsNat DEF IInv, TypeOK
<1>b. \A b \in Blocks :
          /\ task_sp_range_low(b) \in Nat /\ task_sp_range_high(b) \in Nat
          /\ task_sp_range_low(b) + 2 * num_context_switch_overhead_bytes =< task_sp_range_high(b)
  BY BlockNumbers
<1>u. /\ Unprotected \in Nat /\ Unprotected' = Unprotected
      /\ MaxGrowth - num_context_switch_overhead_bytes - 1 =< Unprotected
  BY UnprotectedIsNat DEF Unprotected, Larger
<1>1. ASSUME NEW bytes \in Steps, Call(bytes) PROVE IInv'
  <2>1. bytes \in Nat /\ mode = "task" /\ Pushed(bytes)
    BY <1>0, <1>1 DEF Call
  <2>2. /\ task_sp_range_low(active_task_block) - (SP - bytes + 1) =< Unprotected
        /\ SP =< task_sp_range_high(active_task_block)
    BY <1>0, <1>1, <1>b, <1>u, <2>1 DEF Call, IInv, Room
  <2>3. /\ SP - bytes \in Nat /\ beyond' \in Nat /\ overwritten' \subseteq Blocks
        /\ canary_bytes' \in {"set", "changed"} /\ SpillBounded'
    BY <1>0, <2>1, <2>2, PushBounded
  <2>4. TypeOK'
    BY <1>0, <1>1, <2>3 DEF Call, TypeOK
  <2>5. Room'
    BY <1>0, <1>1, <1>b, <2>1 DEF Call, IInv, Room
  <2>6. SavedInside'
    BY <1>1 DEF Call, IInv, SavedInside
  <2>7. RejectsOnlyFullStacks'
    BY <1>1, <2>1 DEF Call, RejectsOnlyFullStacks
  <2> QED  BY <2>3, <2>4, <2>5, <2>6, <2>7 DEF IInv
<1>2. ASSUME NEW bytes \in Steps, Return(bytes) PROVE IInv'
  <2>1. TypeOK'
    BY <1>0, <1>2 DEF Return, TypeOK
  <2>2. SpillBounded'
    BY <1>0, <1>2, <1>u DEF Return, SpillBounded
  <2>3. Room'
    BY <1>0, <1>2, <1>b DEF Return, IInv, Room
  <2>4. SavedInside'
    BY <1>2 DEF Return, IInv, SavedInside
  <2>5. RejectsOnlyFullStacks'
    BY <1>2 DEF Return, RejectsOnlyFullStacks
  <2> QED  BY <2>1, <2>2, <2>3, <2>4, <2>5 DEF IInv
<1>3. CASE Suspend
  <2> DEFINE saved == SP - num_context_switch_overhead_bytes
  <2>1. /\ saved \in Nat /\ beyond' \in Nat /\ overwritten' \subseteq Blocks
        /\ canary_bytes' \in {"set", "changed"} /\ SpillBounded'
    BY <1>3, ContextBounded DEF Suspend
  <2>2. mode' \in {"scheduler", "halted", "astray"}
        /\ (mode' = "halted" =>
              ~assert_task_pointer_integrity(active_task_block, saved, canary_bytes'))
    BY <1>3, Zenon DEF Suspend, GoesOn
  <2>3. TypeOK'
    BY <1>0, <1>3, <2>1, <2>2 DEF Suspend, TypeOK
  <2>4. Room'
    BY <2>2 DEF Room
  <2>5. saved + num_context_switch_overhead_bytes =< task_sp_range_high(active_task_block)
    BY <1>0, <1>3, <1>b DEF Suspend, IInv, Room
  <2>6. SavedInside'
    BY <1>0, <1>3, <2>5 DEF Suspend, IInv, SavedInside, TypeOK
  <2>7. task_sp_adr'[active_task_block] = saved /\ active_task_block' = active_task_block
    BY <1>0, <1>3 DEF Suspend, TypeOK
  <2>8. RejectsOnlyFullStacks'
    BY <1>0, <1>b, <2>1, <2>2, <2>5, <2>7, StoppedFully
  <2> QED  BY <2>1, <2>3, <2>4, <2>6, <2>8 DEF IInv
<1>4. CASE Exit
  <2>1. /\ SP - num_context_switch_overhead_bytes \in Nat /\ beyond' \in Nat
        /\ overwritten' \subseteq Blocks
        /\ canary_bytes' \in {"set", "changed"} /\ SpillBounded'
    BY <1>4, ContextBounded DEF Exit
  <2>2. mode' \in {"scheduler", "astray"}
    BY <1>4, Zenon DEF Exit, GoesOn
  <2>3. TypeOK'
    BY <1>0, <1>4, <1>b, <2>1, <2>2 DEF Exit, TypeOK
  <2>4. Room' /\ RejectsOnlyFullStacks'
    BY <2>2 DEF Room, RejectsOnlyFullStacks
  <2>5. SavedInside'
    BY <1>4 DEF Exit, IInv, SavedInside, TypeOK
  <2> QED  BY <2>1, <2>3, <2>4, <2>5 DEF IInv
<1>5. ASSUME NEW new \in Blocks, Spawn(new) PROVE IInv'
  <2>1. /\ SP - num_context_switch_overhead_bytes \in Nat /\ beyond' \in Nat
        /\ overwritten' \subseteq Blocks
        /\ canary_bytes' \in {"set", "changed"} /\ SpillBounded'
    BY <1>5, ContextBounded DEF Spawn
  <2>2. TypeOK'
    BY <1>0, <1>5, <1>b, <2>1 DEF Spawn, Runs, TypeOK
  <2>3. Room'
    BY <1>0, <1>5, <1>b DEF Spawn, Runs, Room
  <2>4. SP - num_context_switch_overhead_bytes + num_context_switch_overhead_bytes
           =< task_sp_range_high(active_task_block)
    BY <1>0, <1>5, <1>b DEF Spawn, IInv, Room
  <2>5. SavedInside'
    BY <1>0, <1>5, <2>4 DEF Spawn, IInv, SavedInside, TypeOK
  <2>6. RejectsOnlyFullStacks'
    BY <1>5 DEF Spawn, RejectsOnlyFullStacks
  <2> QED  BY <2>1, <2>2, <2>3, <2>5, <2>6 DEF IInv
<1>6. ASSUME NEW block \in Blocks, Resume(block) PROVE IInv'
  <2>1. /\ task_sp_adr[block] \in Nat
        /\ task_sp_adr[block] + num_context_switch_overhead_bytes =< task_sp_range_high(block)
    BY <1>6 DEF Resume, IInv, TypeOK, SavedInside
  <2>2. SpillBounded'
    BY <1>0, <1>6, <1>u DEF Resume, SpillBounded
  <2>3. SavedInside'
    BY <1>6 DEF Resume, IInv, SavedInside, TypeOK
  <2>4. CASE assert_task_pointer_integrity(block, task_sp_adr[block], canary_bytes)
    <3>1. /\ SP' = task_sp_adr[block] + num_context_switch_overhead_bytes
          /\ resumed_at' = SP' /\ active_task_block' = block
          /\ status' = [status EXCEPT ![block] = "RUNNING"]
          /\ UNCHANGED <<task_sp_adr, beyond, overwritten, canary_bytes>>
      BY <1>6, <2>4 DEF Resume, Runs
    <3>2. mode' \in {"task", "astray"}
      BY <1>6, <2>4, Zenon DEF Resume, GoesOn
    <3>3. task_sp_range_low(block) + num_context_switch_overhead_bytes =< task_sp_adr[block]
      BY <2>1, <2>4, CheckedRoom
    <3>4. Room'
      BY <1>0, <1>b, <2>1, <3>1, <3>3 DEF Room
    <3>5. TypeOK'
      BY <1>0, <2>1, <3>1, <3>2 DEF TypeOK
    <3>6. RejectsOnlyFullStacks'
      BY <3>2 DEF RejectsOnlyFullStacks
    <3> QED  BY <2>2, <2>3, <3>4, <3>5, <3>6 DEF IInv
  <2>5. CASE ~assert_task_pointer_integrity(block, task_sp_adr[block], canary_bytes)
    <3>1. /\ mode' = "halted" /\ active_task_block' = block
          /\ UNCHANGED <<task_sp_adr, beyond, overwritten, canary_bytes, status, SP, resumed_at>>
      BY <1>6, <2>5 DEF Resume
    <3>2. Room' /\ TypeOK'
      BY <1>0, <3>1 DEF Room, TypeOK
    <3>3. /\ canary_bytes' \in {"set", "changed"} /\ task_sp_adr'[block] = task_sp_adr[block]
          /\ ~assert_task_pointer_integrity(block, task_sp_adr[block], canary_bytes')
      BY <1>0, <2>5, <3>1 DEF TypeOK
    <3>4. RejectsOnlyFullStacks'
      BY <2>1, <3>1, <3>3, StoppedFully
    <3> QED  BY <2>2, <2>3, <3>2, <3>4 DEF IInv
  <2> QED  BY <2>4, <2>5
<1>7. CASE halt_exec \/ GoneAstray \/ UNCHANGED vars
  BY <1>7 DEF halt_exec, GoneAstray, vars, IInv, TypeOK, SpillBounded, Room, SavedInside,
              RejectsOnlyFullStacks, RoomLeft, Unprotected, Larger
<1> QED
  BY <1>1, <1>2, <1>3, <1>4, <1>5, <1>6, <1>7 DEF Next

\* For every layout with room for two contexts in a block, every number of tasks and every
\* order in which they run, and whatever they take between two switches: no task writes
\* further below its block than one turn's growth takes it beyond a context and a byte.
THEOREM SpillsBounded == Spec => []SpillBounded
<1>1. Init => IInv
  BY InvInit
<1>2. IInv /\ [Next]_vars => IInv'
  BY InvNext
<1>3. IInv => SpillBounded
  BY DEF IInv
<1> QED  BY <1>1, <1>2, <1>3, PTL DEF Spec

\* What that leaves of the hazard: tasks that never take more than a context and a byte
\* between two switches have their stacks to themselves, however deep they go in the end.
THEOREM StacksStayApart ==
    MaxGrowth =< num_context_switch_overhead_bytes + 1 =>
        (Spec => [](overwritten = {} /\ canary_bytes = "set"))
<1> SUFFICES ASSUME MaxGrowth =< num_context_switch_overhead_bytes + 1
             PROVE  Spec => [](overwritten = {} /\ canary_bytes = "set")
  OBVIOUS
<1>1. Unprotected = 0
  BY UseAssumption, LayoutAssumption DEF Unprotected, Larger
<1>2. IInv => overwritten = {} /\ canary_bytes = "set"
  BY <1>1 DEF IInv, TypeOK, SpillBounded
<1>3. Init => IInv
  BY InvInit
<1>4. IInv /\ [Next]_vars => IInv'
  BY InvNext
<1> QED  BY <1>2, <1>3, <1>4, PTL DEF Spec

\* While the canaries are whole, the checks stop only tasks without room for another
\* context, in the blocks clear of the OS stack's region.
THEOREM ChecksAreFair == Spec => []RejectsOnlyFullStacks
<1>1. Init => IInv
  BY InvInit
<1>2. IInv /\ [Next]_vars => IInv'
  BY InvNext
<1>3. IInv => RejectsOnlyFullStacks
  BY DEF IInv
<1> QED  BY <1>1, <1>2, <1>3, PTL DEF Spec

\* What Memory declares has its type.
THEOREM TypeCorrect == Spec => []TypeOK
<1>1. Init => IInv
  BY InvInit
<1>2. IInv /\ [Next]_vars => IInv'
  BY InvNext
<1>3. IInv => TypeOK
  BY DEF IInv
<1> QED  BY <1>1, <1>2, <1>3, PTL DEF Spec

=============================================================================

--------------------------- MODULE ContextSwitch ---------------------------
(***************************************************************************)
(* The context switch, one AVR instruction per step: spawn_task,           *)
(* start_scheduler, k_yield and the timer interrupt as the assembly of     *)
(* context_switch_macros.hpp, on the registers, SREG, the stack pointer    *)
(* and memory, where Simplos has one step and whole contexts.              *)
(*                                                                         *)
(* Three tasks: the one that boots, the scheduler, and a worker.  C code   *)
(* between the macros is one instruction, <<"c", name>>; it may use any    *)
(* register and the stack below SP.                                        *)
(***************************************************************************)
EXTENDS Integers, Sequences

CONSTANTS
    Patterns,           \* what task code computes; the number is the depth of its stack
    Registers, Flags,   \* by pattern: the registers, and SREG but for the I flag
    KernelRegisters,    \* what the kernel's C code leaves in the registers
    SpawnAt, StartAt, YieldAt, TimerAt, IdleAt, WorkerAt    \* where the linker puts the code

MaxDepth == 40      \* bound: of the stacks of task code, in bytes
RegisterFiles == [0..31 -> 0..255]

ASSUME PatternsAssumption ==
    /\ Patterns \subseteq 0..MaxDepth
    /\ Registers \in [Patterns -> RegisterFiles] /\ Flags \in [Patterns -> 0..127]
    /\ KernelRegisters \in RegisterFiles

VARIABLES
    R,              \* registers
    sreg, SP, pc,
    mem,            \* the stacks, the globals of main.cpp and the timer's registers
    ocf,            \* OCF1A: a compare match is pending
    active,         \* Scheduler::active_task_block
    task_sp_adr,    \* by task, Simplos_Task::task_sp_adr; 0 until it is first saved
    left            \* by stack pointer, what the contexts saved there have to preserve

machine == <<R, sreg, SP, pc, mem, ocf>>
kernel == <<active, task_sp_adr>>
vars == <<machine, kernel, left>>

Idle == 0
Scheduler == 1
Worker == 2
Owners == {Idle, Scheduler, Worker}

\* Addresses: the Makefile places the globals; 0x6F, 0x84 and 0x85 are TIMSK1 and TCNT1.
prev_task_sp == 8442
next_task_sp == 8444
scheduler_task_sp == 8446
task_sp == 8448
TIMSK1 == 111
OCIE1A == 2          \* its bit
TCNT1L == 132
TCNT1H == 133
PRR0 == 100
PRR1 == 101

StackBytes == 80        \* bound: the part of each block that is used
Owner(adr) == (adr - 848) \div 649
task_sp_range_high(o) == 848 + 649 * o + 648
Stack(o) == (task_sp_range_high(o) - StackBytes)..task_sp_range_high(o)
Addresses == (UNION {Stack(o) : o \in Owners}) \cup (prev_task_sp..(task_sp + 1))
                \cup {TIMSK1, TCNT1L, TCNT1H, PRR0, PRR1}

X == 26     \* the pointer registers, with the register above
Z == 30

\* The bits of a byte, by their weights.
Bit(byte, weight) == (byte \div weight) % 2
WithBit(byte, weight) == IF Bit(byte, weight) = 1 THEN byte ELSE byte + weight
WithoutBit(byte, weight) == IF Bit(byte, weight) = 1 THEN byte - weight ELSE byte
Either(a, b, weight) == IF Bit(a, weight) = 1 \/ Bit(b, weight) = 1 THEN weight ELSE 0
Or(a, b) ==
    Either(a, b, 1) + Either(a, b, 2) + Either(a, b, 4) + Either(a, b, 8)
    + Either(a, b, 16) + Either(a, b, 32) + Either(a, b, 64) + Either(a, b, 128)

lo8_left_out(word) == word
lo8(word) == word % 256
hi8(word) == word \div 256
Word(adr) == mem[adr] + 256 * mem[adr + 1]
WithWord(m, adr, word) == [m EXCEPT ![adr] = lo8(word), ![adr + 1] = hi8(word)]
PcAbove(adr) == 256 * (256 * mem[adr + 1] + mem[adr + 2]) + mem[adr + 3]

-----------------------------------------------------------------------------
(* The macros *)

ReturnPointOffset_one_short == 11
ReturnPointOffset == 12     \* words from the address rcall pushes to the jmp

SET_RETURN_POINT(entrypoint_label) == <<
    <<"rcall">>, <<"pop", 16>>, <<"pop", 17>>, <<"pop", 18>>,
    <<"ldi", 19, ReturnPointOffset>>, <<"add", 18, 19>>, <<"ldi", 19, 0>>, <<"adc", 17, 19>>, <<"adc", 16, 19>>,
    <<"push", 18>>, <<"push", 17>>, <<"push", 16>>,
    <<"cpse", 1, 1>>, <<"jmp", entrypoint_label>>, <<"nop">> >>

\* sts takes a memory address; 0x20 is what in and out would subtract from it.
CLEAR_IO_REG(io_reg) == << <<"sts", io_reg - 32, 1>> >>
RESET_TIMER == CLEAR_IO_REG(TCNT1H) \o CLEAR_IO_REG(TCNT1L)

SetMt(op) == <<
    <<"push", 16>>, <<"lds", 16, TIMSK1>>, <<op, 16>>, <<"sts", TIMSK1, 16>>, <<"pop", 16>> >>
SCILENT_ENABLE_MT == SetMt("ori")
SCILENT_DISABLE_MT == SetMt("andi")

SAVE_SP_TO_ADR(adr) == <<
    <<"ldi", 26, lo8(adr)>>, <<"ldi", 27, hi8(adr)>>,
    <<"in_spl", 16>>, <<"st", 16, X, 1>>, <<"in_sph", 16>>, <<"st", 16, X, 1>> >>

SAVE_CONTEXT ==
    << <<"push", 0>>, <<"in_sreg", 0>>, <<"push", 0>>, <<"push", 1>>, <<"clr", 1>> >>
    \o [k \in 1..30 |-> <<"push", k + 1>>]
    \o SAVE_SP_TO_ADR(task_sp)

over_scheduler_sp_one_short == 3
over_scheduler_sp == 4      \* rjmp .+8

SELECT_SCHEDULED_TASK_OR_SCHEDULER == <<
    <<"ldi", 26, lo8(next_task_sp)>>, <<"ldi", 27, hi8(next_task_sp)>>,
    <<"ld", 16, X, 1>>, <<"ld", 17, X, 0>>, <<"mov", 18, 16>>, <<"or", 18, 17>>,
    <<"cpse", 18, 1>>, <<"rjmp", over_scheduler_sp>>,
    <<"ldi", 30, lo8(scheduler_task_sp)>>, <<"ldi", 31, hi8(scheduler_task_sp)>>,
    <<"ld", 16, Z, 1>>, <<"ld", 17, Z, 0>>,
    <<"ldi", 30, lo8(task_sp)>>, <<"ldi", 31, hi8(task_sp)>>, <<"st", 16, Z, 1>>, <<"st", 17, Z, 0>>,
    <<"st", 1, X, 0>>, <<"st", 1, X, -1>> >>

SET_SP == <<
    <<"ldi", 26, lo8(task_sp)>>, <<"ldi", 27, hi8(task_sp)>>,
    <<"ld", 30, X, 1>>, <<"ld", 31, X, 1>>, <<"out_spl", 30>>, <<"out_sph", 31>> >>

RESTORE_CONTEXT ==
    << <<"ldi", 26, lo8(task_sp)>>, <<"ldi", 27, hi8(task_sp)>>,
       <<"ld", 28, X, 1>>, <<"out_spl", 28>>, <<"ld", 29, X, 1>>, <<"out_sph", 29>> >>
    \o [k \in 1..31 |-> <<"pop", 32 - k>>]
    \o << <<"pop", 0>>, <<"out_sreg", 0>>, <<"pop", 0>> >>

CONTEXT_SWTICH ==
    SAVE_CONTEXT \o SAVE_SP_TO_ADR(prev_task_sp) \o SCILENT_DISABLE_MT
    \o SELECT_SCHEDULED_TASK_OR_SCHEDULER \o RESET_TIMER \o RESTORE_CONTEXT \o SCILENT_ENABLE_MT

-----------------------------------------------------------------------------
(* The programs *)

TaskAt(o) == IF o = Worker THEN WorkerAt ELSE IdleAt    \* it computes pattern p at + 2p

\* fn() and what follows it is C code; at return_point the caller returns.
spawn_task(return_point) ==
    << <<"cli">> >> \o SCILENT_DISABLE_MT \o << <<"c", "create">> >>
    \o SET_RETURN_POINT(return_point) \o SAVE_CONTEXT \o << <<"c", "adopt">> >> \o SET_SP
    \o SCILENT_ENABLE_MT \o << <<"sei">>, <<"c", "fn">>, <<"return">> >>

start_scheduler(scheduler_loop_entry_point) ==
    SCILENT_DISABLE_MT \o SET_RETURN_POINT(scheduler_loop_entry_point) \o SAVE_CONTEXT
    \o SAVE_SP_TO_ADR(scheduler_task_sp)
    \o << <<"rjmp", 1>>, <<"nop">>, <<"nop">> >> \o SCILENT_DISABLE_MT
    \o << <<"c", "schedule">>, <<"call", YieldAt>>, <<"jmp", scheduler_loop_entry_point - 1>> >>

LoopEntry == StartAt + Len(start_scheduler(0)) - 10

k_yield_entry_left_open == << <<"nop">> >>
k_yield_entry == << <<"cli">> >>
k_yield == k_yield_entry \o CONTEXT_SWTICH \o << <<"sei">>, <<"ret">> >>
TIMER1_COMPA_vect == CONTEXT_SWTICH \o << <<"reti">> >>

\* No two pieces of code overlap.
FlashWords == 131072
Pieces == <<
    <<SpawnAt, Len(spawn_task(0))>>, <<StartAt, Len(start_scheduler(0))>>,
    <<YieldAt, Len(k_yield)>>, <<TimerAt, Len(TIMER1_COMPA_vect)>>,
    <<IdleAt, 2 * MaxDepth + 2>>, <<WorkerAt, 2 * MaxDepth + 2>> >>
ASSUME LayoutAssumption ==
    /\ \A i \in DOMAIN Pieces : Pieces[i][1] \in Nat \ {0} /\ Pieces[i][1] + Pieces[i][2] =< FlashWords
    /\ \A i, j \in DOMAIN Pieces :
          i < j => Pieces[i][1] + Pieces[i][2] =< Pieces[j][1] \/ Pieces[j][1] + Pieces[j][2] =< Pieces[i][1]

Placed(at, program) == [a \in at..(at + Len(program) - 1) |-> program[a - at + 1]]
Beside(f, g) == [a \in DOMAIN f \cup DOMAIN g |-> IF a \in DOMAIN f THEN f[a] ELSE g[a]]
Code ==
    Beside(Beside(Placed(SpawnAt, spawn_task(SpawnAt + Len(spawn_task(0)) - 1)),
                  Placed(StartAt, start_scheduler(LoopEntry))),
           Beside(Placed(YieldAt, k_yield), Placed(TimerAt, TIMER1_COMPA_vect)))

\* Where task code calls from, its first instruction included; a call goes on one further.
CallSites(o) == {TaskAt(o) + 2 * p : p \in Patterns \cup {0}}
TaskCode(o) == CallSites(o) \cup {a + 1 : a \in CallSites(o)}
AllTaskCode == TaskCode(Idle) \cup TaskCode(Worker)
InCode == pc \in DOMAIN Code
Op == Code[pc][1]
SavesAt(a) == a + 1 \in DOMAIN Code /\ Code[a][1] = "push" /\ Code[a + 1][1] = "in_sreg"
Resumes == InCode /\ Op \in {"ret", "reti"} /\ SP' = SP + 3

\* Where the program counter goes for good.
Lost == -1          \* outside the code or the memory above
Malformed == -2     \* assert_stack_pointer_points_to_valid_return_address
BadSp == -3         \* assert_task_pointer_integrity
Stopped == pc \in {Lost, Malformed, BadSp}

-----------------------------------------------------------------------------
(* The instructions *)

IFlag == sreg >= 128
Mt == Bit(mem[TIMSK1], OCIE1A) = 1
Pointer(p) == R[p] + 256 * R[p + 1]

\* The flags of the logical instructions: Z, N and S; V is cleared.
LogicFlags(result) ==
    (sreg \div 32) * 32 + (sreg % 2) + (IF result = 0 THEN 2 ELSE 0) + (IF result >= 128 THEN 20 ELSE 0)

\* Of those of add and adc the code reads C alone; the others are cleared here.
CarryFlag(sum) == (sreg \div 64) * 64 + sum \div 256

Go(a) == pc' = a
Next1 == Go(pc + 1)
Load(d, value) == R' = [R EXCEPT ![d] = value]
Store(adr, value) == mem' = [mem EXCEPT ![adr] = value]
Sum(d, r) == R[d] + R[r] + (IF Op = "adc" THEN sreg % 2 ELSE 0)

\* The memory an instruction accesses.
Pointed(i) == Pointer(i[3]) + (IF i[4] < 0 THEN i[4] ELSE 0)
Accessed(i) ==
    CASE i[1] = "push" -> {SP}
      [] i[1] = "pop" -> {SP + 1}
      [] i[1] \in {"rcall", "call"} -> (SP - 2)..SP
      [] i[1] \in {"ret", "reti", "return"} -> (SP + 1)..(SP + 3)
      [] i[1] \in {"ld", "st"} -> {Pointed(i)}
      [] OTHER -> {}

\* Push a return address: its low byte first.
WithPc(m, a) == [m EXCEPT ![SP] = a % 256, ![SP - 1] = (a \div 256) % 256, ![SP - 2] = (a \div 256) \div 256]

PushPop ==
    \/ Op = "push" /\ Store(SP, R[Code[pc][2]]) /\ SP' = SP - 1 /\ Next1 /\ UNCHANGED <<R, sreg>>
    \/ Op = "pop" /\ Load(Code[pc][2], mem[SP + 1]) /\ SP' = SP + 1 /\ Next1 /\ UNCHANGED <<sreg, mem>>
    \/ Op = "rcall" /\ mem' = WithPc(mem, pc + 1) /\ SP' = SP - 3 /\ Next1 /\ UNCHANGED <<R, sreg>>
    \/ Op = "call" /\ mem' = WithPc(mem, pc + 1) /\ SP' = SP - 3 /\ Go(Code[pc][2]) /\ UNCHANGED <<R, sreg>>
    \/ /\ Op \in {"ret", "reti", "return"}
       /\ Go(PcAbove(SP)) /\ SP' = SP + 3
       /\ sreg' = IF Op = "reti" /\ ~IFlag THEN sreg + 128 ELSE sreg
       /\ UNCHANGED <<R, mem>>

Arithmetic ==
    LET d == Code[pc][2] IN
    /\ Next1
    /\ UNCHANGED <<SP, mem>>
    /\ \/ Op = "ldi" /\ Load(d, Code[pc][3]) /\ UNCHANGED sreg
       \/ Op = "mov" /\ Load(d, R[Code[pc][3]]) /\ UNCHANGED sreg
       \/ Op = "clr" /\ Load(d, 0) /\ sreg' = LogicFlags(0)
       \/ Op = "or" /\ Load(d, Or(R[d], R[Code[pc][3]])) /\ sreg' = LogicFlags(Or(R[d], R[Code[pc][3]]))
       \/ Op = "ori" /\ Load(d, WithBit(R[d], OCIE1A)) /\ sreg' = LogicFlags(WithBit(R[d], OCIE1A))
       \/ Op = "andi" /\ Load(d, WithoutBit(R[d], OCIE1A)) /\ sreg' = LogicFlags(WithoutBit(R[d], OCIE1A))
       \/ Op \in {"add", "adc"} /\ Load(d, Sum(d, Code[pc][3]) % 256)
                                /\ sreg' = CarryFlag(Sum(d, Code[pc][3]))
       \/ Op = "nop" /\ UNCHANGED <<R, sreg>>

Jump ==
    /\ \/ Op = "jmp" /\ Go(Code[pc][2])
       \/ Op = "rjmp" /\ Go(pc + 1 + Code[pc][2])
       \/ Op = "cpse" /\ Go(IF R[Code[pc][2]] = R[Code[pc][3]] THEN pc + 2 ELSE pc + 1)
    /\ UNCHANGED <<R, sreg, SP, mem>>

InOut ==
    LET d == Code[pc][2] IN
    /\ Next1
    /\ \/ Op = "in_sreg" /\ Load(d, sreg) /\ UNCHANGED <<sreg, SP>>
       \/ Op = "in_spl" /\ Load(d, lo8(SP)) /\ UNCHANGED <<sreg, SP>>
       \/ Op = "in_sph" /\ Load(d, hi8(SP)) /\ UNCHANGED <<sreg, SP>>
       \/ Op = "out_sreg" /\ sreg' = R[d] /\ UNCHANGED <<R, SP>>
       \/ Op = "out_spl" /\ SP' = 256 * hi8(SP) + R[d] /\ UNCHANGED <<R, sreg>>
       \/ Op = "out_sph" /\ SP' = 256 * R[d] + lo8(SP) /\ UNCHANGED <<R, sreg>>
    /\ UNCHANGED mem

InterruptFlag ==
    /\ \/ Op = "cli" /\ sreg' = sreg % 128
       \/ Op = "sei" /\ sreg' = 128 + (sreg % 128)
    /\ Next1
    /\ UNCHANGED <<R, SP, mem>>

\* ld and st through X or Z, which the last operand moves: before a store by -1, after by 1.
Moved(regs, p, by) ==
    [regs EXCEPT ![p] = lo8(Pointer(p) + by), ![p + 1] = hi8(Pointer(p) + by)]

LoadStore ==
    LET i == Code[pc] IN
    /\ Next1
    /\ \/ Op = "ld" /\ R' = [Moved(R, i[3], i[4]) EXCEPT ![i[2]] = mem[Pointed(i)]] /\ UNCHANGED mem
       \/ Op = "st" /\ R' = Moved(R, i[3], i[4]) /\ Store(Pointed(i), R[i[2]])
       \/ Op = "lds" /\ Load(i[2], mem[i[3]]) /\ UNCHANGED mem
       \/ Op = "sts" /\ Store(i[2], R[i[3]]) /\ UNCHANGED R
    /\ UNCHANGED <<sreg, SP>>

-----------------------------------------------------------------------------
(* The C code around them *)

\* C code may change every register and what is below the stack pointer; task code, all of
\* its stack.
Scribbled(m, a) ==
    [x \in Addresses |-> IF x \in Stack(Owner(a)) /\ x =< a THEN 165 ELSE m[x]]

\* create_simplos_task: the scheduler first, then the worker, is made the current task.
create ==
    /\ active' = IF Word(scheduler_task_sp) = 0 THEN Scheduler ELSE Worker
    /\ Next1
    /\ UNCHANGED <<R, sreg, SP, mem, task_sp_adr>>

\* old_task.task_sp_adr = task_sp; task_sp = the new task's.
adopt ==
    /\ task_sp_adr' = [task_sp_adr EXCEPT ![Owner(SP)] = Word(task_sp)]
    /\ mem' = WithWord(mem, task_sp, task_sp_range_high(active))
    /\ Next1
    /\ UNCHANGED <<R, sreg, SP, active>>

fn ==
    /\ Go(IF active = Scheduler THEN StartAt ELSE TaskAt(active))
    /\ UNCHANGED <<R, sreg, SP, mem, kernel>>

\* The checks of handle_previous_task.  The second means to read the PC, which is at
\* sp + 34: it is off by two and finds SREG and r0 below the PC's high byte.
assert_task_pointer_integrity(o, sp) == Owner(sp) = o /\ Owner(sp - 36) = o
num_context_switch_overhead_bytes == 36
SavedPc(sp) ==
    LET adr == sp + num_context_switch_overhead_bytes - 3 - 1
    IN  mem[adr] + 256 * (mem[adr + 1] + 256 * mem[adr + 2])
assert_stack_pointer_points_to_valid_return_address(sp) ==
    SavedPc(sp) # 0 /\ SavedPc(sp) \div FlashWords = 0

\* The loop's body: store the stack pointer of the task that was left, and choose another.
schedule ==
    LET sp == Word(IF active = Scheduler THEN scheduler_task_sp ELSE prev_task_sp)
        stored == [task_sp_adr EXCEPT ![active] = sp]
    IN  IF ~assert_task_pointer_integrity(active, sp)
        THEN Go(BadSp) /\ UNCHANGED <<R, sreg, SP, mem, kernel>>
        ELSE IF ~assert_stack_pointer_points_to_valid_return_address(sp)
        THEN Go(Malformed) /\ UNCHANGED <<R, sreg, SP, mem, kernel>>
        ELSE \E next \in {o \in {Idle, Worker} : stored[o] # 0} :
                /\ task_sp_adr' = stored
                /\ active' = next
                /\ mem' = WithWord(Scribbled(mem, SP), next_task_sp, stored[next])
                /\ R' = KernelRegisters
                /\ Next1
                /\ UNCHANGED <<sreg, SP>>

C ==
    /\ Op = "c"
    /\ CASE Code[pc][2] = "create" -> create
         [] Code[pc][2] = "adopt" -> adopt
         [] Code[pc][2] = "fn" -> fn
         [] Code[pc][2] = "schedule" -> schedule

Enter(a, return) ==
    IF (SP - 2)..SP \subseteq Addresses
    THEN mem' = WithPc(mem, return) /\ SP' = SP - 3 /\ Go(a)
    ELSE Go(Lost) /\ UNCHANGED <<mem, SP>>

\* Task code: compute, call yield, spawn.
Compute ==
    /\ pc \in AllTaskCode
    /\ \E p \in Patterns :
          /\ R' = Registers[p]
          /\ sreg' = (sreg \div 128) * 128 + Flags[p]
          /\ SP' = task_sp_range_high(active) - p
          /\ mem' = [x \in Addresses |-> IF x \in Stack(active) THEN 165 + p ELSE mem[x]]
          /\ Go(TaskAt(active) + 2 * p)
    /\ left' = [a \in {a \in DOMAIN left : Owner(a) # active} |-> left[a]]
    /\ UNCHANGED <<ocf, kernel>>

Call(a) ==
    /\ active # Scheduler /\ pc \in CallSites(active)
    /\ Enter(a, pc + 1)
    /\ UNCHANGED <<R, sreg, ocf, kernel, left>>

Yield == Word(scheduler_task_sp) # 0 /\ Call(YieldAt)
Spawn == active = Idle /\ task_sp_adr[Worker] = 0 /\ Call(SpawnAt)

-----------------------------------------------------------------------------
\* The timer interrupt: not after sei, whose next instruction is always executed.
Irq ==
    /\ IFlag /\ Mt /\ ocf /\ ~Stopped
    /\ ~(pc - 1 \in DOMAIN Code /\ Code[pc - 1][1] = "sei")

TimerISR ==
    /\ Irq
    /\ Enter(TimerAt, pc)
    /\ sreg' = sreg % 128
    /\ ocf' = FALSE
    /\ UNCHANGED <<R, kernel, left>>

\* In task code, once the scheduler has saved itself: what a match elsewhere does to the
\* kernel Simplos shows.
TimerMatch ==
    /\ Word(scheduler_task_sp) # 0 /\ ~ocf /\ ~Stopped
    /\ pc \in AllTaskCode
    /\ ocf' = TRUE
    /\ UNCHANGED <<R, sreg, SP, pc, mem, kernel, left>>

\* SET_RETURN_POINT ends in a jmp that its cpse passes over.
FollowsJmp(a) == a - 3 \in DOMAIN Code /\ Code[a - 3][1] = "cpse" /\ Code[a - 2][1] = "jmp"

\* What SAVE_CONTEXT has to preserve: the registers, SREG, the stack above the return
\* address, and where to go on: there, or at the jmp SET_RETURN_POINT made it the address of.
ToPreserve ==
    [R |-> R, sreg |-> sreg, sp |-> SP + 3,
     stack |-> [a \in {a \in Stack(Owner(SP)) : a > SP + 3} |-> mem[a]],
     pc |-> IF FollowsJmp(pc) THEN pc - 2 ELSE PcAbove(SP)]

register_bytes == 33
WithSaved ==
    LET here == SP - register_bytes
        kept == {a \in DOMAIN left : Owner(a) = Owner(here) => a > here}
    IN  [a \in kept \cup {here} |-> IF a = here THEN ToPreserve ELSE left[a]]

Execute ==
    /\ ~Irq /\ ~Stopped /\ pc \notin AllTaskCode
    /\ UNCHANGED ocf
    /\ IF InCode /\ Accessed(Code[pc]) \subseteq Addresses
       THEN /\ left' = IF SavesAt(pc) THEN WithSaved ELSE left
            /\ \/ (PushPop \/ Arithmetic \/ Jump \/ InOut \/ InterruptFlag \/ LoadStore)
                  /\ UNCHANGED kernel
               \/ C
       ELSE Go(Lost) /\ UNCHANGED <<R, sreg, SP, mem, kernel, left>>

halt_exec == Stopped /\ UNCHANGED vars

Init ==
    /\ R = KernelRegisters
    /\ sreg = 0
    /\ SP = task_sp_range_high(Idle)
    /\ pc = TaskAt(Idle)
    /\ mem = [a \in Addresses |-> IF a \in {TCNT1L, TCNT1H} THEN 7 ELSE 0]
    /\ ocf = FALSE
    /\ active = Idle
    /\ task_sp_adr = [o \in Owners |-> 0]
    /\ left = <<>>

Next == Execute \/ Compute \/ Yield \/ Spawn \/ TimerISR \/ TimerMatch \/ halt_exec

Spec == Init /\ [][Next]_vars

-----------------------------------------------------------------------------
(* Properties *)

\* Type correctness: bytes are bytes, through all the arithmetic on them.
TypeOK ==
    /\ R \in [0..31 -> 0..255]
    /\ sreg \in 0..255
    /\ mem \in [Addresses -> 0..255]
    /\ SP \in Nat /\ pc \in Int
    /\ ocf \in BOOLEAN /\ active \in Owners

Restores(saved) ==
    /\ R' = saved.R /\ SP' = saved.sp /\ pc' = saved.pc
    /\ \A a \in DOMAIN saved.stack : mem'[a] = saved.stack[a]
    /\ sreg' >= 128
    /\ <<sreg' % 2, (sreg' \div 32) % 4>> = <<saved.sreg % 2, (saved.sreg \div 32) % 4>>

\* Whoever resumes, from k_yield or the interrupt, finds every register, its stack and its
\* place as they were when its context was saved, with interrupts on; so are the flags H, T
\* and C of SREG (see FlagsRestored).
ContextRestored == [][Resumes => Restores(left[SP - register_bytes])]_vars

\* No interrupt can strike while SP is in two halves, the globals of the switch are in use or
\* registers are in transit: from the cli of k_yield, or the interrupt, up to sei or reti.  The
\* exception is the tail of the scheduler's first resumption, whose SREG was saved with I set.
MaskedThroughout ==
    pc \in (YieldAt + 1)..(YieldAt + Len(k_yield) - 3) \cup DOMAIN Placed(TimerAt, TIMER1_COMPA_vect) =>
        \/ ~(IFlag /\ Mt)
        \/ Owner(SP) = Scheduler /\ left[Word(scheduler_task_sp)].sreg >= 128

\* The CPU executes only code, on a stack of its own, and every stack pointer the scheduler
\* is handed is in the block of the task it is stored for.
NeverLost == pc \notin {Lost, BadSp}

(* What only the comments and assertions of the code say *)

\* test_context_switch.cpp:215: stack and registers are the same as before: SREG too.
FlagsRestored ==
    [][Resumes => sreg' % 128 = left[SP - register_bytes].sreg % 128]_vars

\* ASSERT of scheduler.cpp:160: a task's saved context holds a program counter.
SavedPcAccepted == pc # Malformed

=============================================================================

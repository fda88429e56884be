------------------------ MODULE ContextSwitchProofs ------------------------
(***************************************************************************)
(* Proofs about ContextSwitch: bytes stay bytes, no task gets lost, no     *)
(* interrupt strikes within a switch, and whoever resumes finds what its   *)
(* context had to preserve; wherever the linker puts the code, and         *)
(* whatever tasks compute.                                                 *)
(*                                                                         *)
(* The code in flash is a function of the placement: first, which          *)
(* instruction is at which offset of which piece.  Type correctness        *)
(* follows by instructions.  A "world" says which contexts are saved on    *)
(* whose stack and what the kernel's words point to; a "phase" is a macro  *)
(* at work, with what its instructions so far have put into registers and  *)
(* memory.  IInv is their disjunction, and each phase has a lemma that     *)
(* says to which phase and world each of its instructions leads.           *)
(***************************************************************************)
EXTENDS ContextSwitch, TLAPS

Tasks == {Idle, Worker}

-----------------------------------------------------------------------------
(* The code in flash *)

\* The program m stands at b.
Runs(b, m) == \A k \in 1..Len(m) : b + k - 1 \in DOMAIN Code /\ Code[b + k - 1] = m[k]

SpawnProgram == spawn_task(SpawnAt + 77)
StartProgram == start_scheduler(StartAt + 68)

\* How long the programs and the switch are.
LEMMA Lengths ==
    /\ \A l : Len(spawn_task(l)) = 78 /\ Len(start_scheduler(l)) = 78
    /\ Len(k_yield) = 120 /\ Len(TIMER1_COMPA_vect) = 118 /\ Len(CONTEXT_SWTICH) = 117
    /\ Len(SAVE_CONTEXT) = 41
<1>1. \A l : Len(spawn_task(l)) = 78
  BY DEF spawn_task, SCILENT_DISABLE_MT, SetMt, SET_RETURN_POINT, SAVE_CONTEXT, SAVE_SP_TO_ADR,
      SET_SP, SCILENT_ENABLE_MT
<1>2. \A l : Len(start_scheduler(l)) = 78
  BY DEF start_scheduler, SCILENT_DISABLE_MT, SetMt, SET_RETURN_POINT, SAVE_CONTEXT, SAVE_SP_TO_ADR
<1>3. Len(CONTEXT_SWTICH) = 117
  BY DEF CONTEXT_SWTICH, SCILENT_DISABLE_MT, SetMt, SAVE_CONTEXT, SAVE_SP_TO_ADR, RESTORE_CONTEXT,
      SCILENT_ENABLE_MT, RESET_TIMER, CLEAR_IO_REG, SELECT_SCHEDULED_TASK_OR_SCHEDULER
<1>4. Len(k_yield) = 120 /\ Len(TIMER1_COMPA_vect) = 118
  BY DEF k_yield, k_yield_entry, TIMER1_COMPA_vect, CONTEXT_SWTICH, SCILENT_DISABLE_MT, SetMt,
      SAVE_CONTEXT, SAVE_SP_TO_ADR, RESTORE_CONTEXT, SCILENT_ENABLE_MT, RESET_TIMER, CLEAR_IO_REG,
      SELECT_SCHEDULED_TASK_OR_SCHEDULER
<1>5. Len(SAVE_CONTEXT) = 41
  BY DEF SAVE_CONTEXT, SAVE_SP_TO_ADR
<1> QED BY <1>1, <1>2, <1>3, <1>4, <1>5

Apart(a, n, b, m) == a + n =< b \/ b + m =< a

\* What the linker leaves apart.
LEMMA Layout ==
    /\ SpawnAt \in Nat \ {0} /\ StartAt \in Nat \ {0} /\ YieldAt \in Nat \ {0} /\ TimerAt \in Nat \ {0}
    /\ IdleAt \in Nat \ {0} /\ WorkerAt \in Nat \ {0}
    /\ SpawnAt + 78 =< FlashWords /\ StartAt + 78 =< FlashWords /\ YieldAt + 120 =< FlashWords
    /\ TimerAt + 118 =< FlashWords /\ IdleAt + 82 =< FlashWords /\ WorkerAt + 82 =< FlashWords
    /\ Apart(SpawnAt, 78, StartAt, 78) /\ Apart(SpawnAt, 78, YieldAt, 120)
    /\ Apart(SpawnAt, 78, TimerAt, 118) /\ Apart(SpawnAt, 78, IdleAt, 82) /\ Apart(SpawnAt, 78, WorkerAt, 82)
    /\ Apart(StartAt, 78, YieldAt, 120) /\ Apart(StartAt, 78, TimerAt, 118)
    /\ Apart(StartAt, 78, IdleAt, 82) /\ Apart(StartAt, 78, WorkerAt, 82)
    /\ Apart(YieldAt, 120, TimerAt, 118) /\ Apart(YieldAt, 120, IdleAt, 82) /\ Apart(YieldAt, 120, WorkerAt, 82)
    /\ Apart(TimerAt, 118, IdleAt, 82) /\ Apart(TimerAt, 118, WorkerAt, 82)
    /\ Apart(IdleAt, 82, WorkerAt, 82)
<1>1. Pieces = << <<SpawnAt, 78>>, <<StartAt, 78>>, <<YieldAt, 120>>, <<TimerAt, 118>>,
                  <<IdleAt, 82>>, <<WorkerAt, 82>> >>
  BY Lengths DEF Pieces, MaxDepth
<1>2. DOMAIN Pieces = 1..6
  BY <1>1
<1>3. \A i \in 1..6 : Pieces[i][1] \in Nat \ {0} /\ Pieces[i][1] + Pieces[i][2] =< FlashWords
  BY <1>2, LayoutAssumption
<1>4. \A i, j \in 1..6 : i < j => Apart(Pieces[i][1], Pieces[i][2], Pieces[j][1], Pieces[j][2])
  BY <1>2, LayoutAssumption DEF Apart
<1>5. /\ Pieces[1] = <<SpawnAt, 78>> /\ Pieces[2] = <<StartAt, 78>> /\ Pieces[3] = <<YieldAt, 120>>
      /\ Pieces[4] = <<TimerAt, 118>> /\ Pieces[5] = <<IdleAt, 82>> /\ Pieces[6] = <<WorkerAt, 82>>
  BY <1>1
<1>6. /\ 1 \in 1..6 /\ 2 \in 1..6 /\ 3 \in 1..6 /\ 4 \in 1..6 /\ 5 \in 1..6 /\ 6 \in 1..6
      /\ 1 < 2 /\ 1 < 3 /\ 1 < 4 /\ 1 < 5 /\ 1 < 6 /\ 2 < 3 /\ 2 < 4 /\ 2 < 5 /\ 2 < 6
      /\ 3 < 4 /\ 3 < 5 /\ 3 < 6 /\ 4 < 5 /\ 4 < 6 /\ 5 < 6
  OBVIOUS
<1> HIDE DEF Pieces
<1>7. Apart(SpawnAt, 78, StartAt, 78) /\ Apart(SpawnAt, 78, YieldAt, 120)
      /\ Apart(SpawnAt, 78, TimerAt, 118) /\ Apart(SpawnAt, 78, IdleAt, 82) /\ Apart(SpawnAt, 78, WorkerAt, 82)
  BY <1>4, <1>5, <1>6
<1>8. Apart(StartAt, 78, YieldAt, 120) /\ Apart(StartAt, 78, TimerAt, 118)
      /\ Apart(StartAt, 78, IdleAt, 82) /\ Apart(StartAt, 78, WorkerAt, 82)
  BY <1>4, <1>5, <1>6
<1>9. Apart(YieldAt, 120, TimerAt, 118) /\ Apart(YieldAt, 120, IdleAt, 82) /\ Apart(YieldAt, 120, WorkerAt, 82)
  BY <1>4, <1>5, <1>6
<1>10. Apart(TimerAt, 118, IdleAt, 82) /\ Apart(TimerAt, 118, WorkerAt, 82)
    /\ Apart(IdleAt, 82, WorkerAt, 82)
  BY <1>4, <1>5, <1>6
<1> QED BY <1>3, <1>5, <1>6, <1>7, <1>8, <1>9, <1>10

\* What the layout says of the four programs.
LEMMA Places ==
    /\ SpawnAt \in Nat \ {0} /\ StartAt \in Nat \ {0} /\ YieldAt \in Nat \ {0} /\ TimerAt \in Nat \ {0}
    /\ IdleAt \in Nat \ {0} /\ WorkerAt \in Nat \ {0}
    /\ SpawnAt + 78 =< FlashWords /\ StartAt + 78 =< FlashWords /\ YieldAt + 120 =< FlashWords
    /\ TimerAt + 118 =< FlashWords /\ IdleAt + 82 =< FlashWords /\ WorkerAt + 82 =< FlashWords
BY Zenon, Layout

\* The flash holds the programs' instructions at their places, and nothing else.
LEMMA CodeIs ==
    /\ DOMAIN Code = SpawnAt..(SpawnAt + 77) \cup StartAt..(StartAt + 77) \cup YieldAt..(YieldAt + 119)
                        \cup TimerAt..(TimerAt + 117)
    /\ \A a \in SpawnAt..(SpawnAt + 77) : Code[a] = SpawnProgram[a - SpawnAt + 1]
    /\ \A a \in StartAt..(StartAt + 77) : Code[a] = StartProgram[a - StartAt + 1]
    /\ \A a \in YieldAt..(YieldAt + 119) : Code[a] = k_yield[a - YieldAt + 1]
    /\ \A a \in TimerAt..(TimerAt + 117) : Code[a] = TIMER1_COMPA_vect[a - TimerAt + 1]
<1> DEFINE P == Placed(SpawnAt, spawn_task(SpawnAt + Len(spawn_task(0)) - 1))
           Q == Placed(StartAt, start_scheduler(LoopEntry))
           S == Placed(YieldAt, k_yield)
           T == Placed(TimerAt, TIMER1_COMPA_vect)
<1>1. P = [a \in SpawnAt..(SpawnAt + 77) |-> SpawnProgram[a - SpawnAt + 1]]
  <2>1. SpawnAt + Len(spawn_task(0)) - 1 = SpawnAt + 77
    <3>1. Len(spawn_task(0)) = 78
      BY Lengths
    <3>2. \A n : n = 78 => SpawnAt + n - 1 = SpawnAt + 77
      BY Places
    <3> QED BY Zenon, <3>1, <3>2
  <2>2. Len(spawn_task(SpawnAt + 77)) = 78
    BY Lengths
  <2>3. P = Placed(SpawnAt, SpawnProgram)
    BY Zenon, <2>1 DEF SpawnProgram
  <2>4. Len(SpawnProgram) = 78
    BY Zenon, <2>2 DEF SpawnProgram
  <2> HIDE DEF P
  <2> QED BY <2>3, <2>4, Places DEF Placed
<1>2. Q = [a \in StartAt..(StartAt + 77) |-> StartProgram[a - StartAt + 1]]
  <2>1. LoopEntry = StartAt + 68
    <3>1. Len(start_scheduler(0)) = 78
      BY Lengths
    <3>2. \A n : n = 78 => StartAt + n - 10 = StartAt + 68
      BY Places
    <3> QED BY Zenon, <3>1, <3>2 DEF LoopEntry
  <2>2. Len(start_scheduler(StartAt + 68)) = 78
    BY Lengths
  <2>3. Q = Placed(StartAt, StartProgram)
    BY Zenon, <2>1 DEF StartProgram
  <2>4. Len(StartProgram) = 78
    BY Zenon, <2>2 DEF StartProgram
  <2> HIDE DEF Q
  <2> QED BY <2>3, <2>4, Places DEF Placed
<1>3. S = [a \in YieldAt..(YieldAt + 119) |-> k_yield[a - YieldAt + 1]]
  BY Lengths, Places DEF Placed
<1>4. T = [a \in TimerAt..(TimerAt + 117) |-> TIMER1_COMPA_vect[a - TimerAt + 1]]
  BY Lengths, Places DEF Placed
<1>5. Code = Beside(Beside(P, Q), Beside(S, T))
  BY DEF Code
<1> HIDE DEF P, Q, S, T
<1>6. DOMAIN Code = DOMAIN P \cup DOMAIN Q \cup DOMAIN S \cup DOMAIN T
  BY <1>5 DEF Beside
<1>7. \A a \in DOMAIN Code : Code[a] = IF a \in DOMAIN P THEN P[a] ELSE IF a \in DOMAIN Q THEN Q[a]
                                       ELSE IF a \in DOMAIN S THEN S[a] ELSE T[a]
  BY <1>5 DEF Beside
<1>8. /\ DOMAIN P = SpawnAt..(SpawnAt + 77) /\ DOMAIN Q = StartAt..(StartAt + 77)
      /\ DOMAIN S = YieldAt..(YieldAt + 119) /\ DOMAIN T = TimerAt..(TimerAt + 117)
  BY <1>1, <1>2, <1>3, <1>4
<1>9. \A a \in StartAt..(StartAt + 77) : a \notin SpawnAt..(SpawnAt + 77)
  <2>1. Apart(SpawnAt, 78, StartAt, 78)
    BY Zenon, Layout
  <2> QED BY <2>1, Places DEF Apart
<1>10. \A a \in YieldAt..(YieldAt + 119) : a \notin SpawnAt..(SpawnAt + 77) /\ a \notin StartAt..(StartAt + 77)
  <2>1. Apart(SpawnAt, 78, YieldAt, 120) /\ Apart(StartAt, 78, YieldAt, 120)
    BY Zenon, Layout
  <2> QED BY <2>1, Places DEF Apart
<1>11. \A a \in TimerAt..(TimerAt + 117) :
          a \notin SpawnAt..(SpawnAt + 77) /\ a \notin StartAt..(StartAt + 77) /\ a \notin YieldAt..(YieldAt + 119)
  <2>1. Apart(SpawnAt, 78, TimerAt, 118) /\ Apart(StartAt, 78, TimerAt, 118) /\ Apart(YieldAt, 120, TimerAt, 118)
    BY Zenon, Layout
  <2> QED BY <2>1, Places DEF Apart
<1>12. \A a \in SpawnAt..(SpawnAt + 77) : Code[a] = SpawnProgram[a - SpawnAt + 1]
  BY <1>1, <1>6, <1>7, <1>8
<1>13. \A a \in StartAt..(StartAt + 77) : Code[a] = StartProgram[a - StartAt + 1]
  BY <1>2, <1>6, <1>7, <1>8, <1>9
<1>14. \A a \in YieldAt..(YieldAt + 119) : Code[a] = k_yield[a - YieldAt + 1]
  BY <1>3, <1>6, <1>7, <1>8, <1>10
<1>15. \A a \in TimerAt..(TimerAt + 117) : Code[a] = TIMER1_COMPA_vect[a - TimerAt + 1]
  <2> SUFFICES ASSUME NEW a \in TimerAt..(TimerAt + 117) PROVE Code[a] = T[a]
    BY <1>4
  <2>1. a \in DOMAIN Code /\ a \notin DOMAIN P /\ a \notin DOMAIN Q /\ a \notin DOMAIN S
    BY <1>6, <1>8, <1>11
  <2> QED BY <1>7, <2>1
<1> QED BY <1>6, <1>8, <1>12, <1>13, <1>14, <1>15

\* So each of the programs stands at its place.
LEMMA Programs ==
    Runs(SpawnAt, SpawnProgram) /\ Runs(StartAt, StartProgram) /\ Runs(YieldAt, k_yield)
        /\ Runs(TimerAt, TIMER1_COMPA_vect)
<1>1. Len(SpawnProgram) = 78 /\ Len(StartProgram) = 78
  BY Lengths DEF SpawnProgram, StartProgram
<1>2. Runs(SpawnAt, SpawnProgram)
  <2> SUFFICES ASSUME NEW k \in 1..78 PROVE SpawnAt + k - 1 \in DOMAIN Code /\ Code[SpawnAt + k - 1] = SpawnProgram[k]
    BY <1>1 DEF Runs
  <2>1. SpawnAt + k - 1 \in SpawnAt..(SpawnAt + 77) /\ (SpawnAt + k - 1) - SpawnAt + 1 = k
    BY Places
  <2> QED BY <2>1, CodeIs
<1>3. Runs(StartAt, StartProgram)
  <2> SUFFICES ASSUME NEW k \in 1..78 PROVE StartAt + k - 1 \in DOMAIN Code /\ Code[StartAt + k - 1] = StartProgram[k]
    BY <1>1 DEF Runs
  <2>1. StartAt + k - 1 \in StartAt..(StartAt + 77) /\ (StartAt + k - 1) - StartAt + 1 = k
    BY Places
  <2> QED BY <2>1, CodeIs
<1>4. Runs(YieldAt, k_yield)
  <2> SUFFICES ASSUME NEW k \in 1..120 PROVE YieldAt + k - 1 \in DOMAIN Code /\ Code[YieldAt + k - 1] = k_yield[k]
    BY Lengths DEF Runs
  <2>1. YieldAt + k - 1 \in YieldAt..(YieldAt + 119) /\ (YieldAt + k - 1) - YieldAt + 1 = k
    BY Places
  <2> QED BY <2>1, CodeIs
<1>5. Runs(TimerAt, TIMER1_COMPA_vect)
  <2> SUFFICES ASSUME NEW k \in 1..118
               PROVE TimerAt + k - 1 \in DOMAIN Code /\ Code[TimerAt + k - 1] = TIMER1_COMPA_vect[k]
    BY Lengths DEF Runs
  <2>1. TimerAt + k - 1 \in TimerAt..(TimerAt + 117) /\ (TimerAt + k - 1) - TimerAt + 1 = k
    BY Places
  <2> QED BY <2>1, CodeIs
<1> QED BY <1>2, <1>3, <1>4, <1>5

\* How long the macros are.
LEMMA PartLengths ==
    /\ \A op : Len(SetMt(op)) = 5
    /\ Len(SCILENT_DISABLE_MT) = 5 /\ Len(SCILENT_ENABLE_MT) = 5
    /\ \A l : Len(SET_RETURN_POINT(l)) = 15
    /\ \A adr : Len(SAVE_SP_TO_ADR(adr)) = 6
    /\ Len(SET_SP) = 6 /\ Len(RESTORE_CONTEXT) = 40 /\ Len(RESET_TIMER) = 2
    /\ Len(SELECT_SCHEDULED_TASK_OR_SCHEDULER) = 18
BY DEF SetMt, SCILENT_DISABLE_MT, SCILENT_ENABLE_MT, SET_RETURN_POINT, SAVE_SP_TO_ADR, SET_SP, RESTORE_CONTEXT,
    RESET_TIMER, CLEAR_IO_REG, SELECT_SCHEDULED_TASK_OR_SCHEDULER

\* p is what m holds after its first n instructions.
PartAt(m, n, p) == \A i \in 1..Len(p) : n + i \in 1..Len(m) /\ m[n + i] = p[i]

\* Where a program stands, each of its parts stands.
LEMMA PartRuns ==
    ASSUME NEW b \in Int, NEW m, Runs(b, m), NEW n \in Nat, NEW p, PartAt(m, n, p)
    PROVE  Runs(b + n, p)
<1> SUFFICES ASSUME NEW i \in 1..Len(p)
             PROVE  (b + n) + i - 1 \in DOMAIN Code /\ Code[(b + n) + i - 1] = p[i]
  BY DEF Runs
<1>1. n + i \in 1..Len(m) /\ m[n + i] = p[i]
  BY DEF PartAt
<1>2. b + (n + i) - 1 = (b + n) + i - 1
  OBVIOUS
<1> QED BY <1>1, <1>2 DEF Runs

\* The macros of spawn_task and where they stand.
LEMMA SpawnParts ==
    /\ Runs(SpawnAt, << <<"cli">> >>)
    /\ Runs(SpawnAt + 1, SCILENT_DISABLE_MT)
    /\ Runs(SpawnAt + 6, << <<"c", "create">> >>)
    /\ Runs(SpawnAt + 7, SET_RETURN_POINT(SpawnAt + 77))
    /\ Runs(SpawnAt + 22, SAVE_CONTEXT)
    /\ Runs(SpawnAt + 63, << <<"c", "adopt">> >>)
    /\ Runs(SpawnAt + 64, SET_SP)
    /\ Runs(SpawnAt + 70, SCILENT_ENABLE_MT)
    /\ Runs(SpawnAt + 75, << <<"sei">>, <<"c", "fn">>, <<"return">> >>)
<1>1. Len(SpawnProgram) = 78
  BY Lengths DEF SpawnProgram
<1>2. /\ PartAt(SpawnProgram, 0, << <<"cli">> >>)
      /\ PartAt(SpawnProgram, 1, SCILENT_DISABLE_MT)
      /\ PartAt(SpawnProgram, 6, << <<"c", "create">> >>)
      /\ PartAt(SpawnProgram, 7, SET_RETURN_POINT(SpawnAt + 77))
      /\ PartAt(SpawnProgram, 22, SAVE_CONTEXT)
      /\ PartAt(SpawnProgram, 63, << <<"c", "adopt">> >>)
      /\ PartAt(SpawnProgram, 64, SET_SP)
      /\ PartAt(SpawnProgram, 70, SCILENT_ENABLE_MT)
      /\ PartAt(SpawnProgram, 75, << <<"sei">>, <<"c", "fn">>, <<"return">> >>)
  <2> USE SMTT(60), <1>1, Lengths, PartLengths DEF PartAt, SpawnProgram, spawn_task, SCILENT_DISABLE_MT, SCILENT_ENABLE_MT, SetMt,
        SET_RETURN_POINT, SAVE_CONTEXT, SAVE_SP_TO_ADR, SET_SP
  <2>1. PartAt(SpawnProgram, 0, << <<"cli">> >>)
    OBVIOUS
  <2>2. PartAt(SpawnProgram, 1, SCILENT_DISABLE_MT)
    OBVIOUS
  <2>3. PartAt(SpawnProgram, 6, << <<"c", "create">> >>)
    OBVIOUS
  <2>4. PartAt(SpawnProgram, 7, SET_RETURN_POINT(SpawnAt + 77))
    OBVIOUS
  <2>5. PartAt(SpawnProgram, 22, SAVE_CONTEXT)
    OBVIOUS
  <2>6. PartAt(SpawnProgram, 63, << <<"c", "adopt">> >>)
    OBVIOUS
  <2>7. PartAt(SpawnProgram, 64, SET_SP)
    OBVIOUS
  <2>8. PartAt(SpawnProgram, 70, SCILENT_ENABLE_MT)
    OBVIOUS
  <2>9. PartAt(SpawnProgram, 75, << <<"sei">>, <<"c", "fn">>, <<"return">> >>)
    OBVIOUS
  <2> QED BY ONLY <2>1, <2>2, <2>3, <2>4, <2>5, <2>6, <2>7, <2>8, <2>9
<1>3. SpawnAt + 0 = SpawnAt /\ SpawnAt \in Int /\ Runs(SpawnAt, SpawnProgram)
  BY Places, Programs
<1>4. \A n \in Nat : \A p : PartAt(SpawnProgram, n, p) => Runs(SpawnAt + n, p)
  BY <1>3, PartRuns
<1> QED BY <1>2, <1>3, <1>4

\* Those of start_scheduler.
LEMMA StartParts ==
    /\ Runs(StartAt, SCILENT_DISABLE_MT)
    /\ Runs(StartAt + 5, SET_RETURN_POINT(StartAt + 68))
    /\ Runs(StartAt + 20, SAVE_CONTEXT)
    /\ Runs(StartAt + 61, SAVE_SP_TO_ADR(scheduler_task_sp))
    /\ Runs(StartAt + 67, << <<"rjmp", 1>>, <<"nop">>, <<"nop">> >>)
    /\ Runs(StartAt + 70, SCILENT_DISABLE_MT)
    /\ Runs(StartAt + 75, << <<"c", "schedule">>, <<"call", YieldAt>>, <<"jmp", StartAt + 67>> >>)
<1>1. Len(StartProgram) = 78
  BY Lengths DEF StartProgram
<1>2. /\ PartAt(StartProgram, 0, SCILENT_DISABLE_MT)
      /\ PartAt(StartProgram, 5, SET_RETURN_POINT(StartAt + 68))
      /\ PartAt(StartProgram, 20, SAVE_CONTEXT)
      /\ PartAt(StartProgram, 61, SAVE_SP_TO_ADR(scheduler_task_sp))
      /\ PartAt(StartProgram, 67, << <<"rjmp", 1>>, <<"nop">>, <<"nop">> >>)
      /\ PartAt(StartProgram, 70, SCILENT_DISABLE_MT)
      /\ PartAt(StartProgram, 75, << <<"c", "schedule">>, <<"call", YieldAt>>, <<"jmp", StartAt + 67>> >>)
  <2> USE SMTT(60), <1>1, Lengths, PartLengths DEF PartAt, StartProgram, start_scheduler, SCILENT_DISABLE_MT, SetMt,
        SET_RETURN_POINT, SAVE_CONTEXT, SAVE_SP_TO_ADR
  <2>1. PartAt(StartProgram, 0, SCILENT_DISABLE_MT)
    OBVIOUS
  <2>2. PartAt(StartProgram, 5, SET_RETURN_POINT(StartAt + 68))
    OBVIOUS
  <2>3. PartAt(StartProgram, 20, SAVE_CONTEXT)
    OBVIOUS
  <2>4. PartAt(StartProgram, 61, SAVE_SP_TO_ADR(scheduler_task_sp))
    OBVIOUS
  <2>5. PartAt(StartProgram, 67, << <<"rjmp", 1>>, <<"nop">>, <<"nop">> >>)
    OBVIOUS
  <2>6. PartAt(StartProgram, 70, SCILENT_DISABLE_MT)
    OBVIOUS
  <2>7. PartAt(StartProgram, 75, << <<"c", "schedule">>, <<"call", YieldAt>>, <<"jmp", StartAt + 67>> >>)
    BY Places
  <2> QED BY ONLY <2>1, <2>2, <2>3, <2>4, <2>5, <2>6, <2>7
<1>3. StartAt + 0 = StartAt /\ StartAt \in Int /\ Runs(StartAt, StartProgram)
  BY Places, Programs
<1>4. \A n \in Nat : \A p : PartAt(StartProgram, n, p) => Runs(StartAt + n, p)
  BY <1>3, PartRuns
<1> QED BY <1>2, <1>3, <1>4

\* Those of k_yield.
LEMMA YieldParts ==
    /\ Runs(YieldAt, << <<"cli">> >>)
    /\ Runs(YieldAt + 1, CONTEXT_SWTICH)
    /\ Runs(YieldAt + 118, << <<"sei">>, <<"ret">> >>)
<1>1. Len(k_yield) = 120
  BY Lengths
<1>2. /\ PartAt(k_yield, 0, << <<"cli">> >>)
      /\ PartAt(k_yield, 1, CONTEXT_SWTICH)
      /\ PartAt(k_yield, 118, << <<"sei">>, <<"ret">> >>)
  <2> USE SMTT(60), <1>1, Lengths, PartLengths DEF PartAt, k_yield, k_yield_entry
  <2>1. PartAt(k_yield, 0, << <<"cli">> >>)
    OBVIOUS
  <2>2. PartAt(k_yield, 1, CONTEXT_SWTICH)
    OBVIOUS
  <2>3. PartAt(k_yield, 118, << <<"sei">>, <<"ret">> >>)
    OBVIOUS
  <2> QED BY ONLY <2>1, <2>2, <2>3
<1>3. YieldAt + 0 = YieldAt /\ YieldAt \in Int /\ Runs(YieldAt, k_yield)
  BY Places, Programs
<1>4. \A n \in Nat : \A p : PartAt(k_yield, n, p) => Runs(YieldAt + n, p)
  BY <1>3, PartRuns
<1> QED BY <1>2, <1>3, <1>4

\* Those of TIMER1_COMPA_vect.
LEMMA TimerParts ==
    /\ Runs(TimerAt, CONTEXT_SWTICH)
    /\ Runs(TimerAt + 117, << <<"reti">> >>)
<1>1. Len(TIMER1_COMPA_vect) = 118
  BY Lengths
<1>2. /\ PartAt(TIMER1_COMPA_vect, 0, CONTEXT_SWTICH)
      /\ PartAt(TIMER1_COMPA_vect, 117, << <<"reti">> >>)
  <2> USE SMTT(60), <1>1, Lengths, PartLengths DEF PartAt, TIMER1_COMPA_vect
  <2>1. PartAt(TIMER1_COMPA_vect, 0, CONTEXT_SWTICH)
    OBVIOUS
  <2>2. PartAt(TIMER1_COMPA_vect, 117, << <<"reti">> >>)
    OBVIOUS
  <2> QED BY ONLY <2>1, <2>2
<1>3. TimerAt + 0 = TimerAt /\ TimerAt \in Int /\ Runs(TimerAt, TIMER1_COMPA_vect)
  BY Places, Programs
<1>4. \A n \in Nat : \A p : PartAt(TIMER1_COMPA_vect, n, p) => Runs(TimerAt + n, p)
  BY <1>3, PartRuns
<1> QED BY <1>2, <1>3, <1>4

\* Those of CONTEXT_SWTICH, in both places.
LEMMA SwitchParts ==
    ASSUME NEW b \in Int, Runs(b, CONTEXT_SWTICH)
    PROVE  /\ Runs(b, SAVE_CONTEXT)
           /\ Runs(b + 41, SAVE_SP_TO_ADR(prev_task_sp))
           /\ Runs(b + 47, SCILENT_DISABLE_MT)
           /\ Runs(b + 52, SELECT_SCHEDULED_TASK_OR_SCHEDULER)
           /\ Runs(b + 70, RESET_TIMER)
           /\ Runs(b + 72, RESTORE_CONTEXT)
           /\ Runs(b + 112, SCILENT_ENABLE_MT)
<1>1. Len(CONTEXT_SWTICH) = 117
  BY Lengths
<1>2. /\ PartAt(CONTEXT_SWTICH, 0, SAVE_CONTEXT)
      /\ PartAt(CONTEXT_SWTICH, 41, SAVE_SP_TO_ADR(prev_task_sp))
      /\ PartAt(CONTEXT_SWTICH, 47, SCILENT_DISABLE_MT)
      /\ PartAt(CONTEXT_SWTICH, 52, SELECT_SCHEDULED_TASK_OR_SCHEDULER)
      /\ PartAt(CONTEXT_SWTICH, 70, RESET_TIMER)
      /\ PartAt(CONTEXT_SWTICH, 72, RESTORE_CONTEXT)
      /\ PartAt(CONTEXT_SWTICH, 112, SCILENT_ENABLE_MT)
  <2> USE SMTT(60), <1>1, Lengths, PartLengths DEF PartAt, CONTEXT_SWTICH, SCILENT_DISABLE_MT, SetMt, SAVE_CONTEXT,
        SAVE_SP_TO_ADR, RESTORE_CONTEXT, SCILENT_ENABLE_MT, RESET_TIMER, CLEAR_IO_REG,
        SELECT_SCHEDULED_TASK_OR_SCHEDULER
  <2>1. PartAt(CONTEXT_SWTICH, 0, SAVE_CONTEXT)
    OBVIOUS
  <2>2. PartAt(CONTEXT_SWTICH, 41, SAVE_SP_TO_ADR(prev_task_sp))
    OBVIOUS
  <2>3. PartAt(CONTEXT_SWTICH, 47, SCILENT_DISABLE_MT)
    OBVIOUS
  <2>4. PartAt(CONTEXT_SWTICH, 52, SELECT_SCHEDULED_TASK_OR_SCHEDULER)
    OBVIOUS
  <2>5. PartAt(CONTEXT_SWTICH, 70, RESET_TIMER)
    OBVIOUS
  <2>6. PartAt(CONTEXT_SWTICH, 72, RESTORE_CONTEXT)
    OBVIOUS
  <2>7. PartAt(CONTEXT_SWTICH, 112, SCILENT_ENABLE_MT)
    OBVIOUS
  <2> QED BY ONLY <2>1, <2>2, <2>3, <2>4, <2>5, <2>6, <2>7
<1>3. b + 0 = b
  OBVIOUS
<1>4. \A n \in Nat : \A p : PartAt(CONTEXT_SWTICH, n, p) => Runs(b + n, p)
  BY <1>3, PartRuns
<1> QED BY <1>2, <1>3, <1>4

\* At a stands the instruction i.
At(a, i) == a \in DOMAIN Code /\ Code[a] = i

\* Where a program stands, each of its instructions stands.
LEMMA RunsAt ==
    ASSUME NEW b \in Int, NEW m, Runs(b, m)
    PROVE  \A j \in Int : j + 1 \in 1..Len(m) => At(b + j, m[j + 1])
<1> TAKE j \in Int
<1>1. b + (j + 1) - 1 = b + j
  OBVIOUS
<1> QED BY <1>1 DEF Runs, At

\* The instructions of each macro, by address.
LEMMA SetMtCode ==
    ASSUME NEW b \in Int, NEW op, Runs(b, SetMt(op))
    PROVE  /\ At(b, <<"push", 16>>)
           /\ At(b + 1, <<"lds", 16, TIMSK1>>)
           /\ At(b + 2, <<op, 16>>)
           /\ At(b + 3, <<"sts", TIMSK1, 16>>)
           /\ At(b + 4, <<"pop", 16>>)
<1>1. \A j \in 0..4 : At(b + j, SetMt(op)[j + 1])
  BY PartLengths, RunsAt
<1>2. /\ SetMt(op)[1] = <<"push", 16>>
      /\ SetMt(op)[2] = <<"lds", 16, TIMSK1>>
      /\ SetMt(op)[3] = <<op, 16>>
      /\ SetMt(op)[4] = <<"sts", TIMSK1, 16>>
      /\ SetMt(op)[5] = <<"pop", 16>>
  BY DEF SetMt
<1> QED BY SMTT(60), <1>1, <1>2

LEMMA ReturnPointCode ==
    ASSUME NEW b \in Int, NEW l, Runs(b, SET_RETURN_POINT(l))
    PROVE  /\ At(b, <<"rcall">>)
           /\ At(b + 1, <<"pop", 16>>)
           /\ At(b + 2, <<"pop", 17>>)
           /\ At(b + 3, <<"pop", 18>>)
           /\ At(b + 4, <<"ldi", 19, 12>>)
           /\ At(b + 5, <<"add", 18, 19>>)
           /\ At(b + 6, <<"ldi", 19, 0>>)
           /\ At(b + 7, <<"adc", 17, 19>>)
           /\ At(b + 8, <<"adc", 16, 19>>)
           /\ At(b + 9, <<"push", 18>>)
           /\ At(b + 10, <<"push", 17>>)
           /\ At(b + 11, <<"push", 16>>)
           /\ At(b + 12, <<"cpse", 1, 1>>)
           /\ At(b + 13, <<"jmp", l>>)
           /\ At(b + 14, <<"nop">>)
<1>1. \A j \in 0..14 : At(b + j, SET_RETURN_POINT(l)[j + 1])
  BY PartLengths, RunsAt
<1>2. /\ SET_RETURN_POINT(l)[1] = <<"rcall">>
      /\ SET_RETURN_POINT(l)[2] = <<"pop", 16>>
      /\ SET_RETURN_POINT(l)[3] = <<"pop", 17>>
      /\ SET_RETURN_POINT(l)[4] = <<"pop", 18>>
      /\ SET_RETURN_POINT(l)[5] = <<"ldi", 19, 12>>
      /\ SET_RETURN_POINT(l)[6] = <<"add", 18, 19>>
      /\ SET_RETURN_POINT(l)[7] = <<"ldi", 19, 0>>
      /\ SET_RETURN_POINT(l)[8] = <<"adc", 17, 19>>
      /\ SET_RETURN_POINT(l)[9] = <<"adc", 16, 19>>
      /\ SET_RETURN_POINT(l)[10] = <<"push", 18>>
      /\ SET_RETURN_POINT(l)[11] = <<"push", 17>>
      /\ SET_RETURN_POINT(l)[12] = <<"push", 16>>
      /\ SET_RETURN_POINT(l)[13] = <<"cpse", 1, 1>>
      /\ SET_RETURN_POINT(l)[14] = <<"jmp", l>>
      /\ SET_RETURN_POINT(l)[15] = <<"nop">>
  BY DEF SET_RETURN_POINT, ReturnPointOffset
<1> QED BY SMTT(60), <1>1, <1>2

LEMMA StoreSpCode ==
    ASSUME NEW b \in Int, NEW adr, Runs(b, SAVE_SP_TO_ADR(adr))
    PROVE  /\ At(b, <<"ldi", 26, lo8(adr)>>)
           /\ At(b + 1, <<"ldi", 27, hi8(adr)>>)
           /\ At(b + 2, <<"in_spl", 16>>)
           /\ At(b + 3, <<"st", 16, 26, 1>>)
           /\ At(b + 4, <<"in_sph", 16>>)
           /\ At(b + 5, <<"st", 16, 26, 1>>)
<1>1. \A j \in 0..5 : At(b + j, SAVE_SP_TO_ADR(adr)[j + 1])
  BY PartLengths, RunsAt
<1>2. /\ SAVE_SP_TO_ADR(adr)[1] = <<"ldi", 26, lo8(adr)>>
      /\ SAVE_SP_TO_ADR(adr)[2] = <<"ldi", 27, hi8(adr)>>
      /\ SAVE_SP_TO_ADR(adr)[3] = <<"in_spl", 16>>
      /\ SAVE_SP_TO_ADR(adr)[4] = <<"st", 16, 26, 1>>
      /\ SAVE_SP_TO_ADR(adr)[5] = <<"in_sph", 16>>
      /\ SAVE_SP_TO_ADR(adr)[6] = <<"st", 16, 26, 1>>
  BY DEF SAVE_SP_TO_ADR, X
<1> QED BY SMTT(60), <1>1, <1>2

LEMMA SelectCode ==
    ASSUME NEW b \in Int, Runs(b, SELECT_SCHEDULED_TASK_OR_SCHEDULER)
    PROVE  /\ At(b, <<"ldi", 26, lo8(next_task_sp)>>)
           /\ At(b + 1, <<"ldi", 27, hi8(next_task_sp)>>)
           /\ At(b + 2, <<"ld", 16, 26, 1>>)
           /\ At(b + 3, <<"ld", 17, 26, 0>>)
           /\ At(b + 4, <<"mov", 18, 16>>)
           /\ At(b + 5, <<"or", 18, 17>>)
           /\ At(b + 6, <<"cpse", 18, 1>>)
           /\ At(b + 7, <<"rjmp", 4>>)
           /\ At(b + 8, <<"ldi", 30, lo8(scheduler_task_sp)>>)
           /\ At(b + 9, <<"ldi", 31, hi8(scheduler_task_sp)>>)
           /\ At(b + 10, <<"ld", 16, 30, 1>>)
           /\ At(b + 11, <<"ld", 17, 30, 0>>)
           /\ At(b + 12, <<"ldi", 30, lo8(task_sp)>>)
           /\ At(b + 13, <<"ldi", 31, hi8(task_sp)>>)
           /\ At(b + 14, <<"st", 16, 30, 1>>)
           /\ At(b + 15, <<"st", 17, 30, 0>>)
           /\ At(b + 16, <<"st", 1, 26, 0>>)
           /\ At(b + 17, <<"st", 1, 26, -1>>)
<1>1. \A j \in 0..17 : At(b + j, SELECT_SCHEDULED_TASK_OR_SCHEDULER[j + 1])
  <2>1. Len(SELECT_SCHEDULED_TASK_OR_SCHEDULER) = 18
    BY PartLengths
  <2>2. \A j \in Int : j + 1 \in 1..Len(SELECT_SCHEDULED_TASK_OR_SCHEDULER) => At(b + j, SELECT_SCHEDULED_TASK_OR_SCHEDULER[j + 1])
    BY Zenon, RunsAt
  <2> QED BY <2>1, <2>2
<1>2. /\ At(b, <<"ldi", 26, lo8(next_task_sp)>>)
      /\ At(b + 1, <<"ldi", 27, hi8(next_task_sp)>>)
      /\ At(b + 2, <<"ld", 16, 26, 1>>)
      /\ At(b + 3, <<"ld", 17, 26, 0>>)
      /\ At(b + 4, <<"mov", 18, 16>>)
      /\ At(b + 5, <<"or", 18, 17>>)
  <2>1. /\ SELECT_SCHEDULED_TASK_OR_SCHEDULER[1] = <<"ldi", 26, lo8(next_task_sp)>>
        /\ SELECT_SCHEDULED_TASK_OR_SCHEDULER[2] = <<"ldi", 27, hi8(next_task_sp)>>
        /\ SELECT_SCHEDULED_TASK_OR_SCHEDULER[3] = <<"ld", 16, 26, 1>>
        /\ SELECT_SCHEDULED_TASK_OR_SCHEDULER[4] = <<"ld", 17, 26, 0>>
        /\ SELECT_SCHEDULED_TASK_OR_SCHEDULER[5] = <<"mov", 18, 16>>
        /\ SELECT_SCHEDULED_TASK_OR_SCHEDULER[6] = <<"or", 18, 17>>
    BY DEF SELECT_SCHEDULED_TASK_OR_SCHEDULER, X, Z, over_scheduler_sp
  <2> QED BY SMTT(30), <1>1, <2>1
<1>3. /\ At(b + 6, <<"cpse", 18, 1>>)
      /\ At(b + 7, <<"rjmp", 4>>)
      /\ At(b + 8, <<"ldi", 30, lo8(scheduler_task_sp)>>)
      /\ At(b + 9, <<"ldi", 31, hi8(scheduler_task_sp)>>)
      /\ At(b + 10, <<"ld", 16, 30, 1>>)
      /\ At(b + 11, <<"ld", 17, 30, 0>>)
  <2>1. /\ SELECT_SCHEDULED_TASK_OR_SCHEDULER[7] = <<"cpse", 18, 1>>
        /\ SELECT_SCHEDULED_TASK_OR_SCHEDULER[8] = <<"rjmp", 4>>
        /\ SELECT_SCHEDULED_TASK_OR_SCHEDULER[9] = <<"ldi", 30, lo8(scheduler_task_sp)>>
        /\ SELECT_SCHEDULED_TASK_OR_SCHEDULER[10] = <<"ldi", 31, hi8(scheduler_task_sp)>>
        /\ SELECT_SCHEDULED_TASK_OR_SCHEDULER[11] = <<"ld", 16, 30, 1>>
        /\ SELECT_SCHEDULED_TASK_OR_SCHEDULER[12] = <<"ld", 17, 30, 0>>
    BY DEF SELECT_SCHEDULED_TASK_OR_SCHEDULER, X, Z, over_scheduler_sp
  <2> QED BY SMTT(30), <1>1, <2>1
<1>4. /\ At(b + 12, <<"ldi", 30, lo8(task_sp)>>)
      /\ At(b + 13, <<"ldi", 31, hi8(task_sp)>>)
      /\ At(b + 14, <<"st", 16, 30, 1>>)
      /\ At(b + 15, <<"st", 17, 30, 0>>)
      /\ At(b + 16, <<"st", 1, 26, 0>>)
      /\ At(b + 17, <<"st", 1, 26, -1>>)
  <2>1. /\ SELECT_SCHEDULED_TASK_OR_SCHEDULER[13] = <<"ldi", 30, lo8(task_sp)>>
        /\ SELECT_SCHEDULED_TASK_OR_SCHEDULER[14] = <<"ldi", 31, hi8(task_sp)>>
        /\ SELECT_SCHEDULED_TASK_OR_SCHEDULER[15] = <<"st", 16, 30, 1>>
        /\ SELECT_SCHEDULED_TASK_OR_SCHEDULER[16] = <<"st", 17, 30, 0>>
        /\ SELECT_SCHEDULED_TASK_OR_SCHEDULER[17] = <<"st", 1, 26, 0>>
        /\ SELECT_SCHEDULED_TASK_OR_SCHEDULER[18] = <<"st", 1, 26, -1>>
    BY DEF SELECT_SCHEDULED_TASK_OR_SCHEDULER, X, Z, over_scheduler_sp
  <2> QED BY SMTT(30), <1>1, <2>1
<1> QED BY <1>2, <1>3, <1>4

LEMMA SetSpCode ==
    ASSUME NEW b \in Int, Runs(b, SET_SP)
    PROVE  /\ At(b, <<"ldi", 26, lo8(task_sp)>>)
           /\ At(b + 1, <<"ldi", 27, hi8(task_sp)>>)
           /\ At(b + 2, <<"ld", 30, 26, 1>>)
           /\ At(b + 3, <<"ld", 31, 26, 1>>)
           /\ At(b + 4, <<"out_spl", 30>>)
           /\ At(b + 5, <<"out_sph", 31>>)
<1>1. \A j \in 0..5 : At(b + j, SET_SP[j + 1])
  <2>1. Len(SET_SP) = 6
    BY PartLengths
  <2>2. \A j \in Int : j + 1 \in 1..Len(SET_SP) => At(b + j, SET_SP[j + 1])
    BY Zenon, RunsAt
  <2> QED BY <2>1, <2>2
<1>2. /\ SET_SP[1] = <<"ldi", 26, lo8(task_sp)>>
      /\ SET_SP[2] = <<"ldi", 27, hi8(task_sp)>>
      /\ SET_SP[3] = <<"ld", 30, 26, 1>>
      /\ SET_SP[4] = <<"ld", 31, 26, 1>>
      /\ SET_SP[5] = <<"out_spl", 30>>
      /\ SET_SP[6] = <<"out_sph", 31>>
  BY DEF SET_SP, X
<1> QED BY SMTT(60), <1>1, <1>2

LEMMA ResetCode ==
    ASSUME NEW b \in Int, Runs(b, RESET_TIMER)
    PROVE  /\ At(b, <<"sts", PRR1, 1>>)
           /\ At(b + 1, <<"sts", PRR0, 1>>)
<1>1. \A j \in 0..1 : At(b + j, RESET_TIMER[j + 1])
  <2>1. Len(RESET_TIMER) = 2
    BY PartLengths
  <2>2. \A j \in Int : j + 1 \in 1..Len(RESET_TIMER) => At(b + j, RESET_TIMER[j + 1])
    BY Zenon, RunsAt
  <2> QED BY <2>1, <2>2
<1>2. /\ RESET_TIMER[1] = <<"sts", PRR1, 1>>
      /\ RESET_TIMER[2] = <<"sts", PRR0, 1>>
  BY DEF RESET_TIMER, CLEAR_IO_REG, TCNT1H, TCNT1L, PRR0, PRR1
<1> QED BY SMTT(60), <1>1, <1>2

LEMMA SaveContextCode ==
    ASSUME NEW b \in Int, Runs(b, SAVE_CONTEXT)
    PROVE  /\ At(b, <<"push", 0>>)
           /\ At(b + 1, <<"in_sreg", 0>>)
           /\ At(b + 2, <<"push", 0>>)
           /\ At(b + 3, <<"push", 1>>)
           /\ At(b + 4, <<"clr", 1>>)
           /\ \A j \in 5..34 : At(b + j, <<"push", j - 3>>)
           /\ Runs(b + 35, SAVE_SP_TO_ADR(task_sp))
<1>1. \A j \in 0..40 : At(b + j, SAVE_CONTEXT[j + 1])
  <2>1. Len(SAVE_CONTEXT) = 41
    BY Lengths
  <2>2. \A j \in Int : j + 1 \in 1..Len(SAVE_CONTEXT) => At(b + j, SAVE_CONTEXT[j + 1])
    BY Zenon, RunsAt
  <2> QED BY <2>1, <2>2
<1>2. /\ SAVE_CONTEXT[1] = <<"push", 0>> /\ SAVE_CONTEXT[2] = <<"in_sreg", 0>>
      /\ SAVE_CONTEXT[3] = <<"push", 0>> /\ SAVE_CONTEXT[4] = <<"push", 1>> /\ SAVE_CONTEXT[5] = <<"clr", 1>>
  BY DEF SAVE_CONTEXT
<1>3. \A j \in 5..34 : At(b + j, <<"push", j - 3>>)
  <2>1. \A j \in 5..34 : SAVE_CONTEXT[j + 1] = <<"push", j - 3>>
    BY DEF SAVE_CONTEXT, SAVE_SP_TO_ADR
  <2> TAKE j \in 5..34
  <2>2. j \in 0..40
    OBVIOUS
  <2> QED BY <1>1, <2>1, <2>2
<1>4. Runs(b + 35, SAVE_SP_TO_ADR(task_sp))
  <2>1. PartAt(SAVE_CONTEXT, 35, SAVE_SP_TO_ADR(task_sp))
    BY Lengths, PartLengths DEF PartAt, SAVE_CONTEXT, SAVE_SP_TO_ADR
  <2> QED BY <2>1, PartRuns
<1>5. At(b, <<"push", 0>>) /\ At(b + 1, <<"in_sreg", 0>>) /\ At(b + 2, <<"push", 0>>)
      /\ At(b + 3, <<"push", 1>>) /\ At(b + 4, <<"clr", 1>>)
  BY <1>1, <1>2
<1> QED BY <1>3, <1>4, <1>5

LEMMA RestoreCode ==
    ASSUME NEW b \in Int, Runs(b, RESTORE_CONTEXT)
    PROVE  /\ At(b, <<"ldi", 26, lo8(task_sp)>>)
           /\ At(b + 1, <<"ldi", 27, hi8(task_sp)>>)
           /\ At(b + 2, <<"ld", 28, 26, 1>>)
           /\ At(b + 3, <<"out_spl", 28>>)
           /\ At(b + 4, <<"ld", 29, 26, 1>>)
           /\ At(b + 5, <<"out_sph", 29>>)
           /\ \A j \in 6..36 : At(b + j, <<"pop", 37 - j>>)
           /\ At(b + 37, <<"pop", 0>>)
           /\ At(b + 38, <<"out_sreg", 0>>)
           /\ At(b + 39, <<"pop", 0>>)
<1>1. \A j \in 0..39 : At(b + j, RESTORE_CONTEXT[j + 1])
  <2>1. Len(RESTORE_CONTEXT) = 40
    BY PartLengths
  <2>2. \A j \in Int : j + 1 \in 1..Len(RESTORE_CONTEXT) => At(b + j, RESTORE_CONTEXT[j + 1])
    BY Zenon, RunsAt
  <2> QED BY <2>1, <2>2
<1>2. /\ RESTORE_CONTEXT[1] = <<"ldi", 26, lo8(task_sp)>> /\ RESTORE_CONTEXT[2] = <<"ldi", 27, hi8(task_sp)>>
      /\ RESTORE_CONTEXT[3] = <<"ld", 28, 26, 1>> /\ RESTORE_CONTEXT[4] = <<"out_spl", 28>>
      /\ RESTORE_CONTEXT[5] = <<"ld", 29, 26, 1>> /\ RESTORE_CONTEXT[6] = <<"out_sph", 29>>
      /\ RESTORE_CONTEXT[38] = <<"pop", 0>> /\ RESTORE_CONTEXT[39] = <<"out_sreg", 0>>
      /\ RESTORE_CONTEXT[40] = <<"pop", 0>>
  BY DEF RESTORE_CONTEXT, X
<1>3. \A j \in 6..36 : At(b + j, <<"pop", 37 - j>>)
  <2>1. \A j \in 6..36 : RESTORE_CONTEXT[j + 1] = <<"pop", 37 - j>>
    BY DEF RESTORE_CONTEXT
  <2> TAKE j \in 6..36
  <2>2. j \in 0..39
    OBVIOUS
  <2> QED BY <1>1, <2>1, <2>2
<1>4. At(b, RESTORE_CONTEXT[1]) /\ At(b + 1, RESTORE_CONTEXT[2]) /\ At(b + 2, RESTORE_CONTEXT[3])
      /\ At(b + 3, RESTORE_CONTEXT[4]) /\ At(b + 4, RESTORE_CONTEXT[5]) /\ At(b + 5, RESTORE_CONTEXT[6])
      /\ At(b + 37, RESTORE_CONTEXT[38]) /\ At(b + 38, RESTORE_CONTEXT[39]) /\ At(b + 39, RESTORE_CONTEXT[40])
  BY <1>1
<1> QED BY <1>2, <1>3, <1>4

\* Those of short sequences.
LEMMA OneCode ==
    ASSUME NEW b \in Int, NEW i, Runs(b, <<i>>)
    PROVE  At(b, i)
<1>1. Len(<<i>>) = 1 /\ <<i>>[1] = i /\ b + 1 - 1 = b
  OBVIOUS
<1> QED BY <1>1 DEF Runs, At

LEMMA TwoCode ==
    ASSUME NEW b \in Int, NEW i, NEW j, Runs(b, <<i, j>>)
    PROVE  At(b, i) /\ At(b + 1, j)
<1>1. Len(<<i, j>>) = 2 /\ <<i, j>>[1] = i /\ <<i, j>>[2] = j /\ b + 1 - 1 = b /\ b + 2 - 1 = b + 1
  OBVIOUS
<1> QED BY <1>1 DEF Runs, At

LEMMA ThreeCode ==
    ASSUME NEW b \in Int, NEW i, NEW j, NEW k, Runs(b, <<i, j, k>>)
    PROVE  At(b, i) /\ At(b + 1, j) /\ At(b + 2, k)
<1>1. Len(<<i, j, k>>) = 3 /\ <<i, j, k>>[1] = i /\ <<i, j, k>>[2] = j /\ <<i, j, k>>[3] = k
      /\ b + 1 - 1 = b /\ b + 2 - 1 = b + 1 /\ b + 3 - 1 = b + 2
  OBVIOUS
<1> QED BY <1>1 DEF Runs, At

Others == UNCHANGED <<ocf, active, task_sp_adr>>

\* The opcode tells which of the six groups of instructions a step belongs to.
LEMMA Executed ==
    ASSUME Execute, NEW i, At(pc, i), Accessed(i) \subseteq Addresses, i[1] # "c"
    PROVE  /\ Op = i[1] /\ Code[pc] = i /\ Others
           /\ left' = IF SavesAt(pc) THEN WithSaved ELSE left
           /\ i[1] # "push" => left' = left
           /\ i[1] \in {"push", "pop", "rcall", "call", "ret", "reti", "return"} => PushPop
           /\ i[1] \in {"ldi", "mov", "clr", "or", "ori", "andi", "add", "adc", "nop"} => Arithmetic
           /\ i[1] \in {"jmp", "rjmp", "cpse"} => Jump
           /\ i[1] \in {"in_sreg", "in_spl", "in_sph", "out_sreg", "out_spl", "out_sph"} => InOut
           /\ i[1] \in {"cli", "sei"} => InterruptFlag
           /\ i[1] \in {"ld", "st", "lds", "sts"} => LoadStore
<1>1. /\ Op = i[1] /\ Code[pc] = i /\ Others
      /\ PushPop \/ Arithmetic \/ Jump \/ InOut \/ InterruptFlag \/ LoadStore
      /\ left' = IF SavesAt(pc) THEN WithSaved ELSE left
  BY DEF Execute, At, InCode, C, Op, kernel, Others
<1>2. ASSUME i[1] \in {"push", "pop", "rcall", "call", "ret", "reti", "return"}
      PROVE  PushPop
  BY <1>1, <1>2 DEF Arithmetic, Jump, InOut, InterruptFlag, LoadStore
<1>3. ASSUME i[1] \in {"ldi", "mov", "clr", "or", "ori", "andi", "add", "adc", "nop"}
      PROVE  Arithmetic
  BY <1>1, <1>3 DEF PushPop, Jump, InOut, InterruptFlag, LoadStore
<1>4. ASSUME i[1] \in {"jmp", "rjmp", "cpse"}
      PROVE  Jump
  BY <1>1, <1>4 DEF PushPop, Arithmetic, InOut, InterruptFlag, LoadStore
<1>5. ASSUME i[1] \in {"in_sreg", "in_spl", "in_sph", "out_sreg", "out_spl", "out_sph"}
      PROVE  InOut
  BY <1>1, <1>5 DEF PushPop, Arithmetic, Jump, InterruptFlag, LoadStore
<1>6. ASSUME i[1] \in {"cli", "sei"}
      PROVE  InterruptFlag
  BY <1>1, <1>6 DEF PushPop, Arithmetic, Jump, InOut, LoadStore
<1>7. ASSUME i[1] \in {"ld", "st", "lds", "sts"}
      PROVE  LoadStore
  BY <1>1, <1>7 DEF PushPop, Arithmetic, Jump, InOut, InterruptFlag
<1>8. ASSUME i[1] # "push"
      PROVE  left' = left
  BY <1>1, <1>8 DEF SavesAt, Op
<1> QED BY <1>1, <1>2, <1>3, <1>4, <1>5, <1>6, <1>7, <1>8

\* What Execute does, instruction by instruction.
LEMMA PushStep ==
    ASSUME Execute, NEW d, At(pc, <<"push", d>>), SP \in Addresses
    PROVE  /\ mem' = [mem EXCEPT ![SP] = R[d]]
           /\ SP' = SP - 1 /\ pc' = pc + 1 /\ R' = R /\ sreg' = sreg
           /\ Others
           /\ left' = IF SavesAt(pc) THEN WithSaved ELSE left
<1>1. Accessed(<<"push", d>>) = {SP}
  BY DEF Accessed
<1>2. PushPop /\ Op = "push" /\ Code[pc] = <<"push", d>> /\ Others /\ left' = IF SavesAt(pc) THEN WithSaved ELSE left
  BY <1>1, Executed
<1> QED BY <1>2 DEF PushPop, Next1, Go, Store

LEMMA PopStep ==
    ASSUME Execute, NEW d, At(pc, <<"pop", d>>), SP + 1 \in Addresses
    PROVE  /\ R' = [R EXCEPT ![d] = mem[SP + 1]]
           /\ SP' = SP + 1 /\ pc' = pc + 1 /\ mem' = mem /\ sreg' = sreg
           /\ Others /\ left' = left
<1>1. Accessed(<<"pop", d>>) = {SP + 1}
  BY DEF Accessed
<1>2. PushPop /\ Op = "pop" /\ Code[pc] = <<"pop", d>> /\ Others /\ left' = left
  BY <1>1, Executed
<1> QED BY <1>2 DEF PushPop, Next1, Go, Load

LEMMA RcallStep ==
    ASSUME Execute, At(pc, <<"rcall">>), (SP - 2)..SP \subseteq Addresses
    PROVE  /\ mem' = WithPc(mem, pc + 1)
           /\ SP' = SP - 3 /\ pc' = pc + 1 /\ R' = R /\ sreg' = sreg
           /\ Others /\ left' = left
<1>1. Accessed(<<"rcall">>) \subseteq Addresses
  BY DEF Accessed
<1>2. PushPop /\ Op = "rcall" /\ Code[pc] = <<"rcall">> /\ Others /\ left' = left
  BY <1>1, Executed
<1> QED BY <1>2 DEF PushPop, Next1, Go, Load

LEMMA CallStep ==
    ASSUME Execute, NEW a, At(pc, <<"call", a>>), (SP - 2)..SP \subseteq Addresses
    PROVE  /\ mem' = WithPc(mem, pc + 1)
           /\ SP' = SP - 3 /\ pc' = a /\ R' = R /\ sreg' = sreg
           /\ Others /\ left' = left
<1>1. Accessed(<<"call", a>>) \subseteq Addresses
  BY DEF Accessed
<1>2. PushPop /\ Op = "call" /\ Code[pc] = <<"call", a>> /\ Others /\ left' = left
  BY <1>1, Executed
<1> QED BY <1>2 DEF PushPop, Next1, Go, Load

LEMMA RetStep ==
    ASSUME Execute, NEW op \in {"ret", "return"}, At(pc, <<op>>), (SP + 1)..(SP + 3) \subseteq Addresses
    PROVE  /\ SP' = SP + 3 /\ pc' = PcAbove(SP) /\ R' = R /\ mem' = mem
           /\ sreg' = sreg
           /\ Others /\ left' = left
<1>1. Accessed(<<op>>) \subseteq Addresses
  BY DEF Accessed
<1>2. PushPop /\ Op = op /\ Code[pc] = <<op>> /\ Others /\ left' = left
  BY <1>1, Executed
<1> QED BY <1>2 DEF PushPop, Next1, Go, Load

LEMMA RetiStep ==
    ASSUME Execute, At(pc, <<"reti">>), (SP + 1)..(SP + 3) \subseteq Addresses
    PROVE  /\ SP' = SP + 3 /\ pc' = PcAbove(SP) /\ R' = R /\ mem' = mem
           /\ sreg' = IF IFlag THEN sreg ELSE sreg + 128
           /\ Others /\ left' = left
<1>1. Accessed(<<"reti">>) \subseteq Addresses
  BY DEF Accessed
<1>2. PushPop /\ Op = "reti" /\ Code[pc] = <<"reti">> /\ Others /\ left' = left
  BY <1>1, Executed
<1> QED BY <1>2 DEF PushPop, Next1, Go, Load

LEMMA LdiStep ==
    ASSUME Execute, NEW d, NEW v, At(pc, <<"ldi", d, v>>)
    PROVE  /\ R' = [R EXCEPT ![d] = v]
           /\ pc' = pc + 1 /\ SP' = SP /\ mem' = mem /\ sreg' = sreg
           /\ Others /\ left' = left
<1>1. Accessed(<<"ldi", d, v>>) = {}
  BY DEF Accessed
<1>2. Arithmetic /\ Op = "ldi" /\ Code[pc] = <<"ldi", d, v>> /\ Others /\ left' = left
  BY <1>1, Executed
<1> QED BY <1>2 DEF Arithmetic, Next1, Go, Load

LEMMA MovStep ==
    ASSUME Execute, NEW d, NEW r, At(pc, <<"mov", d, r>>)
    PROVE  /\ R' = [R EXCEPT ![d] = R[r]]
           /\ pc' = pc + 1 /\ SP' = SP /\ mem' = mem /\ sreg' = sreg
           /\ Others /\ left' = left
<1>1. Accessed(<<"mov", d, r>>) = {}
  BY DEF Accessed
<1>2. Arithmetic /\ Op = "mov" /\ Code[pc] = <<"mov", d, r>> /\ Others /\ left' = left
  BY <1>1, Executed
<1> QED BY <1>2 DEF Arithmetic, Next1, Go, Load

LEMMA ClrStep ==
    ASSUME Execute, NEW d, At(pc, <<"clr", d>>)
    PROVE  /\ R' = [R EXCEPT ![d] = 0]
           /\ sreg' = LogicFlags(0)
           /\ pc' = pc + 1 /\ SP' = SP /\ mem' = mem
           /\ Others /\ left' = left
<1>1. Accessed(<<"clr", d>>) = {}
  BY DEF Accessed
<1>2. Arithmetic /\ Op = "clr" /\ Code[pc] = <<"clr", d>> /\ Others /\ left' = left
  BY <1>1, Executed
<1> QED BY <1>2 DEF Arithmetic, Next1, Go, Load

LEMMA OrStep ==
    ASSUME Execute, NEW d, NEW r, At(pc, <<"or", d, r>>)
    PROVE  /\ R' = [R EXCEPT ![d] = Or(R[d], R[r])]
           /\ sreg' = LogicFlags(Or(R[d], R[r]))
           /\ pc' = pc + 1 /\ SP' = SP /\ mem' = mem
           /\ Others /\ left' = left
<1>1. Accessed(<<"or", d, r>>) = {}
  BY DEF Accessed
<1>2. Arithmetic /\ Op = "or" /\ Code[pc] = <<"or", d, r>> /\ Others /\ left' = left
  BY <1>1, Executed
<1> QED BY <1>2 DEF Arithmetic, Next1, Go, Load

LEMMA OriStep ==
    ASSUME Execute, NEW d, At(pc, <<"ori", d>>)
    PROVE  /\ R' = [R EXCEPT ![d] = WithBit(R[d], OCIE1A)]
           /\ sreg' = LogicFlags(WithBit(R[d], OCIE1A))
           /\ pc' = pc + 1 /\ SP' = SP /\ mem' = mem
           /\ Others /\ left' = left
<1>1. Accessed(<<"ori", d>>) = {}
  BY DEF Accessed
<1>2. Arithmetic /\ Op = "ori" /\ Code[pc] = <<"ori", d>> /\ Others /\ left' = left
  BY <1>1, Executed
<1> QED BY <1>2 DEF Arithmetic, Next1, Go, Load

LEMMA AndiStep ==
    ASSUME Execute, NEW d, At(pc, <<"andi", d>>)
    PROVE  /\ R' = [R EXCEPT ![d] = WithoutBit(R[d], OCIE1A)]
           /\ sreg' = LogicFlags(WithoutBit(R[d], OCIE1A))
           /\ pc' = pc + 1 /\ SP' = SP /\ mem' = mem
           /\ Others /\ left' = left
<1>1. Accessed(<<"andi", d>>) = {}
  BY DEF Accessed
<1>2. Arithmetic /\ Op = "andi" /\ Code[pc] = <<"andi", d>> /\ Others /\ left' = left
  BY <1>1, Executed
<1> QED BY <1>2 DEF Arithmetic, Next1, Go, Load

LEMMA AddStep ==
    ASSUME Execute, NEW d, NEW r, At(pc, <<"add", d, r>>)
    PROVE  /\ R' = [R EXCEPT ![d] = (R[d] + R[r] + 0) % 256]
           /\ sreg' = CarryFlag(R[d] + R[r] + 0)
           /\ pc' = pc + 1 /\ SP' = SP /\ mem' = mem
           /\ Others /\ left' = left
<1>1. Accessed(<<"add", d, r>>) = {}
  BY DEF Accessed
<1>2. Arithmetic /\ Op = "add" /\ Code[pc] = <<"add", d, r>> /\ Others /\ left' = left
  BY <1>1, Executed
<1> QED BY <1>2 DEF Arithmetic, Next1, Go, Load, Sum

LEMMA AdcStep ==
    ASSUME Execute, NEW d, NEW r, At(pc, <<"adc", d, r>>)
    PROVE  /\ R' = [R EXCEPT ![d] = (R[d] + R[r] + (sreg % 2)) % 256]
           /\ sreg' = CarryFlag(R[d] + R[r] + (sreg % 2))
           /\ pc' = pc + 1 /\ SP' = SP /\ mem' = mem
           /\ Others /\ left' = left
<1>1. Accessed(<<"adc", d, r>>) = {}
  BY DEF Accessed
<1>2. Arithmetic /\ Op = "adc" /\ Code[pc] = <<"adc", d, r>> /\ Others /\ left' = left
  BY <1>1, Executed
<1> QED BY <1>2 DEF Arithmetic, Next1, Go, Load, Sum

LEMMA NopStep ==
    ASSUME Execute, At(pc, <<"nop">>)
    PROVE  /\ pc' = pc + 1 /\ SP' = SP /\ mem' = mem /\ R' = R /\ sreg' = sreg
           /\ Others /\ left' = left
<1>1. Accessed(<<"nop">>) = {}
  BY DEF Accessed
<1>2. Arithmetic /\ Op = "nop" /\ Code[pc] = <<"nop">> /\ Others /\ left' = left
  BY <1>1, Executed
<1> QED BY <1>2 DEF Arithmetic, Next1, Go, Load

LEMMA JmpStep ==
    ASSUME Execute, NEW a, At(pc, <<"jmp", a>>)
    PROVE  /\ pc' = a /\ SP' = SP /\ mem' = mem /\ R' = R /\ sreg' = sreg
           /\ Others /\ left' = left
<1>1. Accessed(<<"jmp", a>>) = {}
  BY DEF Accessed
<1>2. Jump /\ Op = "jmp" /\ Code[pc] = <<"jmp", a>> /\ Others /\ left' = left
  BY <1>1, Executed
<1> QED BY <1>2 DEF Jump, Go

LEMMA RjmpStep ==
    ASSUME Execute, NEW k, At(pc, <<"rjmp", k>>)
    PROVE  /\ pc' = pc + 1 + k /\ SP' = SP /\ mem' = mem /\ R' = R /\ sreg' = sreg
           /\ Others /\ left' = left
<1>1. Accessed(<<"rjmp", k>>) = {}
  BY DEF Accessed
<1>2. Jump /\ Op = "rjmp" /\ Code[pc] = <<"rjmp", k>> /\ Others /\ left' = left
  BY <1>1, Executed
<1> QED BY <1>2 DEF Jump, Go

LEMMA CpseStep ==
    ASSUME Execute, NEW d, NEW r, At(pc, <<"cpse", d, r>>)
    PROVE  /\ pc' = IF R[d] = R[r] THEN pc + 2 ELSE pc + 1
           /\ SP' = SP /\ mem' = mem /\ R' = R /\ sreg' = sreg
           /\ Others /\ left' = left
<1>1. Accessed(<<"cpse", d, r>>) = {}
  BY DEF Accessed
<1>2. Jump /\ Op = "cpse" /\ Code[pc] = <<"cpse", d, r>> /\ Others /\ left' = left
  BY <1>1, Executed
<1> QED BY <1>2 DEF Jump, Go

LEMMA InSregStep ==
    ASSUME Execute, NEW d, At(pc, <<"in_sreg", d>>)
    PROVE  /\ R' = [R EXCEPT ![d] = sreg]
           /\ pc' = pc + 1 /\ SP' = SP /\ mem' = mem /\ sreg' = sreg
           /\ Others /\ left' = left
<1>1. Accessed(<<"in_sreg", d>>) = {}
  BY DEF Accessed
<1>2. InOut /\ Op = "in_sreg" /\ Code[pc] = <<"in_sreg", d>> /\ Others /\ left' = left
  BY <1>1, Executed
<1> QED BY <1>2 DEF InOut, Next1, Go, Load

LEMMA InSplStep ==
    ASSUME Execute, NEW d, At(pc, <<"in_spl", d>>)
    PROVE  /\ R' = [R EXCEPT ![d] = lo8(SP)]
           /\ pc' = pc + 1 /\ SP' = SP /\ mem' = mem /\ sreg' = sreg
           /\ Others /\ left' = left
<1>1. Accessed(<<"in_spl", d>>) = {}
  BY DEF Accessed
<1>2. InOut /\ Op = "in_spl" /\ Code[pc] = <<"in_spl", d>> /\ Others /\ left' = left
  BY <1>1, Executed
<1> QED BY <1>2 DEF InOut, Next1, Go, Load

LEMMA InSphStep ==
    ASSUME Execute, NEW d, At(pc, <<"in_sph", d>>)
    PROVE  /\ R' = [R EXCEPT ![d] = hi8(SP)]
           /\ pc' = pc + 1 /\ SP' = SP /\ mem' = mem /\ sreg' = sreg
           /\ Others /\ left' = left
<1>1. Accessed(<<"in_sph", d>>) = {}
  BY DEF Accessed
<1>2. InOut /\ Op = "in_sph" /\ Code[pc] = <<"in_sph", d>> /\ Others /\ left' = left
  BY <1>1, Executed
<1> QED BY <1>2 DEF InOut, Next1, Go, Load

LEMMA OutSregStep ==
    ASSUME Execute, NEW d, At(pc, <<"out_sreg", d>>)
    PROVE  /\ sreg' = R[d]
           /\ pc' = pc + 1 /\ SP' = SP /\ mem' = mem /\ R' = R
           /\ Others /\ left' = left
<1>1. Accessed(<<"out_sreg", d>>) = {}
  BY DEF Accessed
<1>2. InOut /\ Op = "out_sreg" /\ Code[pc] = <<"out_sreg", d>> /\ Others /\ left' = left
  BY <1>1, Executed
<1> QED BY <1>2 DEF InOut, Next1, Go, Load

LEMMA OutSplStep ==
    ASSUME Execute, NEW d, At(pc, <<"out_spl", d>>)
    PROVE  /\ SP' = 256 * hi8(SP) + R[d]
           /\ pc' = pc + 1 /\ mem' = mem /\ R' = R /\ sreg' = sreg
           /\ Others /\ left' = left
<1>1. Accessed(<<"out_spl", d>>) = {}
  BY DEF Accessed
<1>2. InOut /\ Op = "out_spl" /\ Code[pc] = <<"out_spl", d>> /\ Others /\ left' = left
  BY <1>1, Executed
<1> QED BY <1>2 DEF InOut, Next1, Go, Load

LEMMA OutSphStep ==
    ASSUME Execute, NEW d, At(pc, <<"out_sph", d>>)
    PROVE  /\ SP' = 256 * R[d] + lo8(SP)
           /\ pc' = pc + 1 /\ mem' = mem /\ R' = R /\ sreg' = sreg
           /\ Others /\ left' = left
<1>1. Accessed(<<"out_sph", d>>) = {}
  BY DEF Accessed
<1>2. InOut /\ Op = "out_sph" /\ Code[pc] = <<"out_sph", d>> /\ Others /\ left' = left
  BY <1>1, Executed
<1> QED BY <1>2 DEF InOut, Next1, Go, Load

LEMMA CliStep ==
    ASSUME Execute, At(pc, <<"cli">>)
    PROVE  /\ sreg' = sreg % 128
           /\ pc' = pc + 1 /\ SP' = SP /\ mem' = mem /\ R' = R
           /\ Others /\ left' = left
<1>1. Accessed(<<"cli">>) = {}
  BY DEF Accessed
<1>2. InterruptFlag /\ Op = "cli" /\ Code[pc] = <<"cli">> /\ Others /\ left' = left
  BY <1>1, Executed
<1> QED BY <1>2 DEF InterruptFlag, Next1, Go

LEMMA SeiStep ==
    ASSUME Execute, At(pc, <<"sei">>)
    PROVE  /\ sreg' = 128 + (sreg % 128)
           /\ pc' = pc + 1 /\ SP' = SP /\ mem' = mem /\ R' = R
           /\ Others /\ left' = left
<1>1. Accessed(<<"sei">>) = {}
  BY DEF Accessed
<1>2. InterruptFlag /\ Op = "sei" /\ Code[pc] = <<"sei">> /\ Others /\ left' = left
  BY <1>1, Executed
<1> QED BY <1>2 DEF InterruptFlag, Next1, Go

LEMMA LdStep ==
    ASSUME Execute, NEW d, NEW p, NEW n, At(pc, <<"ld", d, p, n>>), Pointer(p) + (IF n < 0 THEN n ELSE 0) \in Addresses
    PROVE  /\ R' = [Moved(R, p, n) EXCEPT ![d] = mem[Pointer(p) + (IF n < 0 THEN n ELSE 0)]]
           /\ pc' = pc + 1 /\ SP' = SP /\ mem' = mem /\ sreg' = sreg
           /\ Others /\ left' = left
<1>1. Accessed(<<"ld", d, p, n>>) = {Pointer(p) + (IF n < 0 THEN n ELSE 0)}
  BY DEF Accessed, Pointed
<1>2. LoadStore /\ Op = "ld" /\ Code[pc] = <<"ld", d, p, n>> /\ Others /\ left' = left
  BY <1>1, Executed
<1> QED BY <1>2 DEF LoadStore, Next1, Go, Load, Store, Pointed

LEMMA StStep ==
    ASSUME Execute, NEW d, NEW p, NEW n, At(pc, <<"st", d, p, n>>), Pointer(p) + (IF n < 0 THEN n ELSE 0) \in Addresses
    PROVE  /\ R' = Moved(R, p, n)
           /\ mem' = [mem EXCEPT ![Pointer(p) + (IF n < 0 THEN n ELSE 0)] = R[d]]
           /\ pc' = pc + 1 /\ SP' = SP /\ sreg' = sreg
           /\ Others /\ left' = left
<1>1. Accessed(<<"st", d, p, n>>) = {Pointer(p) + (IF n < 0 THEN n ELSE 0)}
  BY DEF Accessed, Pointed
<1>2. LoadStore /\ Op = "st" /\ Code[pc] = <<"st", d, p, n>> /\ Others /\ left' = left
  BY <1>1, Executed
<1> QED BY <1>2 DEF LoadStore, Next1, Go, Load, Store, Pointed

LEMMA LdsStep ==
    ASSUME Execute, NEW d, NEW a, At(pc, <<"lds", d, a>>)
    PROVE  /\ R' = [R EXCEPT ![d] = mem[a]]
           /\ pc' = pc + 1 /\ SP' = SP /\ mem' = mem /\ sreg' = sreg
           /\ Others /\ left' = left
<1>1. Accessed(<<"lds", d, a>>) = {}
  BY DEF Accessed
<1>2. LoadStore /\ Op = "lds" /\ Code[pc] = <<"lds", d, a>> /\ Others /\ left' = left
  BY <1>1, Executed
<1> QED BY <1>2 DEF LoadStore, Next1, Go, Load, Store

LEMMA StsStep ==
    ASSUME Execute, NEW a, NEW r, At(pc, <<"sts", a, r>>)
    PROVE  /\ mem' = [mem EXCEPT ![a] = R[r]]
           /\ pc' = pc + 1 /\ SP' = SP /\ R' = R /\ sreg' = sreg
           /\ Others /\ left' = left
<1>1. Accessed(<<"sts", a, r>>) = {}
  BY DEF Accessed
<1>2. LoadStore /\ Op = "sts" /\ Code[pc] = <<"sts", a, r>> /\ Others /\ left' = left
  BY <1>1, Executed
<1> QED BY <1>2 DEF LoadStore, Next1, Go, Load, Store

-----------------------------------------------------------------------------
(* Type correctness *)

\* The operands are in their ranges.
WellFormed(i) ==
    /\ i[1] \in {"push", "pop", "ldi", "mov", "clr", "or", "ori", "andi", "add", "adc", "cpse", "in_sreg",
                 "in_spl", "in_sph", "out_sreg", "out_spl", "out_sph", "ld", "st", "lds"} => i[2] \in 0..31
    /\ i[1] \in {"mov", "or", "add", "adc", "cpse", "sts"} => i[3] \in 0..31
    /\ i[1] = "ldi" => i[3] \in 0..255
    /\ i[1] \in {"jmp", "call"} => i[2] \in 1..FlashWords
    /\ i[1] = "rjmp" => i[2] \in 0..4
    /\ i[1] \in {"ld", "st"} => i[3] \in {26, 30} /\ i[4] \in {-1, 0, 1}
    /\ i[1] = "lds" => i[3] = TIMSK1
    /\ i[1] = "c" => i[2] \in {"create", "adopt", "fn", "schedule"}

\* Neither of the instructions by which the kernel resumes whom it left.
Ordinary(i) == WellFormed(i) /\ i[1] # "ret" /\ i[1] # "reti"
\* m has n instructions, all ordinary.
Plain(m, n) == n \in Nat /\ Len(m) = n /\ \A k \in 1..n : Ordinary(m[k])
\* So are the n instructions from address a on.
PlainFrom(a, n) == \A x \in a..(a + n - 1) : Ordinary(Code[x])

\* The kernel's two-byte words.
Words == {prev_task_sp, next_task_sp, scheduler_task_sp, task_sp}

LEMMA WordBytes == \A adr \in Words : lo8(adr) \in 0..255 /\ hi8(adr) \in 0..255 /\ lo8(adr) + 256 * hi8(adr) = adr
BY DEF Words, prev_task_sp, next_task_sp, scheduler_task_sp, task_sp, lo8, hi8

LEMMA FlashInt == FlashWords \in Nat
BY SMT DEF FlashWords

LEMMA PlainRuns == \A b \in Int : \A m, n : Runs(b, m) /\ Plain(m, n) => PlainFrom(b, n)
<1> SUFFICES ASSUME NEW b \in Int, NEW m, NEW n \in Nat, Runs(b, m), Len(m) = n, \A k \in 1..n : Ordinary(m[k]),
                    NEW x \in b..(b + n - 1)
             PROVE  Ordinary(Code[x])
  BY DEF PlainFrom, Plain
<1>1. x - b \in Int /\ (x - b) + 1 \in 1..Len(m) /\ b + (x - b) = x
  OBVIOUS
<1>2. At(b + (x - b), m[(x - b) + 1])
  BY <1>1, RunsAt
<1> QED BY <1>1, <1>2 DEF At

\* The indices of the longest macro whose instructions are written out.
LEMMA UpTo18 ==
    \A k \in 1..18 : \/ k = 1 \/ k = 2 \/ k = 3 \/ k = 4 \/ k = 5 \/ k = 6 \/ k = 7 \/ k = 8 \/ k = 9
                     \/ k = 10 \/ k = 11 \/ k = 12 \/ k = 13 \/ k = 14 \/ k = 15 \/ k = 16 \/ k = 17 \/ k = 18
OBVIOUS

\* The macros are ordinary code,
LEMMA PlainParts ==
    /\ Plain(SCILENT_DISABLE_MT, 5) /\ Plain(SCILENT_ENABLE_MT, 5)
    /\ \A l \in 1..FlashWords : Plain(SET_RETURN_POINT(l), 15)
    /\ \A adr \in Words : Plain(SAVE_SP_TO_ADR(adr), 6)
    /\ Plain(SAVE_CONTEXT, 41) /\ Plain(SET_SP, 6) /\ Plain(RESTORE_CONTEXT, 40) /\ Plain(RESET_TIMER, 2)
    /\ Plain(SELECT_SCHEDULED_TASK_OR_SCHEDULER, 18)
    /\ \A i : Ordinary(i) => Plain(<<i>>, 1)
    /\ \A i, j, k : Ordinary(i) /\ Ordinary(j) /\ Ordinary(k) => Plain(<<i, j, k>>, 3)
<1>0. task_sp \in Words /\ next_task_sp \in Words /\ scheduler_task_sp \in Words
  BY DEF Words
<1>1. \A i, j, k : Ordinary(i) /\ Ordinary(j) /\ Ordinary(k) => Plain(<<i, j, k>>, 3)
  <2> SUFFICES ASSUME NEW i, NEW j, NEW k, Ordinary(i), Ordinary(j), Ordinary(k), NEW l \in 1..3
               PROVE  Ordinary(<<i, j, k>>[l])
    BY DEF Plain
  <2> QED BY UpTo18
<1>2. \A adr \in Words : Plain(SAVE_SP_TO_ADR(adr), 6)
  BY SMTT(60), UpTo18, WordBytes DEF Plain, SAVE_SP_TO_ADR, X, Ordinary, WellFormed
<1>3. Plain(SAVE_CONTEXT, 41)
  <2> SUFFICES ASSUME NEW k \in 1..41 PROVE Ordinary(SAVE_CONTEXT[k])
    BY Lengths DEF Plain
  <2>1. k > 35 => k - 35 \in 1..6 /\ SAVE_CONTEXT[k] = SAVE_SP_TO_ADR(task_sp)[k - 35]
    BY SMTT(60) DEF SAVE_CONTEXT, SAVE_SP_TO_ADR
  <2>2. k > 35 => Ordinary(SAVE_CONTEXT[k])
    BY <1>0, <1>2, <2>1 DEF Plain
  <2>3. k \in 6..35 => k - 4 \in 2..31 /\ SAVE_CONTEXT[k] = <<"push", k - 4>>
    BY SMTT(60) DEF SAVE_CONTEXT, SAVE_SP_TO_ADR
  <2>4. \A r \in 2..31 : Ordinary(<<"push", r>>)
    BY DEF Ordinary, WellFormed
  <2>5. k =< 5 => SAVE_CONTEXT[k] = <<<<"push", 0>>, <<"in_sreg", 0>>, <<"push", 0>>, <<"push", 1>>, <<"clr", 1>>>>[k]
    BY DEF SAVE_CONTEXT
  <2>6. k =< 5 => Ordinary(SAVE_CONTEXT[k])
    BY <2>5, UpTo18 DEF Ordinary, WellFormed
  <2>7. k \in 6..35 => Ordinary(SAVE_CONTEXT[k])
    BY Zenon, <2>3, <2>4
  <2>8. k =< 5 \/ k \in 6..35 \/ k > 35
    OBVIOUS
  <2> QED BY Zenon, <2>2, <2>6, <2>7, <2>8
<1> USE SMTT(60), UpTo18 DEF Plain, Ordinary, WellFormed
<1>4. Plain(SCILENT_DISABLE_MT, 5) /\ Plain(SCILENT_ENABLE_MT, 5)
  BY DEF SCILENT_DISABLE_MT, SCILENT_ENABLE_MT, SetMt
<1>5. \A l \in 1..FlashWords : Plain(SET_RETURN_POINT(l), 15)
  BY DEF SET_RETURN_POINT, ReturnPointOffset
<1>6. Plain(SET_SP, 6)
  BY <1>0, WordBytes DEF SET_SP, X
<1>7. Plain(RESTORE_CONTEXT, 40)
  BY <1>0, WordBytes DEF RESTORE_CONTEXT, X
<1>8. Plain(RESET_TIMER, 2)
  BY DEF RESET_TIMER, CLEAR_IO_REG
<1>9. Plain(SELECT_SCHEDULED_TASK_OR_SCHEDULER, 18)
  BY <1>0, WordBytes DEF SELECT_SCHEDULED_TASK_OR_SCHEDULER, X, Z, over_scheduler_sp
<1>10. \A i : Ordinary(i) => Plain(<<i>>, 1)
  OBVIOUS
<1> QED BY ONLY <1>1, <1>2, <1>3, <1>4, <1>5, <1>6, <1>7, <1>8, <1>9, <1>10

\* and so are the switch,
LEMMA PlainSwitch ==
    ASSUME NEW b \in Int, Runs(b, CONTEXT_SWTICH)
    PROVE  PlainFrom(b, 117)
<1>1. /\ PlainFrom(b, 41) /\ PlainFrom(b + 41, 6) /\ PlainFrom(b + 47, 5) /\ PlainFrom(b + 52, 18)
      /\ PlainFrom(b + 70, 2) /\ PlainFrom(b + 72, 40) /\ PlainFrom(b + 112, 5)
  <2>1. /\ Runs(b, SAVE_CONTEXT) /\ Runs(b + 41, SAVE_SP_TO_ADR(prev_task_sp)) /\ Runs(b + 47, SCILENT_DISABLE_MT)
        /\ Runs(b + 52, SELECT_SCHEDULED_TASK_OR_SCHEDULER) /\ Runs(b + 70, RESET_TIMER)
        /\ Runs(b + 72, RESTORE_CONTEXT) /\ Runs(b + 112, SCILENT_ENABLE_MT)
    BY SwitchParts
  <2>2. prev_task_sp \in Words
    BY DEF Words
  <2>3. \A n \in Nat : b + n \in Int
    OBVIOUS
  <2>4. \A n \in Nat : \A m, l : Runs(b + n, m) /\ Plain(m, l) => PlainFrom(b + n, l)
    BY Zenon, <2>3, PlainRuns
  <2> QED BY SMT, <2>1, <2>2, <2>4, PlainParts, PlainRuns
<1> QED BY <1>1 DEF PlainFrom

\* spawn_task
LEMMA PlainSpawn == PlainFrom(SpawnAt, 78)
<1> DEFINE b == SpawnAt
<1>1. /\ b \in Int /\ b + 1 \in Int /\ b + 6 \in Int /\ b + 7 \in Int /\ b + 22 \in Int /\ b + 63 \in Int
      /\ b + 64 \in Int /\ b + 70 \in Int /\ b + 75 \in Int /\ b + 77 \in 1..FlashWords
  BY Places, FlashInt
<1>2. /\ Ordinary(<<"cli">>) /\ Ordinary(<<"c", "create">>) /\ Ordinary(<<"c", "adopt">>)
      /\ Ordinary(<<"sei">>) /\ Ordinary(<<"c", "fn">>) /\ Ordinary(<<"return">>)
  BY DEF Ordinary, WellFormed
<1>3. /\ PlainFrom(b, 1) /\ PlainFrom(b + 1, 5) /\ PlainFrom(b + 6, 1) /\ PlainFrom(b + 7, 15)
      /\ PlainFrom(b + 22, 41) /\ PlainFrom(b + 63, 1) /\ PlainFrom(b + 64, 6) /\ PlainFrom(b + 70, 5)
      /\ PlainFrom(b + 75, 3)
  BY SMT, <1>1, <1>2, SpawnParts, PlainParts, PlainRuns
<1> QED BY <1>1, <1>3 DEF PlainFrom

\* and start_scheduler.
LEMMA PlainStart == PlainFrom(StartAt, 78)
<1> DEFINE b == StartAt
<1>1. /\ b \in Int /\ b + 5 \in Int /\ b + 20 \in Int /\ b + 61 \in Int /\ b + 67 \in 1..FlashWords
      /\ b + 67 \in Int /\ b + 68 \in 1..FlashWords /\ b + 70 \in Int /\ b + 75 \in Int /\ YieldAt \in 1..FlashWords
  BY Places, FlashInt
<1>2. /\ Ordinary(<<"rjmp", 1>>) /\ Ordinary(<<"nop">>) /\ Ordinary(<<"c", "schedule">>)
      /\ Ordinary(<<"call", YieldAt>>) /\ Ordinary(<<"jmp", b + 67>>)
  BY <1>1 DEF Ordinary, WellFormed
<1>3. scheduler_task_sp \in Words
  BY DEF Words
<1>4. /\ PlainFrom(b, 5) /\ PlainFrom(b + 5, 15) /\ PlainFrom(b + 20, 41) /\ PlainFrom(b + 61, 6)
      /\ PlainFrom(b + 67, 3) /\ PlainFrom(b + 70, 5) /\ PlainFrom(b + 75, 3)
  BY SMT, <1>1, <1>2, <1>3, StartParts, PlainParts, PlainRuns
<1> QED BY <1>1, <1>4 DEF PlainFrom

\* The instructions around the two switches.
LEMMA SiteCode ==
    /\ Runs(YieldAt + 1, CONTEXT_SWTICH) /\ Runs(TimerAt, CONTEXT_SWTICH)
    /\ At(YieldAt, <<"cli">>) /\ At(YieldAt + 118, <<"sei">>) /\ At(YieldAt + 119, <<"ret">>)
    /\ At(TimerAt + 117, <<"reti">>)
<1>1. YieldAt \in Int /\ YieldAt + 118 \in Int /\ TimerAt + 117 \in Int /\ YieldAt + 118 + 1 = YieldAt + 119
  BY Places
<1>2. At(YieldAt, <<"cli">>)
  BY <1>1, YieldParts, OneCode
<1>3. At(YieldAt + 118, <<"sei">>) /\ At(YieldAt + 118 + 1, <<"ret">>)
  <2>1. Runs(YieldAt + 118, << <<"sei">>, <<"ret">> >>)
    BY YieldParts
  <2> QED BY <1>1, <2>1, TwoCode
<1>4. At(TimerAt + 117, <<"reti">>)
  <2>1. Runs(TimerAt + 117, << <<"reti">> >>)
    BY TimerParts
  <2> QED BY <1>1, <2>1, OneCode
<1> QED BY <1>1, <1>2, <1>3, <1>4, YieldParts, TimerParts

\* Every instruction is well-formed, and only k_yield and the interrupt end with a return.
LEMMA CodeWellFormed ==
    \A a \in DOMAIN Code : /\ WellFormed(Code[a]) /\ a \in 1..FlashWords
                           /\ Code[a][1] \in {"ret", "reti"} => a = YieldAt + 119 \/ a = TimerAt + 117
<1> SUFFICES ASSUME NEW a \in DOMAIN Code 
             PROVE  /\ WellFormed(Code[a]) /\ a \in 1..FlashWords
                    /\ Code[a][1] \in {"ret", "reti"} => a = YieldAt + 119 \/ a = TimerAt + 117
  OBVIOUS
<1>1. /\ a \in SpawnAt..(SpawnAt + 77) \/ a \in StartAt..(StartAt + 77)
         \/ a \in YieldAt..(YieldAt + 119) \/ a \in TimerAt..(TimerAt + 117)
  BY CodeIs
<1>2. CASE a \in SpawnAt..(SpawnAt + 77)
  <2>1. a \in SpawnAt..(SpawnAt + 78 - 1) /\ a \in 1..FlashWords
    BY <1>2, Places, FlashInt
  <2> QED BY <2>1, PlainSpawn DEF PlainFrom, Ordinary
<1>3. CASE a \in StartAt..(StartAt + 77)
  <2>1. a \in StartAt..(StartAt + 78 - 1) /\ a \in 1..FlashWords
    BY <1>3, Places, FlashInt
  <2> QED BY <2>1, PlainStart DEF PlainFrom, Ordinary
<1>4. CASE a \in YieldAt..(YieldAt + 119)
  <2>1. a \in 1..FlashWords
    BY <1>4, Places, FlashInt
  <2>2. PlainFrom(YieldAt + 1, 117)
    <3>1. YieldAt + 1 \in Int
      BY Places
    <3> QED BY <3>1, SiteCode, PlainSwitch
  <2>3. a = YieldAt \/ a = YieldAt + 118 \/ a = YieldAt + 119 \/ a \in (YieldAt + 1)..(YieldAt + 1 + 117 - 1)
    BY <1>4, Places
  <2>4. Ordinary(<<"cli">>) /\ Ordinary(<<"sei">>) /\ WellFormed(<<"ret">>)
    BY DEF Ordinary, WellFormed
  <2> QED BY <2>1, <2>2, <2>3, <2>4, SiteCode DEF PlainFrom, At, Ordinary
<1>5. CASE a \in TimerAt..(TimerAt + 117)
  <2>1. a \in 1..FlashWords
    BY <1>5, Places, FlashInt
  <2>2. PlainFrom(TimerAt, 117)
    <3>1. TimerAt \in Int
      BY Places
    <3> QED BY <3>1, SiteCode, PlainSwitch
  <2>3. a = TimerAt + 117 \/ a \in TimerAt..(TimerAt + 117 - 1)
    BY <1>5, Places
  <2>4. WellFormed(<<"reti">>)
    BY DEF WellFormed
  <2> QED BY <2>1, <2>2, <2>3, <2>4, SiteCode DEF PlainFrom, At, Ordinary
<1> QED BY <1>1, <1>2, <1>3, <1>4, <1>5

\* Bytes of numbers.
LEMMA Div256 ==
    /\ \A a \in Nat : a \div 256 \in Nat /\ a % 256 \in 0..255 /\ a = 256 * (a \div 256) + (a % 256)
    /\ \A h \in Nat, l \in 0..255 : (256 * h + l) \div 256 = h /\ (256 * h + l) % 256 = l
<1>1. \A a \in Nat : a \div 256 \in Nat
  BY SMT
<1>2. \A a \in Nat : a % 256 \in 0..255
  BY SMT
<1>3. \A a \in Nat : a = 256 * (a \div 256) + (a % 256)
  BY SMT
<1>4. \A h \in Nat, l \in 0..255 : (256 * h + l) \div 256 = h /\ (256 * h + l) % 256 = l
  BY SMT
<1> QED BY <1>1, <1>2, <1>3, <1>4

\* What a stack pointer's two bytes can hold.
SpRange == {w \in Nat : w \div 256 \in 0..255}

LEMMA SpBytes ==
    /\ \A x, y \in 0..255 : x + 256 * y \in SpRange /\ 256 * y + x \in SpRange
    /\ \A w \in SpRange : lo8(w) \in 0..255 /\ hi8(w) \in 0..255 /\ w = 256 * hi8(w) + lo8(w) /\ w \in Nat
<1>1. ASSUME NEW x \in 0..255, NEW y \in 0..255 PROVE x + 256 * y \in SpRange /\ 256 * y + x \in SpRange
  <2>1. y \in Nat /\ 256 * y + x \in Nat /\ x + 256 * y = 256 * y + x
    BY SMT
  <2>2. (256 * y + x) \div 256 = y
    BY SMT, <2>1, Div256
  <2>3. 256 * y + x \in SpRange
    BY Zenon, <2>1, <2>2 DEF SpRange
  <2> QED BY Zenon, <2>1, <2>3
<1>2. ASSUME NEW w \in SpRange
      PROVE  lo8(w) \in 0..255 /\ hi8(w) \in 0..255 /\ w = 256 * hi8(w) + lo8(w) /\ w \in Nat
  <2>1. w \in Nat /\ w \div 256 \in 0..255
    BY Zenon DEF SpRange
  <2> QED BY SMT, <2>1, Div256 DEF lo8, hi8
<1> QED BY Zenon, <1>1, <1>2

\* More than any address of the memory.
Kilobytes == 0..8999

LEMMA SmallSp == \A w \in Kilobytes : w \in SpRange
<1> TAKE w \in Kilobytes
<1>0. w \in 0..8999
  BY SMT DEF Kilobytes
<1>1. w \in Nat /\ w \div 256 \in Nat /\ w % 256 \in 0..255 /\ w = 256 * (w \div 256) + (w % 256)
  BY SMT, <1>0, Div256
<1>2. PICK h \in Nat : h = w \div 256
  BY SMT, <1>1
<1>3. h \in 0..255
  BY SMT, <1>0, <1>1, <1>2
<1> QED BY SMT, <1>1, <1>2, <1>3 DEF SpRange

LEMMA StackRanges ==
    /\ Stack(Idle) = 1416..1496 /\ Stack(Scheduler) = 2065..2145 /\ Stack(Worker) = 2714..2794
BY SMT DEF Idle, Scheduler, Worker, Stack, task_sp_range_high, StackBytes

LEMMA StackAddresses == \A o \in Owners : Stack(o) \subseteq Addresses
BY Zenon DEF Addresses

AllStacks == UNION {Stack(o) : o \in Owners}

\* The memory: stacks, the kernel's words, and ports.
LEMMA AddressesAre ==
    \A a : a \in Addresses <=> \/ a \in AllStacks \/ a \in prev_task_sp..(task_sp + 1)
                             \/ a \in {TIMSK1, TCNT1L, TCNT1H, PRR0, PRR1}
<1> DEFINE S == prev_task_sp..(task_sp + 1)
           T == {TIMSK1, TCNT1L, TCNT1H, PRR0, PRR1}
<1>1. Addresses = AllStacks \cup S \cup T
  BY DEF Addresses, AllStacks
<1> HIDE DEF S, T
<1>2. \A a : a \in Addresses <=> a \in AllStacks \/ a \in S \/ a \in T
  BY <1>1
<1> QED BY Zenon, <1>2 DEF S, T

LEMMA WordAddresses == \A adr \in Words : adr \in Addresses /\ adr + 1 \in Addresses
<1> TAKE adr \in Words
<1>1. adr \in prev_task_sp..(task_sp + 1) /\ adr + 1 \in prev_task_sp..(task_sp + 1)
  BY SMT DEF Words, prev_task_sp, next_task_sp, scheduler_task_sp, task_sp
<1> QED BY Zenon, <1>1, AddressesAre

LEMMA TimerAddresses == TIMSK1 \in Addresses /\ PRR0 \in Addresses /\ PRR1 \in Addresses
BY SMT, AddressesAre

AddressRange == 100..8449

\* All of it lies in the first kilobytes.
LEMMA AddressBounds == \A a \in Addresses : a \in AddressRange
<1> TAKE a \in Addresses
<1>1. CASE \E o \in Owners : a \in Stack(o)
  <2>1. a \in Stack(Idle) \/ a \in Stack(Scheduler) \/ a \in Stack(Worker)
    BY Zenon, <1>1 DEF Owners
  <2> HIDE DEF Stack
  <2> QED BY SMT, <2>1, StackRanges DEF AddressRange
<1>2. CASE a \in prev_task_sp..(task_sp + 1)
  BY SMT, <1>2 DEF prev_task_sp, task_sp, AddressRange
<1>3. CASE a \in {TIMSK1, TCNT1L, TCNT1H, PRR0, PRR1}
  BY SMT, <1>3 DEF TIMSK1, TCNT1L, TCNT1H, PRR0, PRR1, AddressRange
<1>4. a \in AllStacks => \E o \in Owners : a \in Stack(o)
  BY Zenon DEF AllStacks
<1> DEFINE S == prev_task_sp..(task_sp + 1)
           T == {TIMSK1, TCNT1L, TCNT1H, PRR0, PRR1}
<1>5. a \in AllStacks \/ a \in S \/ a \in T
  BY Zenon, AddressesAre
<1> HIDE DEF S, T
<1> QED BY Zenon, <1>1, <1>2, <1>3, <1>4, <1>5 DEF S, T

\* Single bits.
LEMMA BitTypes ==
    /\ \A v \in 0..255 : WithBit(v, OCIE1A) \in 0..255 /\ WithoutBit(v, OCIE1A) \in 0..255
    /\ \A a, b \in 0..255 : Or(a, b) \in 0..255
<1>1. ASSUME NEW v \in 0..255 PROVE WithBit(v, OCIE1A) \in 0..255 /\ WithoutBit(v, OCIE1A) \in 0..255
  BY DEF WithBit, WithoutBit, Bit, OCIE1A
<1>2. ASSUME NEW a \in 0..255, NEW b \in 0..255 PROVE Or(a, b) \in 0..255
  <2>1. \A w \in Nat : Either(a, b, w) \in {0, w}
    BY DEF Either
  <2>2. /\ Either(a, b, 1) \in {0, 1} /\ Either(a, b, 2) \in {0, 2} /\ Either(a, b, 4) \in {0, 4}
        /\ Either(a, b, 8) \in {0, 8} /\ Either(a, b, 16) \in {0, 16} /\ Either(a, b, 32) \in {0, 32}
        /\ Either(a, b, 64) \in {0, 64} /\ Either(a, b, 128) \in {0, 128}
    BY <2>1
  <2> QED BY <2>2 DEF Or
<1> QED BY Zenon, <1>1, <1>2

\* Any word read is a stack pointer's value.
LEMMA WordTypes == \A m \in [Addresses -> 0..255], adr \in Words : m[adr] + 256 * m[adr + 1] \in SpRange
<1> TAKE m \in [Addresses -> 0..255], adr \in Words
<1>1. m[adr] \in 0..255 /\ m[adr + 1] \in 0..255
  <2>1. adr \in Addresses /\ adr + 1 \in Addresses
    BY Zenon, WordAddresses
  <2> QED BY SMT, <2>1
<1> QED BY Zenon, <1>1, SpBytes

\* The bytes of a program counter.
High(a) == (a \div 256) \div 256
Middle(a) == (a \div 256) % 256
Low(a) == a % 256
Bytes(lo, mid, hi) == 256 * (256 * hi + mid) + lo
Byte == 0..255
PcRange == {a \in Nat : High(a) \in Byte}
Memory == [Addresses -> Byte]

\* Three bytes make a program counter, and it has three.
LEMMA ByteMakesPc == \A lo, mid, hi \in Byte : Bytes(lo, mid, hi) \in PcRange
<1> SUFFICES ASSUME NEW z \in Byte, NEW y \in Byte, NEW x \in Byte PROVE Bytes(z, y, x) \in PcRange
  OBVIOUS
<1> DEFINE h == 256 * x + y
<1>1. h \in Nat /\ x \in Nat /\ y \in 0..255 /\ z \in 0..255
  BY SMT DEF Byte
<1>2. h \div 256 = x
  BY SMT, <1>1, Div256
<1>3. Bytes(z, y, x) = 256 * h + z
  BY DEF Bytes
<1> HIDE DEF h
<1>4. (256 * h + z) \div 256 = h
  BY SMT, <1>1, Div256
<1>5. 256 * h + z \in Nat
  BY SMT, <1>1
<1>6. High(256 * h + z) = x
  BY Zenon, <1>2, <1>4 DEF High
<1> QED BY Zenon, <1>3, <1>5, <1>6 DEF PcRange

LEMMA PcBytes ==
    \A a \in PcRange : Low(a) \in Byte /\ Middle(a) \in Byte /\ High(a) \in Byte
                         /\ Bytes(Low(a), Middle(a), High(a)) = a
<1> TAKE a \in PcRange
<1>1. a \in Nat /\ High(a) \in Byte
  BY Zenon DEF PcRange
<1>2. PICK h : h = a \div 256
  OBVIOUS
<1>3. h \in Nat /\ a % 256 \in 0..255 /\ a = 256 * h + (a % 256)
  BY SMT, <1>1, <1>2, Div256
<1>4. h = 256 * (h \div 256) + (h % 256) /\ h % 256 \in 0..255
  BY SMT, <1>3, Div256
<1>5. 256 * (256 * (h \div 256) + (h % 256)) + (a % 256) = a
  BY SMT, <1>3, <1>4
<1>6. Low(a) = a % 256 /\ Middle(a) = h % 256 /\ High(a) = h \div 256
  BY Zenon, <1>2 DEF Low, Middle, High
<1>7. Bytes(Low(a), Middle(a), High(a)) = a
  BY SMT, <1>5, <1>6 DEF Bytes
<1> QED BY Zenon, <1>1, <1>3, <1>4, <1>6, <1>7 DEF Byte

Pages == 512
LEMMA FlashPages == FlashWords = 256 * Pages /\ Pages \in Nat
BY SMT DEF FlashWords, Pages

\* Code addresses are program counters.
LEMMA FlashPcs == \A a \in 0..(FlashWords + 9) : a \in PcRange
<1> TAKE a \in 0..(FlashWords + 9)
<1>1. FlashWords = 256 * Pages /\ Pages \in Nat
  BY Zenon, FlashPages
<1>2. a \in Nat /\ a =< FlashWords + 9
  BY SMT, FlashInt
<1>3. PICK h : h = a \div 256
  OBVIOUS
<1>4. h \in Nat /\ a % 256 \in 0..255 /\ a = 256 * h + (a % 256)
  BY SMT, <1>2, <1>3, Div256
<1>5. h \in 0..512
  <2>1. \A k, l \in Nat : 256 * k + l =< 256 * Pages + 9 => k =< Pages
    BY SMT, <1>1
  <2>2. 256 * h + (a % 256) =< 256 * Pages + 9 /\ a % 256 \in Nat
    BY SMT, <1>1, <1>2, <1>4
  <2>3. h =< Pages
    BY Zenon, <1>4, <2>1, <2>2
  <2> QED BY SMT, <1>4, <2>3 DEF Pages
<1>6. h \div 256 \in 0..255
  BY SMT, <1>5
<1> QED BY Zenon, <1>2, <1>3, <1>6 DEF PcRange, High, Byte

\* A program counter stored.
LEMMA WithPcIs == \A m, a : WithPc(m, a) = [m EXCEPT ![SP] = Low(a), ![SP - 1] = Middle(a), ![SP - 2] = High(a)]
BY Zenon DEF WithPc, Low, Middle, High

LEMMA StoredType ==
    \A f \in Memory : \A x : \A v \in Byte : [f EXCEPT ![x] = v] \in Memory
<1> SUFFICES ASSUME NEW f \in Memory, NEW x, NEW v \in Byte PROVE [f EXCEPT ![x] = v] \in Memory
  OBVIOUS
<1> QED BY Zenon DEF Memory

LEMMA WithPcType == \A m \in Memory, a \in PcRange : WithPc(m, a) \in Memory
<1> TAKE m \in Memory, a \in PcRange
<1>1. Low(a) \in Byte /\ Middle(a) \in Byte /\ High(a) \in Byte
  BY Zenon, PcBytes
<1>2. [m EXCEPT ![SP] = Low(a)] \in Memory
  BY Zenon, <1>1, StoredType
<1>3. [[m EXCEPT ![SP] = Low(a)] EXCEPT ![SP - 1] = Middle(a)] \in Memory
  BY Zenon, <1>1, <1>2, StoredType
<1>4. [[[m EXCEPT ![SP] = Low(a)] EXCEPT ![SP - 1] = Middle(a)] EXCEPT ![SP - 2] = High(a)] \in Memory
  BY Zenon, <1>1, <1>3, StoredType
<1> QED BY Zenon, <1>4, WithPcIs

\* One read.
LEMMA PcAboveType ==
    ASSUME mem \in Memory, NEW adr \in Int, (adr + 1)..(adr + 3) \subseteq Addresses
    PROVE  PcAbove(adr) \in PcRange
<1>1. adr + 1 \in (adr + 1)..(adr + 3) /\ adr + 2 \in (adr + 1)..(adr + 3) /\ adr + 3 \in (adr + 1)..(adr + 3)
  BY SMT
<1>2. mem[adr + 1] \in Byte /\ mem[adr + 2] \in Byte /\ mem[adr + 3] \in Byte
  BY SMT, <1>1 DEF Memory
<1>3. PcAbove(adr) = Bytes(mem[adr + 3], mem[adr + 2], mem[adr + 1])
  BY Zenon DEF PcAbove, Bytes
<1> QED BY Zenon, <1>2, <1>3, ByteMakesPc

RegisterTypes == [0..31 -> Byte]
\* The types of the registers, SREG, SP, pc and the memory; and of the kernel's variables.
MachineType(r, s, sp, p, m) ==
    /\ r \in RegisterTypes /\ s \in Byte /\ sp \in SpRange
    /\ p \in {Lost, Malformed, BadSp} \cup PcRange /\ m \in Memory
KernelType(o, a, s) == o \in BOOLEAN /\ a \in Owners /\ s \in [Owners -> SpRange]
TypeInv == MachineType(R, sreg, SP, pc, mem) /\ KernelType(ocf, active, task_sp_adr)

\* Registers, addresses and stack pointers after a step.
LEMMA LoadedType == \A f \in RegisterTypes : \A x : \A v \in Byte : [f EXCEPT ![x] = v] \in RegisterTypes
<1> SUFFICES ASSUME NEW f \in RegisterTypes, NEW x, NEW v \in Byte PROVE [f EXCEPT ![x] = v] \in RegisterTypes
  OBVIOUS
<1> QED BY Zenon DEF RegisterTypes

LEMMA NextPc == \A a \in DOMAIN Code : \A k \in 0..5 : a + k \in PcRange
<1> TAKE a \in DOMAIN Code
<1>1. a \in 1..FlashWords
  BY Zenon, CodeWellFormed
<1> QED BY SMT, <1>1, FlashPcs, FlashInt

LEMMA SpSteps == \A a \in Addresses : a \in SpRange /\ a - 1 \in SpRange /\ a \in Int
<1> TAKE a \in Addresses
<1>1. a \in AddressRange
  BY Zenon, AddressBounds
<1>2. a \in Kilobytes /\ a - 1 \in Kilobytes /\ a \in Int
  BY SMT, <1>1 DEF AddressRange, Kilobytes
<1> QED BY Zenon, <1>2, SmallSp

LEMMA StackedSp ==
    ASSUME SP \in SpRange
    PROVE  /\ {SP} \subseteq Addresses => SP - 1 \in SpRange
           /\ {SP + 1} \subseteq Addresses => SP + 1 \in SpRange
           /\ (SP - 2)..SP \subseteq Addresses => SP - 3 \in SpRange
           /\ (SP + 1)..(SP + 3) \subseteq Addresses => SP + 3 \in SpRange
           /\ SP \in Int
<1>1. SP \in Nat
  BY Zenon, SpBytes
<1>2. SP - 2 \in (SP - 2)..SP /\ SP + 3 \in (SP + 1)..(SP + 3) /\ SP - 3 = SP - 2 - 1
  BY SMT, <1>1
<1> QED BY SMT, <1>1, <1>2, SpSteps

\* The types survive each group of instructions.
LEMMA TypePushPop ==
    ASSUME MachineType(R, sreg, SP, pc, mem), InCode, Accessed(Code[pc]) \subseteq Addresses, PushPop
    PROVE  MachineType(R, sreg, SP, pc, mem)'
<1> USE DEF InCode
<1>1. /\ R \in RegisterTypes /\ sreg \in Byte /\ SP \in SpRange /\ mem \in Memory /\ SP \in Int
  BY Zenon, StackedSp DEF MachineType
<1>2. pc + 1 \in PcRange /\ WellFormed(Code[pc])
  <2>1. 1 \in 0..5
    OBVIOUS
  <2> QED BY Zenon, <2>1, NextPc, CodeWellFormed
<1>3. \A k \in 0..31 : R[k] \in Byte
  BY SMT, <1>1 DEF RegisterTypes
<1>4. \A a \in Addresses : mem[a] \in Byte
  BY SMT, <1>1 DEF Memory
<1>5. CASE Op = "push" /\ Store(SP, R[Code[pc][2]]) /\ SP' = SP - 1 /\ Next1 /\ UNCHANGED <<R, sreg>>
  <2>1. Code[pc][2] \in 0..31 /\ Accessed(Code[pc]) = {SP}
    BY SMT, <1>2, <1>5 DEF WellFormed, Op, Accessed
  <2>2. mem' \in Memory
    BY Zenon, <1>1, <1>3, <1>5, <2>1, StoredType DEF Store
  <2>3. SP' \in SpRange
    BY Zenon, <1>1, <1>5, <2>1, StackedSp
  <2> QED BY Zenon, <1>1, <1>2, <1>5, <2>2, <2>3 DEF MachineType, Next1, Go
<1>6. CASE Op = "pop" /\ Load(Code[pc][2], mem[SP + 1]) /\ SP' = SP + 1 /\ Next1 /\ UNCHANGED <<sreg, mem>>
  <2>1. Accessed(Code[pc]) = {SP + 1}
    BY SMT, <1>6 DEF Op, Accessed
  <2>2. mem[SP + 1] \in Byte
    BY Zenon, <1>4, <2>1
  <2>3. R' \in RegisterTypes
    BY Zenon, <1>1, <1>6, <2>2, LoadedType DEF Load
  <2>4. SP' \in SpRange
    BY Zenon, <1>1, <1>6, <2>1, StackedSp
  <2> QED BY Zenon, <1>1, <1>2, <1>6, <2>3, <2>4 DEF MachineType, Next1, Go
<1>7. CASE Op \in {"rcall", "call"} /\ mem' = WithPc(mem, pc + 1) /\ SP' = SP - 3
           /\ (Next1 \/ (Op = "call" /\ Go(Code[pc][2]))) /\ UNCHANGED <<R, sreg>>
  <2>1. Accessed(Code[pc]) = (SP - 2)..SP
    BY SMT, <1>7 DEF Op, Accessed
  <2>2. mem' \in Memory
    BY Zenon, <1>1, <1>2, <1>7, WithPcType
  <2>3. SP' \in SpRange
    BY Zenon, <1>1, <1>7, <2>1, StackedSp
  <2>4. pc' \in PcRange
    <3>1. CASE Next1
      BY Zenon, <1>2, <3>1 DEF Next1, Go
    <3>2. CASE Op = "call" /\ Go(Code[pc][2])
      <4>1. Code[pc][2] \in 1..FlashWords
        BY SMT, <1>2, <3>2 DEF WellFormed, Op
      <4> QED BY SMT, <3>2, <4>1, FlashPcs, FlashInt DEF Go
    <3> QED BY Zenon, <1>7, <3>1, <3>2
  <2> QED BY Zenon, <1>1, <1>7, <2>2, <2>3, <2>4 DEF MachineType
<1>8. CASE /\ Op \in {"ret", "reti", "return"} /\ Go(PcAbove(SP)) /\ SP' = SP + 3
           /\ sreg' = IF Op = "reti" /\ ~IFlag THEN sreg + 128 ELSE sreg
           /\ UNCHANGED <<R, mem>>
  <2>1. Accessed(Code[pc]) = (SP + 1)..(SP + 3)
    BY SMT, <1>8 DEF Op, Accessed
  <2>2. SP' \in SpRange
    BY Zenon, <1>1, <1>8, <2>1, StackedSp
  <2>3. pc' \in PcRange
    BY Zenon, <1>1, <1>8, <2>1, PcAboveType DEF Go
  <2>4. sreg' \in Byte
    BY SMT, <1>1, <1>8 DEF Byte, IFlag
  <2> QED BY Zenon, <1>1, <1>8, <2>2, <2>3, <2>4 DEF MachineType
<1>9. CASE Op = "rcall" /\ mem' = WithPc(mem, pc + 1) /\ SP' = SP - 3 /\ Next1 /\ UNCHANGED <<R, sreg>>
  <2>1. Op \in {"rcall", "call"}
    BY <1>9
  <2> QED BY SMT, <1>7, <1>9, <2>1
<1>10. CASE Op = "call" /\ mem' = WithPc(mem, pc + 1) /\ SP' = SP - 3 /\ Go(Code[pc][2]) /\ UNCHANGED <<R, sreg>>
  <2>1. Op \in {"rcall", "call"}
    BY <1>10
  <2> QED BY Zenon, <1>7, <1>10, <2>1
<1> QED BY Zenon, <1>5, <1>6, <1>8, <1>9, <1>10 DEF PushPop

\* Flags are bits of a byte.
LEMMA FlagBytes ==
    ASSUME sreg \in Byte
    PROVE  /\ \A v \in Byte : LogicFlags(v) \in Byte
           /\ \A sum \in 0..511 : CarryFlag(sum) \in Byte
           /\ sreg % 128 \in Byte /\ 128 + (sreg % 128) \in Byte /\ sreg % 2 \in 0..1
           /\ \A f \in 0..127 : (sreg \div 128) * 128 + f \in Byte
<1>1. sreg \in 0..255
  BY Zenon DEF Byte
<1>2. \A v \in 0..255 : LogicFlags(v) \in 0..255
  <2>1. (sreg \div 32) * 32 \in 0..224 /\ sreg % 2 \in 0..1
    BY SMT, <1>1
  <2> QED BY SMT, <2>1 DEF LogicFlags
<1>3. \A sum \in 0..511 : CarryFlag(sum) \in 0..255
  <2>1. (sreg \div 64) * 64 \in 0..192
    BY SMT, <1>1
  <2> QED BY SMT, <2>1 DEF CarryFlag
<1>4. sreg % 128 \in 0..255 /\ 128 + (sreg % 128) \in 0..255 /\ sreg % 2 \in 0..1
  BY SMT, <1>1
<1>5. \A f \in 0..127 : (sreg \div 128) * 128 + f \in 0..255
  BY SMT, <1>1
<1> QED BY Zenon, <1>2, <1>3, <1>4, <1>5 DEF Byte

LEMMA BitBytes ==
    /\ \A v \in Byte : WithBit(v, OCIE1A) \in Byte /\ WithoutBit(v, OCIE1A) \in Byte
    /\ \A a, b \in Byte : Or(a, b) \in Byte
BY Zenon, BitTypes DEF Byte

LEMMA NextPcs ==
    ASSUME pc \in DOMAIN Code
    PROVE  pc + 1 \in PcRange /\ WellFormed(Code[pc])
<1>1. 1 \in 0..5
  OBVIOUS
<1> QED BY Zenon, <1>1, NextPc, CodeWellFormed

LEMMA TypeArithmetic ==
    ASSUME MachineType(R, sreg, SP, pc, mem), InCode, Arithmetic
    PROVE  MachineType(R, sreg, SP, pc, mem)'
<1> DEFINE d == Code[pc][2]
           r == Code[pc][3]
<1>1. /\ R \in RegisterTypes /\ sreg \in Byte /\ SP \in SpRange /\ mem \in Memory
  BY Zenon DEF MachineType
<1>2. pc + 1 \in PcRange /\ WellFormed(Code[pc])
  BY Zenon, NextPcs DEF InCode
<1>3. \A k \in 0..31 : R[k] \in Byte
  BY SMT, <1>1 DEF RegisterTypes
<1>4. pc' = pc + 1 /\ SP' = SP /\ mem' = mem
  BY DEF Arithmetic, Next1, Go
<1>5. ASSUME NEW v \in Byte, Load(d, v) PROVE R' \in RegisterTypes
  <2>1. R' = [R EXCEPT ![d] = v]
    BY <1>5 DEF Load
  <2>2. [R EXCEPT ![d] = v] \in RegisterTypes
    BY Zenon, <1>1, LoadedType
  <2> QED BY Zenon, <2>1, <2>2
<1>6. R' \in RegisterTypes /\ sreg' \in Byte
  <2>1. CASE Op = "ldi" /\ Load(d, r) /\ UNCHANGED sreg
    <3>1. r \in Byte
      BY SMT, <1>2, <2>1 DEF WellFormed, Op, Byte
    <3> QED BY Zenon, <1>1, <1>5, <2>1, <3>1
  <2>2. CASE Op = "mov" /\ Load(d, R[r]) /\ UNCHANGED sreg
    <3>1. r \in 0..31
      BY SMT, <1>2, <2>2 DEF WellFormed, Op
    <3> QED BY Zenon, <1>1, <1>3, <1>5, <2>2, <3>1
  <2>3. CASE Op = "clr" /\ Load(d, 0) /\ sreg' = LogicFlags(0)
    <3>1. 0 \in Byte
      BY SMT DEF Byte
    <3> QED BY Zenon, <1>1, <1>5, <2>3, <3>1, FlagBytes
  <2>4. CASE Op = "or" /\ Load(d, Or(R[d], R[r])) /\ sreg' = LogicFlags(Or(R[d], R[r]))
    <3>1. d \in 0..31 /\ r \in 0..31
      BY SMT, <1>2, <2>4 DEF WellFormed, Op
    <3>2. Or(R[d], R[r]) \in Byte
      BY Zenon, <1>3, <3>1, BitBytes
    <3> QED BY Zenon, <1>1, <1>5, <2>4, <3>2, FlagBytes
  <2>5. CASE Op = "ori" /\ Load(d, WithBit(R[d], OCIE1A)) /\ sreg' = LogicFlags(WithBit(R[d], OCIE1A))
    <3>1. d \in 0..31
      BY SMT, <1>2, <2>5 DEF WellFormed, Op
    <3>2. WithBit(R[d], OCIE1A) \in Byte
      BY Zenon, <1>3, <3>1, BitBytes
    <3> QED BY Zenon, <1>1, <1>5, <2>5, <3>2, FlagBytes
  <2>6. CASE Op = "andi" /\ Load(d, WithoutBit(R[d], OCIE1A)) /\ sreg' = LogicFlags(WithoutBit(R[d], OCIE1A))
    <3>1. d \in 0..31
      BY SMT, <1>2, <2>6 DEF WellFormed, Op
    <3>2. WithoutBit(R[d], OCIE1A) \in Byte
      BY Zenon, <1>3, <3>1, BitBytes
    <3> QED BY Zenon, <1>1, <1>5, <2>6, <3>2, FlagBytes
  <2>7. CASE Op \in {"add", "adc"} /\ Load(d, Sum(d, r) % 256) /\ sreg' = CarryFlag(Sum(d, r))
    <3>1. d \in 0..31 /\ r \in 0..31
      BY SMT, <1>2, <2>7 DEF WellFormed, Op
    <3>2. R[d] \in 0..255 /\ R[r] \in 0..255 /\ sreg % 2 \in 0..1
      BY ZenonT(60), <1>1, <1>3, <3>1, FlagBytes DEF Byte
    <3>3. Sum(d, r) \in 0..511
      <4>0. 0 \in 0..1
        OBVIOUS
      <4>1. (IF Op = "adc" THEN sreg % 2 ELSE 0) \in 0..1
        BY Zenon, <3>2, <4>0
      <4>2. \A x, y \in 0..255 : \A z \in 0..1 : x + y + z \in 0..511
        BY SMT
      <4> QED BY ZenonT(60), <3>2, <4>1, <4>2 DEF Sum
    <3>4. Sum(d, r) % 256 \in Byte
      BY SMT, <3>3 DEF Byte
    <3> QED BY Zenon, <1>1, <1>5, <2>7, <3>3, <3>4, FlagBytes
  <2>8. CASE Op = "nop" /\ UNCHANGED <<R, sreg>>
    BY Zenon, <1>1, <2>8
  <2> QED BY Zenon, <2>1, <2>2, <2>3, <2>4, <2>5, <2>6, <2>7, <2>8 DEF Arithmetic
<1> QED BY Zenon, <1>1, <1>2, <1>4, <1>6 DEF MachineType

LEMMA TypeJump ==
    ASSUME MachineType(R, sreg, SP, pc, mem), InCode, Jump
    PROVE  MachineType(R, sreg, SP, pc, mem)'
<1>1. R' = R /\ sreg' = sreg /\ SP' = SP /\ mem' = mem
  BY DEF Jump
<1>2. WellFormed(Code[pc])
  BY Zenon, NextPcs DEF InCode
<1>3. pc' \in PcRange
  <2>1. CASE Op = "jmp" /\ Go(Code[pc][2])
    <3>1. Code[pc][2] \in 1..FlashWords
      BY SMT, <1>2, <2>1 DEF WellFormed, Op
    <3> QED BY SMT, <2>1, <3>1, FlashPcs, FlashInt DEF Go
  <2>2. CASE Op = "rjmp" /\ Go(pc + 1 + Code[pc][2])
    <3>1. Code[pc][2] \in 0..4
      BY SMT, <1>2, <2>2 DEF WellFormed, Op
    <3>2. 1 + Code[pc][2] \in 0..5 /\ pc \in 1..FlashWords
      <4>1. pc \in 1..FlashWords
        BY Zenon, CodeWellFormed DEF InCode
      <4> QED BY SMT, <3>1, <4>1
    <3>3. pc + (1 + Code[pc][2]) = pc + 1 + Code[pc][2]
      BY SMT, <3>1, <3>2
    <3>4. pc + (1 + Code[pc][2]) \in PcRange
      BY Zenon, <3>2, NextPc DEF InCode
    <3> QED BY Zenon, <2>2, <3>3, <3>4 DEF Go
  <2>3. CASE Op = "cpse" /\ Go(IF R[Code[pc][2]] = R[Code[pc][3]] THEN pc + 2 ELSE pc + 1)
    <3>1. 1 \in 0..5 /\ 2 \in 0..5
      OBVIOUS
    <3>2. pc + 1 \in PcRange /\ pc + 2 \in PcRange
      BY Zenon, <3>1, NextPc DEF InCode
    <3> QED BY Zenon, <2>3, <3>2 DEF Go
  <2> QED BY Zenon, <2>1, <2>2, <2>3 DEF Jump
<1> QED BY Zenon, <1>1, <1>3 DEF MachineType

\* in and out.
LEMMA TypeInOut ==
    ASSUME MachineType(R, sreg, SP, pc, mem), InCode, InOut
    PROVE  MachineType(R, sreg, SP, pc, mem)'
<1> DEFINE d == Code[pc][2]
<1>1. /\ R \in RegisterTypes /\ sreg \in Byte /\ SP \in SpRange /\ mem \in Memory
  BY Zenon DEF MachineType
<1>2. pc + 1 \in PcRange /\ WellFormed(Code[pc])
  BY Zenon, NextPcs DEF InCode
<1>3. \A k \in 0..31 : R[k] \in Byte
  BY SMT, <1>1 DEF RegisterTypes
<1>4. pc' = pc + 1 /\ mem' = mem
  BY DEF InOut, Next1, Go
<1>5. ASSUME NEW v \in Byte, Load(d, v) PROVE R' \in RegisterTypes
  <2>1. R' = [R EXCEPT ![d] = v]
    BY <1>5 DEF Load
  <2>2. [R EXCEPT ![d] = v] \in RegisterTypes
    BY Zenon, <1>1, LoadedType
  <2> QED BY Zenon, <2>1, <2>2
<1>6. lo8(SP) \in Byte /\ hi8(SP) \in Byte
  BY Zenon, <1>1, SpBytes DEF Byte
<1>7. R' \in RegisterTypes /\ sreg' \in Byte /\ SP' \in SpRange
  <2>1. CASE Op = "in_sreg" /\ Load(d, sreg) /\ UNCHANGED <<sreg, SP>>
    BY Zenon, <1>1, <1>5, <2>1
  <2>2. CASE Op = "in_spl" /\ Load(d, lo8(SP)) /\ UNCHANGED <<sreg, SP>>
    BY Zenon, <1>1, <1>5, <1>6, <2>2
  <2>3. CASE Op = "in_sph" /\ Load(d, hi8(SP)) /\ UNCHANGED <<sreg, SP>>
    BY Zenon, <1>1, <1>5, <1>6, <2>3
  <2>4. CASE Op = "out_sreg" /\ sreg' = R[d] /\ UNCHANGED <<R, SP>>
    <3>1. d \in 0..31
      BY SMT, <1>2, <2>4 DEF WellFormed, Op
    <3> QED BY Zenon, <1>1, <1>3, <2>4, <3>1
  <2>5. CASE Op = "out_spl" /\ SP' = 256 * hi8(SP) + R[d] /\ UNCHANGED <<R, sreg>>
    <3>1. d \in 0..31
      BY SMT, <1>2, <2>5 DEF WellFormed, Op
    <3>2. R[d] \in 0..255 /\ hi8(SP) \in 0..255
      BY Zenon, <1>3, <1>6, <3>1 DEF Byte
    <3> QED BY ZenonT(60), <1>1, <2>5, <3>2, SpBytes
  <2>6. CASE Op = "out_sph" /\ SP' = 256 * R[d] + lo8(SP) /\ UNCHANGED <<R, sreg>>
    <3>1. d \in 0..31
      BY SMT, <1>2, <2>6 DEF WellFormed, Op
    <3>2. R[d] \in 0..255 /\ lo8(SP) \in 0..255
      BY Zenon, <1>3, <1>6, <3>1 DEF Byte
    <3> QED BY ZenonT(60), <1>1, <2>6, <3>2, SpBytes
  <2> QED BY Zenon, <2>1, <2>2, <2>3, <2>4, <2>5, <2>6 DEF InOut
<1> QED BY Zenon, <1>1, <1>2, <1>4, <1>7 DEF MachineType

\* cli and sei.
LEMMA TypeInterruptFlag ==
    ASSUME MachineType(R, sreg, SP, pc, mem), InCode, InterruptFlag
    PROVE  MachineType(R, sreg, SP, pc, mem)'
<1>1. R' = R /\ SP' = SP /\ mem' = mem /\ pc' = pc + 1
  BY DEF InterruptFlag, Next1, Go
<1>2. sreg' \in Byte
  BY Zenon, FlagBytes DEF InterruptFlag, MachineType
<1> QED BY Zenon, <1>1, <1>2, NextPcs DEF MachineType, InCode

\* Pointers are made of bytes.
LEMMA PointerBytes ==
    \A r \in RegisterTypes : \A p \in {26, 30} : r[p] \in 0..255 /\ r[p + 1] \in 0..255
<1> TAKE r \in RegisterTypes
<1>2. \A k \in 0..31 : r[k] \in 0..255
  BY SMT DEF RegisterTypes, Byte
<1>3. r[26] \in 0..255 /\ r[27] \in 0..255 /\ r[30] \in 0..255 /\ r[31] \in 0..255
  BY SMT, <1>2
<1> QED BY SMT, <1>3

LEMMA SmallWord == \A w \in Kilobytes : lo8(w) \in Byte /\ hi8(w) \in Byte
BY Zenon, SmallSp, SpBytes DEF Byte

\* A pointer at an address stays in reach when it moves.
LEMMA MovedType ==
    ASSUME R \in RegisterTypes, NEW p \in {26, 30}, NEW by \in {-1, 0, 1},
           Pointer(p) + (IF by < 0 THEN by ELSE 0) \in Addresses
    PROVE  Moved(R, p, by) \in RegisterTypes
<1> DEFINE at == Pointer(p) + (IF by < 0 THEN by ELSE 0)
<1>1. Pointer(p) \in Nat
  <2>1. R[p] \in 0..255 /\ R[p + 1] \in 0..255
    BY Zenon, PointerBytes
  <2>2. \A x, y \in 0..255 : x + 256 * y \in Nat
    BY SMT
  <2> QED BY Zenon, <2>1, <2>2 DEF Pointer
<1>2. at \in AddressRange
  BY Zenon, AddressBounds
<1>3. Pointer(p) + by \in Kilobytes
  <2> DEFINE q == Pointer(p)
  <2>1. q \in Nat /\ q + (IF by < 0 THEN by ELSE 0) \in AddressRange
    BY Zenon, <1>1, <1>2
  <2> HIDE DEF q
  <2>2. q + by \in Kilobytes
    BY SMT, <2>1 DEF AddressRange, Kilobytes
  <2> QED BY Zenon, <2>2 DEF q
<1>4. lo8(Pointer(p) + by) \in Byte /\ hi8(Pointer(p) + by) \in Byte
  BY Zenon, <1>3, SmallWord
<1>5. [R EXCEPT ![p] = lo8(Pointer(p) + by)] \in RegisterTypes
  BY Zenon, <1>4, LoadedType
<1>6. [[R EXCEPT ![p] = lo8(Pointer(p) + by)] EXCEPT ![p + 1] = hi8(Pointer(p) + by)] \in RegisterTypes
  BY Zenon, <1>4, <1>5, LoadedType
<1> QED BY Zenon, <1>6 DEF Moved

\* Loads and stores.
LEMMA TypeLoadStore ==
    ASSUME MachineType(R, sreg, SP, pc, mem), InCode, Accessed(Code[pc]) \subseteq Addresses, LoadStore
    PROVE  MachineType(R, sreg, SP, pc, mem)'
<1> DEFINE i == Code[pc]
<1>1. /\ R \in RegisterTypes /\ sreg \in Byte /\ SP \in SpRange /\ mem \in Memory
  BY Zenon DEF MachineType
<1>2. pc + 1 \in PcRange /\ WellFormed(Code[pc])
  BY Zenon, NextPcs DEF InCode
<1>3. \A k \in 0..31 : R[k] \in Byte
  BY SMT, <1>1 DEF RegisterTypes
<1>4. \A a \in Addresses : mem[a] \in Byte
  BY SMT, <1>1 DEF Memory
<1>5. pc' = pc + 1 /\ SP' = SP /\ sreg' = sreg
  BY DEF LoadStore, Next1, Go
<1>6. CASE Op \in {"ld", "st"}
  <2>1. i[2] \in 0..31 /\ i[3] \in {26, 30} /\ i[4] \in {-1, 0, 1} /\ Accessed(i) = {Pointed(i)}
    BY SMT, <1>2, <1>6 DEF WellFormed, Op, Accessed
  <2>2. Pointed(i) \in Addresses
    BY Zenon, <2>1
  <2>3. Moved(R, i[3], i[4]) \in RegisterTypes
    BY Zenon, <1>1, <2>1, <2>2, MovedType DEF Pointed
  <2>4. CASE R' = [Moved(R, i[3], i[4]) EXCEPT ![i[2]] = mem[Pointed(i)]] /\ UNCHANGED mem
    <3>1. mem[Pointed(i)] \in Byte
      BY Zenon, <1>4, <2>2
    <3>2. [Moved(R, i[3], i[4]) EXCEPT ![i[2]] = mem[Pointed(i)]] \in RegisterTypes
      BY Zenon, <2>3, <3>1, LoadedType
    <3> QED BY Zenon, <1>1, <1>2, <1>5, <2>4, <3>2 DEF MachineType
  <2>5. CASE R' = Moved(R, i[3], i[4]) /\ Store(Pointed(i), R[i[2]])
    <3>1. [mem EXCEPT ![Pointed(i)] = R[i[2]]] \in Memory
      BY Zenon, <1>1, <1>3, <2>1, StoredType
    <3> QED BY Zenon, <1>1, <1>2, <1>5, <2>3, <2>5, <3>1 DEF MachineType, Store
  <2> QED BY SMT, <1>6, <2>4, <2>5 DEF LoadStore
<1>7. CASE Op = "lds" /\ Load(i[2], mem[i[3]]) /\ UNCHANGED mem
  <2>1. i[3] = TIMSK1
    BY SMT, <1>2, <1>7 DEF WellFormed, Op
  <2>2. mem[i[3]] \in Byte
    BY Zenon, <1>4, <2>1, TimerAddresses
  <2>3. [R EXCEPT ![i[2]] = mem[i[3]]] \in RegisterTypes
    BY Zenon, <1>1, <2>2, LoadedType
  <2> QED BY Zenon, <1>1, <1>2, <1>5, <1>7, <2>3 DEF MachineType, Load
<1>8. CASE Op = "sts" /\ Store(i[2], R[i[3]]) /\ UNCHANGED R
  <2>1. i[3] \in 0..31
    BY SMT, <1>2, <1>8 DEF WellFormed, Op
  <2>2. [mem EXCEPT ![i[2]] = R[i[3]]] \in Memory
    BY Zenon, <1>1, <1>3, <2>1, StoredType
  <2> QED BY Zenon, <1>1, <1>2, <1>5, <1>8, <2>2 DEF MachineType, Store
<1> HIDE DEF i
<1> QED BY SMT, <1>6, <1>7, <1>8 DEF LoadStore, i

\* Words written by C code.
LEMMA WithWordType == \A m \in Memory : \A adr : \A w \in SpRange : WithWord(m, adr, w) \in Memory
<1> SUFFICES ASSUME NEW m \in Memory, NEW adr, NEW w \in SpRange PROVE WithWord(m, adr, w) \in Memory
  OBVIOUS
<1>1. lo8(w) \in Byte /\ hi8(w) \in Byte
  BY Zenon, SpBytes DEF Byte
<1>2. [m EXCEPT ![adr] = lo8(w)] \in Memory
  BY Zenon, <1>1, StoredType
<1>3. [[m EXCEPT ![adr] = lo8(w)] EXCEPT ![adr + 1] = hi8(w)] \in Memory
  BY Zenon, <1>1, <1>2, StoredType
<1> QED BY Zenon, <1>3 DEF WithWord

LEMMA WordSp == ASSUME mem \in Memory, NEW adr \in Words PROVE Word(adr) \in SpRange
BY Zenon, WordTypes DEF Word, Memory, Byte

LEMMA TopSp == \A o \in Owners : task_sp_range_high(o) \in SpRange /\ task_sp_range_high(o) \in Addresses
<1> TAKE o \in Owners
<1>1. task_sp_range_high(o) \in Stack(o)
  BY SMT DEF Owners, Idle, Scheduler, Worker, Stack, StackBytes, task_sp_range_high
<1> QED BY Zenon, <1>1, StackAddresses, SpSteps

\* Where tasks and programs are.
LEMMA TaskPcs == \A o : TaskAt(o) \in PcRange /\ \A p \in Patterns \cup {0} : TaskAt(o) + 2 * p \in PcRange /\ TaskAt(o) + 2 * p + 1 \in PcRange
<1> SUFFICES ASSUME NEW o, NEW p \in Patterns \cup {0}
             PROVE  TaskAt(o) \in PcRange /\ TaskAt(o) + 2 * p \in PcRange /\ TaskAt(o) + 2 * p + 1 \in PcRange
  OBVIOUS
<1>1. TaskAt(o) \in Nat /\ TaskAt(o) + 82 =< FlashWords
  BY Places DEF TaskAt
<1>2. p \in 0..40
  BY PatternsAssumption DEF MaxDepth
<1>3. \A t \in Nat : t + 82 =< FlashWords => /\ t \in 0..(FlashWords + 9) /\ t + 2 * p \in 0..(FlashWords + 9)
                                             /\ t + 2 * p + 1 \in 0..(FlashWords + 9)
  BY SMT, <1>2, FlashInt
<1> QED BY Zenon, <1>1, <1>3, FlashPcs

LEMMA PlacePcs == SpawnAt \in PcRange /\ StartAt \in PcRange /\ YieldAt \in PcRange /\ TimerAt \in PcRange
<1>1. /\ SpawnAt \in 0..(FlashWords + 9) /\ StartAt \in 0..(FlashWords + 9)
      /\ YieldAt \in 0..(FlashWords + 9) /\ TimerAt \in 0..(FlashWords + 9)
  BY SMT, Places, FlashInt
<1> QED BY Zenon, <1>1, FlashPcs

\* What C code leaves below SP.
LEMMA ScribbledType == \A m \in Memory : \A a : Scribbled(m, a) \in Memory
<1> SUFFICES ASSUME NEW m \in Memory, NEW a PROVE Scribbled(m, a) \in Memory
  OBVIOUS
<1>1. 165 \in Byte
  BY SMT DEF Byte
<1>2. \A x \in Addresses : m[x] \in Byte
  BY Zenon DEF Memory
<1> QED BY Zenon, <1>1, <1>2 DEF Scribbled, Memory

\* C code keeps the types,
LEMMA TypeC ==
    ASSUME TypeInv, InCode, C, UNCHANGED ocf
    PROVE  TypeInv'
<1>1. /\ R \in RegisterTypes /\ sreg \in Byte /\ SP \in SpRange /\ mem \in Memory
      /\ ocf \in BOOLEAN /\ active \in Owners /\ task_sp_adr \in [Owners -> SpRange]
  BY Zenon DEF MachineType, KernelType, TypeInv
<1>2. pc + 1 \in PcRange
  BY Zenon, NextPcs DEF InCode
<1>3. Scheduler \in Owners /\ Worker \in Owners /\ Idle \in Owners
  BY Zenon DEF Owners
<1>4. task_sp \in Words /\ scheduler_task_sp \in Words /\ prev_task_sp \in Words
  BY Zenon DEF Words
<1>5. \A w \in SpRange : \A o : [task_sp_adr EXCEPT ![o] = w] \in [Owners -> SpRange]
  BY Zenon, <1>1
<1>6. CASE create
  <2>1. active' \in Owners
    BY Zenon, <1>3, <1>6 DEF create
  <2> QED BY Zenon, <1>1, <1>2, <1>6, <2>1 DEF create, Next1, Go, MachineType, KernelType, TypeInv
<1>7. CASE adopt
  <2>1. task_sp_adr' \in [Owners -> SpRange]
    BY Zenon, <1>1, <1>4, <1>5, <1>7, WordSp DEF adopt
  <2>2. mem' \in Memory
    BY Zenon, <1>1, <1>7, WithWordType, TopSp DEF adopt
  <2> QED BY Zenon, <1>1, <1>2, <1>7, <2>1, <2>2 DEF adopt, Next1, Go, MachineType, KernelType, TypeInv
<1>8. CASE fn
  <2>1. pc' \in PcRange
    BY Zenon, <1>8, PlacePcs, TaskPcs DEF fn, Go
  <2> QED BY Zenon, <1>1, <1>8, <2>1 DEF fn, kernel, MachineType, KernelType, TypeInv
<1>9. CASE schedule
  <2> DEFINE sp == Word(IF active = Scheduler THEN scheduler_task_sp ELSE prev_task_sp)
             stored == [task_sp_adr EXCEPT ![active] = sp]
  <2>1. stored \in [Owners -> SpRange]
    <3>1. sp \in SpRange
      BY Zenon, <1>1, <1>4, WordSp
    <3> QED BY Zenon, <1>5, <3>1
  <2>2. CASE (Go(BadSp) \/ Go(Malformed)) /\ UNCHANGED <<R, sreg, SP, mem, kernel>>
    BY Zenon, <1>1, <1>9, <2>2 DEF Go, kernel, MachineType, KernelType, TypeInv
  <2>3. ASSUME NEW next \in {o \in {Idle, Worker} : stored[o] # 0},
               task_sp_adr' = stored, active' = next,
               mem' = WithWord(Scribbled(mem, SP), next_task_sp, stored[next]), R' = KernelRegisters,
               Next1, UNCHANGED <<sreg, SP>>
        PROVE  TypeInv'
    <3> HIDE DEF stored
    <3>1. next \in Owners
      BY Zenon, <1>3
    <3>2. stored[next] \in SpRange
      BY Zenon, <2>1, <3>1
    <3>3. mem' \in Memory
      BY Zenon, <1>1, <2>3, <3>2, ScribbledType, WithWordType
    <3>4. R' \in RegisterTypes
      BY Zenon, <2>3, PatternsAssumption DEF RegisterFiles, RegisterTypes, Byte
    <3> QED BY Zenon, <1>1, <1>2, <2>1, <2>3, <3>1, <3>3, <3>4 DEF Next1, Go, MachineType, KernelType, TypeInv
  <2> QED BY Zenon, <1>9, <2>2, <2>3 DEF schedule
<1>10. create \/ adopt \/ fn \/ schedule
  <2>1. Code[pc][2] \in {"create", "adopt", "fn", "schedule"}
    BY SMT, NextPcs DEF InCode, WellFormed, C, Op
  <2>2. CASE Code[pc][2] = "create"
    BY <2>2 DEF C
  <2>3. CASE Code[pc][2] = "adopt"
    BY <2>3 DEF C
  <2>4. CASE Code[pc][2] = "fn"
    BY <2>4 DEF C
  <2>5. CASE Code[pc][2] = "schedule"
    BY <2>5 DEF C
  <2> QED BY Zenon, <2>1, <2>2, <2>3, <2>4, <2>5
<1> QED BY Zenon, <1>6, <1>7, <1>8, <1>9, <1>10

\* and so do interrupts,
LEMMA TypeEnter ==
    ASSUME TypeInv, NEW a \in PcRange, NEW return \in PcRange, Enter(a, return)
    PROVE  mem' \in Memory /\ SP' \in SpRange /\ pc' \in {Lost} \cup PcRange
<1>1. SP \in SpRange /\ mem \in Memory
  BY Zenon DEF MachineType, TypeInv
<1>2. CASE (SP - 2)..SP \subseteq Addresses
  <2>1. SP - 3 \in SpRange
    BY Zenon, <1>1, <1>2, StackedSp
  <2> QED BY Zenon, <1>1, <1>2, <2>1, WithPcType DEF Enter, Go
<1>3. CASE ~((SP - 2)..SP \subseteq Addresses)
  BY Zenon, <1>1, <1>3 DEF Enter, Go
<1> QED BY Zenon, <1>2, <1>3

\* instructions,
LEMMA TypeExecute ==
    ASSUME TypeInv, Execute
    PROVE  TypeInv'
<1>1. CASE InCode /\ Accessed(Code[pc]) \subseteq Addresses
  <2>1. \/ (PushPop \/ Arithmetic \/ Jump \/ InOut \/ InterruptFlag \/ LoadStore) /\ UNCHANGED kernel
        \/ C
    BY <1>1 DEF Execute
  <2>2. UNCHANGED ocf
    BY DEF Execute
  <2>3. CASE (PushPop \/ Arithmetic \/ Jump \/ InOut \/ InterruptFlag \/ LoadStore) /\ UNCHANGED kernel
    <3>1. MachineType(R, sreg, SP, pc, mem)'
      BY Zenon, <1>1, <2>3, TypePushPop, TypeArithmetic, TypeJump, TypeInOut, TypeInterruptFlag, TypeLoadStore DEF TypeInv
    <3>2. KernelType(ocf, active, task_sp_adr)'
      BY Zenon, <2>2, <2>3 DEF TypeInv, KernelType, kernel
    <3> QED BY Zenon, <3>1, <3>2 DEF TypeInv
  <2> QED BY Zenon, <1>1, <2>1, <2>2, <2>3, TypeC
<1>2. CASE ~(InCode /\ Accessed(Code[pc]) \subseteq Addresses)
  BY Zenon, <1>2 DEF Execute, Go, kernel, TypeInv, MachineType, KernelType
<1> QED BY Zenon, <1>1, <1>2

\* and task code.
LEMMA TypeCompute ==
    ASSUME TypeInv, Compute
    PROVE  TypeInv'
<1>1. PICK p \in Patterns :
          /\ R' = Registers[p]
          /\ sreg' = (sreg \div 128) * 128 + Flags[p]
          /\ SP' = task_sp_range_high(active) - p
          /\ mem' = [x \in Addresses |-> IF x \in Stack(active) THEN 165 + p ELSE mem[x]]
          /\ Go(TaskAt(active) + 2 * p)
  BY Zenon DEF Compute
<1>2. sreg \in Byte /\ mem \in Memory /\ active \in Owners
  BY Zenon DEF TypeInv, MachineType, KernelType
<1>3. R' \in RegisterTypes
  <2>1. Registers[p] \in RegisterFiles
    BY Zenon, PatternsAssumption
  <2>2. RegisterFiles = RegisterTypes
    BY Zenon DEF RegisterFiles, RegisterTypes, Byte
  <2> QED BY Zenon, <1>1, <2>1, <2>2
<1>4. sreg' \in Byte
  <2>1. Flags[p] \in 0..127
    BY Zenon, PatternsAssumption
  <2> QED BY Zenon, <1>1, <1>2, <2>1, FlagBytes
<1>5. p \in 0..40
  BY PatternsAssumption DEF MaxDepth
<1>6. SP' \in SpRange
  <2>1. task_sp_range_high(active) - p \in Kilobytes
    BY SMT, <1>2, <1>5 DEF Owners, Idle, Scheduler, Worker, task_sp_range_high, Kilobytes
  <2> QED BY Zenon, <1>1, <2>1, SmallSp
<1>7. mem' \in Memory
  <2>1. 165 + p \in Byte
    BY SMT, <1>5 DEF Byte
  <2>2. \A x \in Addresses : mem[x] \in Byte
    BY Zenon, <1>2 DEF Memory
  <2> QED BY Zenon, <1>1, <2>1, <2>2 DEF Memory
<1>8. pc' \in PcRange
  BY Zenon, <1>1, TaskPcs DEF Go
<1> QED BY Zenon, <1>3, <1>4, <1>6, <1>7, <1>8 DEF Compute, kernel, TypeInv, MachineType, KernelType

\* The types hold at the start,
LEMMA TypeInit == ASSUME Init PROVE TypeInv
<1>1. R \in RegisterTypes
  BY Zenon, PatternsAssumption DEF Init, RegisterFiles, RegisterTypes, Byte
<1>2. 0 \in Byte /\ 7 \in Byte /\ 0 \in Kilobytes
  BY SMT DEF Byte, Kilobytes
<1>3. mem \in Memory
  BY Zenon, <1>2 DEF Init, Memory
<1>4. Idle \in Owners
  BY Zenon DEF Owners
<1>5. task_sp_adr \in [Owners -> SpRange] /\ SP \in SpRange
  BY Zenon, <1>2, <1>4, SmallSp, TopSp DEF Init
<1> QED BY Zenon, <1>1, <1>2, <1>3, <1>4, <1>5, TaskPcs DEF Init, TypeInv, MachineType, KernelType

\* after each step,
LEMMA TypeNext == ASSUME TypeInv, [Next]_vars PROVE TypeInv'
<1>1. CASE Yield \/ Spawn
  <2>1. PICK a \in {YieldAt, SpawnAt} : Call(a)
    BY Zenon, <1>1 DEF Yield, Spawn
  <2>2. a \in PcRange /\ pc + 1 \in PcRange
    <3>1. PICK p \in Patterns \cup {0} : pc = TaskAt(active) + 2 * p
      BY Zenon, <2>1 DEF Call, CallSites
    <3> QED BY Zenon, <3>1, PlacePcs, TaskPcs
  <2>3. mem' \in Memory /\ SP' \in SpRange /\ pc' \in {Lost} \cup PcRange
    BY Zenon, <2>1, <2>2, TypeEnter DEF Call
  <2> QED BY Zenon, <2>1, <2>3 DEF Call, kernel, TypeInv, MachineType, KernelType
<1>2. CASE TimerISR
  <2>1. pc \in PcRange
    BY Zenon, <1>2 DEF TimerISR, Irq, Stopped, TypeInv, MachineType
  <2>2. mem' \in Memory /\ SP' \in SpRange /\ pc' \in {Lost} \cup PcRange
    BY Zenon, <1>2, <2>1, PlacePcs, TypeEnter DEF TimerISR
  <2>3. sreg' \in Byte
    BY Zenon, <1>2, FlagBytes DEF TimerISR, TypeInv, MachineType
  <2>4. FALSE \in BOOLEAN
    OBVIOUS
  <2> QED BY Zenon, <1>2, <2>2, <2>3, <2>4 DEF TimerISR, kernel, TypeInv, MachineType, KernelType
<1>3. CASE TimerMatch
  <2>1. TRUE \in BOOLEAN
    OBVIOUS
  <2> QED BY Zenon, <1>3, <2>1 DEF TimerMatch, kernel, TypeInv, MachineType, KernelType
<1>4. CASE UNCHANGED vars
  BY Zenon, <1>4 DEF vars, machine, kernel, TypeInv, MachineType, KernelType
<1> QED BY Zenon, <1>1, <1>2, <1>3, <1>4, TypeExecute, TypeCompute DEF Next, halt_exec

\* and so always.
LEMMA TypeInvariant == Spec => []TypeInv
BY TypeInit, TypeNext, PTL DEF Spec

\* Registers, SREG and memory hold bytes, through all the switch's arithmetic.
THEOREM TypeCorrect == Spec => []TypeOK
<1>1. TypeInv => TypeOK
  <2>1. ASSUME TypeInv PROVE SP \in Nat /\ pc \in Int
    <3>1. SP \in Nat
      BY Zenon, <2>1, SpBytes DEF TypeInv, MachineType
    <3>2. pc \in {Lost, Malformed, BadSp} \cup PcRange
      BY Zenon, <2>1 DEF TypeInv, MachineType
    <3> QED BY SMT, <3>1, <3>2 DEF Lost, Malformed, BadSp, PcRange
  <2> QED BY Zenon, <2>1 DEF TypeInv, MachineType, KernelType, TypeOK, RegisterTypes, Byte, Memory
<1> QED BY <1>1, TypeInvariant, PTL

-----------------------------------------------------------------------------
(* Stacks and words *)

Top(o) == task_sp_range_high(o)
context == 36                   \* bytes of a saved context, its return address included
scheduler_sp == Top(Scheduler) - context
Contexts(o) == (Top(o) - 79)..(Top(o) - context)    \* where one may be

\* The three stacks do not overlap.
LEMMA TopIs == \A o \in Owners : Top(o) = 1496 + 649 * o /\ o \in {0, 1, 2}
<1>1. Owners = {0, 1, 2}
  BY Zenon DEF Owners, Idle, Scheduler, Worker
<1> QED BY SMT, <1>1 DEF Top, task_sp_range_high

LEMMA Geometry == \A o \in Owners : Top(o) \in Int /\ Stack(o) = (Top(o) - 80)..Top(o)
BY SMT, TopIs DEF Stack, StackBytes, Top

LEMMA StacksApart == \A o, p \in Owners : \A a \in Stack(o) : a \in Stack(p) => o = p
<1> TAKE o, p \in Owners
<1> SUFFICES ASSUME NEW a \in Stack(o), a \in Stack(p) PROVE o = p
  OBVIOUS
<1>1. Top(o) = 1496 + 649 * o /\ Top(p) = 1496 + 649 * p /\ o \in {0, 1, 2} /\ p \in {0, 1, 2}
  BY SMT, TopIs
<1>2. a \in (Top(o) - 80)..Top(o) /\ a \in (Top(p) - 80)..Top(p)
  BY SMT, Geometry
<1> QED BY SMT, <1>1, <1>2

\* Whose stack an address is in.
LEMMA OwnerIs == \A o \in Owners : \A a \in (Top(o) - 200)..Top(o) : Owner(a) = o
BY SMT, TopIs DEF Owner

Ports == {TIMSK1, PRR0, PRR1}

\* Stacks, words and ports do not overlap.
LEMMA Disjoint ==
    /\ \A o \in Owners : \A a \in Stack(o) : a \notin Ports /\ \A w \in Words : a # w /\ a # w + 1
    /\ \A w \in Words : w \notin Ports /\ w + 1 \notin Ports
    /\ \A v, w \in Words : v # w => v # w + 1 /\ v + 1 # w /\ v + 1 # w + 1
<1>1. \A o \in Owners : \A a \in Stack(o) : a > 1000 /\ a < 3000
  <2> SUFFICES ASSUME NEW o \in Owners, NEW a \in Stack(o) PROVE a > 1000 /\ a < 3000
    OBVIOUS
  <2>1. a \in Stack(Idle) \/ a \in Stack(Scheduler) \/ a \in Stack(Worker)
    BY Zenon DEF Owners
  <2> HIDE DEF Stack
  <2> QED BY SMT, <2>1, StackRanges
<1>2. \A w \in Words : w \in {8442, 8444, 8446, 8448}
  BY SMT DEF Words, prev_task_sp, next_task_sp, scheduler_task_sp, task_sp
<1>3. \A a \in Ports : a < 200
  BY SMT DEF Ports, TIMSK1, PRR0, PRR1
<1>4. \A o \in Owners : \A a \in Stack(o) : a \in Int
  BY SMT, Geometry
<1>5. \A o \in Owners : \A a \in Stack(o) : a \notin Ports /\ \A w \in Words : a # w /\ a # w + 1
  BY SMT, <1>1, <1>2, <1>3, <1>4
<1>6. \A w \in Words : w \notin Ports /\ w + 1 \notin Ports
  BY SMT, <1>2, <1>3
<1>7. \A v, w \in Words : v # w => v # w + 1 /\ v + 1 # w /\ v + 1 # w + 1
  BY SMT, <1>2
<1> QED BY Zenon, <1>5, <1>6, <1>7

\* The program counter and the word at adr.
PcIn(m, adr) == Bytes(m[adr + 3], m[adr + 2], m[adr + 1])
WordIn(m, adr) == m[adr] + 256 * m[adr + 1]

\* From m to n the stacks keep what they hold, o's what is above e.
StacksKept(m, n, o, e) == \A t \in Owners : \A a \in Stack(t) : (t = o => a > e) => n[a] = m[a]
WordKept(m, n, w) == n[w] = m[w] /\ n[w + 1] = m[w + 1]
WordsKept(m, n) == \A w \in Words : WordKept(m, n, w)

\* A store to a stack, a port or a word keeps the rest.
LEMMA StackStore ==
    ASSUME NEW m \in Memory, NEW o \in Owners, NEW e \in Int, NEW a \in Stack(o), a =< e, NEW v
    PROVE  StacksKept(m, [m EXCEPT ![a] = v], o, e) /\ WordsKept(m, [m EXCEPT ![a] = v])
<1> DEFINE n == [m EXCEPT ![a] = v]
<1>1. \A x \in Addresses : x # a => n[x] = m[x]
  BY Zenon DEF Memory
<1>2. ASSUME NEW t \in Owners, NEW x \in Stack(t), t = o => x > e PROVE n[x] = m[x]
  <2>1. x # a
    <3>1. CASE t = o
      <4>1. x \in Int /\ a \in Int /\ x > e
        BY SMT, <1>2, <3>1, Geometry
      <4> QED BY SMT, <4>1
    <3>2. CASE t # o
      BY Zenon, <3>2, StacksApart
    <3> QED BY Zenon, <3>1, <3>2
  <2>2. x \in Addresses
    BY Zenon, StackAddresses
  <2> QED BY Zenon, <1>1, <2>1, <2>2
<1>3. ASSUME NEW w \in Words PROVE n[w] = m[w] /\ n[w + 1] = m[w + 1]
  <2>1. w \in Addresses /\ w + 1 \in Addresses /\ w # a /\ w + 1 # a
    BY Zenon, WordAddresses, Disjoint
  <2> QED BY Zenon, <1>1, <2>1
<1> HIDE DEF n
<1>4. StacksKept(m, n, o, e) /\ WordsKept(m, n)
  BY Zenon, <1>2, <1>3 DEF StacksKept, WordsKept, WordKept
<1> QED BY Zenon, <1>4 DEF n

LEMMA PortStore ==
    ASSUME NEW m \in Memory, NEW a \in Ports, NEW v
    PROVE  /\ \A o, e : StacksKept(m, [m EXCEPT ![a] = v], o, e)
           /\ WordsKept(m, [m EXCEPT ![a] = v])
<1> DEFINE n == [m EXCEPT ![a] = v]
<1>1. \A x \in Addresses : x # a => n[x] = m[x]
  BY Zenon DEF Memory
<1>2. ASSUME NEW t \in Owners, NEW x \in Stack(t) PROVE n[x] = m[x]
  BY Zenon, <1>1, StackAddresses, Disjoint
<1>3. ASSUME NEW w \in Words PROVE n[w] = m[w] /\ n[w + 1] = m[w + 1]
  BY Zenon, <1>1, WordAddresses, Disjoint
<1> HIDE DEF n
<1>4. WordsKept(m, n) /\ \A o, e : StacksKept(m, n, o, e)
  BY Zenon, <1>2, <1>3 DEF StacksKept, WordsKept, WordKept
<1> QED BY Zenon, <1>4 DEF n

LEMMA WordStore ==
    ASSUME NEW m \in Memory, NEW u \in Words, NEW a, a = u \/ a = u + 1, NEW v
    PROVE  /\ \A o, e : StacksKept(m, [m EXCEPT ![a] = v], o, e)
           /\ \A w \in Words \ {u} : WordKept(m, [m EXCEPT ![a] = v], w)
<1> DEFINE n == [m EXCEPT ![a] = v]
<1>1. \A x \in Addresses : x # a => n[x] = m[x]
  BY Zenon DEF Memory
<1>2. ASSUME NEW t \in Owners, NEW x \in Stack(t) PROVE n[x] = m[x]
  <2>1. x # a /\ x \in Addresses
    BY Zenon, StackAddresses, Disjoint
  <2> QED BY Zenon, <1>1, <2>1
<1>3. ASSUME NEW w \in Words \ {u} PROVE n[w] = m[w] /\ n[w + 1] = m[w + 1]
  <2>1. w \in Words /\ w # u
    OBVIOUS
  <2>2. w # a /\ w + 1 # a
    <3>1. w # u + 1 /\ w + 1 # u /\ w + 1 # u + 1
      BY Zenon, <2>1, Disjoint
    <3> QED BY Zenon, <2>1, <3>1
  <2>3. w \in Addresses /\ w + 1 \in Addresses
    BY Zenon, <2>1, WordAddresses
  <2> QED BY Zenon, <1>1, <2>2, <2>3
<1> HIDE DEF n
<1>4. (\A w \in Words \ {u} : WordKept(m, n, w)) /\ \A o, e : StacksKept(m, n, o, e)
  BY Zenon, <1>2, <1>3 DEF StacksKept, WordKept
<1> QED BY Zenon, <1>4 DEF n

\* Keeping is transitive.
LEMMA SameKept == \A m : WordsKept(m, m) /\ \A o, e : StacksKept(m, m, o, e)
BY Zenon DEF StacksKept, WordsKept, WordKept

LEMMA KeptTwice ==
    ASSUME NEW m, NEW n, NEW q, NEW o, NEW e, StacksKept(m, n, o, e), StacksKept(n, q, o, e)
    PROVE  StacksKept(m, q, o, e)
BY Zenon DEF StacksKept

LEMMA WordsTwice ==
    ASSUME NEW m, NEW n, NEW q, WordsKept(m, n), WordsKept(n, q)
    PROVE  WordsKept(m, q)
BY Zenon DEF WordsKept, WordKept

LEMMA WordInKept == \A m, n, w : WordKept(m, n, w) => WordIn(n, w) = WordIn(m, w)
BY Zenon DEF WordKept, WordIn

\* A return address pushed on o's stack.
LEMMA PcStore ==
    ASSUME NEW m \in Memory, NEW o \in Owners, NEW p \in PcRange, SP \in Stack(o), SP - 2 \in Stack(o)
    PROVE  /\ StacksKept(m, WithPc(m, p), o, SP) /\ WordsKept(m, WithPc(m, p))
           /\ WithPc(m, p) \in Memory /\ PcIn(WithPc(m, p), SP - 3) = p
<1>0. SP \in Int /\ SP - 1 \in Stack(o) /\ Top(o) \in Int
  BY SMT, Geometry
<1> DEFINE f == [m EXCEPT ![SP] = Low(p)]
           g == [f EXCEPT ![SP - 1] = Middle(p)]
           n == [g EXCEPT ![SP - 2] = High(p)]
<1>1. Low(p) \in Byte /\ Middle(p) \in Byte /\ High(p) \in Byte
  BY Zenon, PcBytes
<1>2. SP =< SP /\ SP - 1 =< SP /\ SP - 2 =< SP /\ SP - 1 # SP /\ SP - 2 # SP /\ SP - 2 # SP - 1
  BY SMT, <1>0
<1>3. f \in Memory /\ StacksKept(m, f, o, SP) /\ WordsKept(m, f)
  BY Zenon, <1>0, <1>1, <1>2, StoredType, StackStore
<1>3a. f[SP] = Low(p)
  BY Zenon, StackAddresses DEF Memory
<1> HIDE DEF f
<1>4. g \in Memory /\ StacksKept(f, g, o, SP) /\ WordsKept(f, g)
  BY Zenon, <1>0, <1>1, <1>2, <1>3, StoredType, StackStore
<1>4a. g[SP] = Low(p) /\ g[SP - 1] = Middle(p)
  BY Zenon, <1>0, <1>2, <1>3, <1>3a, StackAddresses DEF Memory
<1> HIDE DEF g
<1>5. n \in Memory /\ StacksKept(g, n, o, SP) /\ WordsKept(g, n)
  BY Zenon, <1>0, <1>1, <1>2, <1>4, StoredType, StackStore
<1>5a. n[SP] = Low(p) /\ n[SP - 1] = Middle(p) /\ n[SP - 2] = High(p)
  BY Zenon, <1>0, <1>2, <1>4, <1>4a, StackAddresses DEF Memory
<1> HIDE DEF n
<1>6. StacksKept(m, n, o, SP) /\ WordsKept(m, n)
  BY Zenon, <1>3, <1>4, <1>5, KeptTwice, WordsTwice
<1>7. SP - 3 + 3 = SP /\ SP - 3 + 2 = SP - 1 /\ SP - 3 + 1 = SP - 2
  BY SMT, <1>0
<1>8. PcIn(n, SP - 3) = p
  BY Zenon, <1>5a, <1>7, PcBytes DEF PcIn
<1>9. WithPc(m, p) = n
  BY Zenon, WithPcIs DEF n, g, f
<1> QED BY Zenon, <1>5, <1>6, <1>8, <1>9

-----------------------------------------------------------------------------
(* The worlds: the contexts that are saved, and the kernel's words *)

\* The places that return addresses and contexts name.
SpawnJmp == SpawnAt + 20
StartJmp == StartAt + 18
SpawnSave == SpawnAt + 22
StartSave == StartAt + 20
YieldSave == YieldAt + 1

\* On t's stack, a return address into its code; or into the kernel, with that one above it.
RetDirect(m, t, sp) ==
    /\ sp + 3 \in (Top(t) - MaxDepth)..Top(t)
    /\ PcIn(m, sp) \in TaskCode(t)
EntryOf(t) == {YieldAt} \cup (IF t = Idle THEN {SpawnAt, SpawnJmp} ELSE {})
RetNested(m, t, sp) == PcIn(m, sp) \in EntryOf(t) /\ RetDirect(m, t, sp + 3)
RetScheduler(m, sp) ==
    \/ PcIn(m, sp) = StartJmp /\ sp = Top(Scheduler) - 3
    \/ PcIn(m, sp) = StartAt + 77 /\ sp \in {Top(Scheduler) - 3, Top(Scheduler) - 39}
RetPoint(m, o, sp) ==
    IF o = Scheduler THEN RetScheduler(m, sp) ELSE RetDirect(m, o, sp) \/ RetNested(m, o, sp)

\* What lies above o's context at sp, and what SAVE_CONTEXT has pushed.
HoldsAbove(m, l, o, sp) ==
    /\ sp \in DOMAIN l
    /\ l[sp].R \in RegisterTypes
    /\ l[sp].sreg \in Byte
    /\ o # Scheduler => l[sp].sreg < 128
    /\ l[sp].sp = sp + context
    /\ l[sp].pc = PcIn(m, sp + register_bytes)
    /\ \A a \in DOMAIN l[sp].stack : a \in Stack(o) /\ a > sp + context /\ m[a] = l[sp].stack[a]
\* The registers are on the stack as they were to be preserved.
HoldsRegisters(m, l, sp) ==
    /\ \A k \in 1..31 : m[sp + 32 - k] = l[sp].R[k]
    /\ m[sp + 32] = l[sp].sreg
    /\ m[sp + 33] = l[sp].R[0]
\* A whole context of o at sp.
Frame(m, l, o, sp) ==
    /\ sp \in Contexts(o)
    /\ RetPoint(m, o, sp + register_bytes)
    /\ HoldsAbove(m, l, o, sp)
    /\ HoldsRegisters(m, l, sp)

\* The contexts of the tasks but o; that of the scheduler, once it has started.
Frames(m, l, s, o) == \A t \in Tasks \ {o} : s[t] # 0 => Frame(m, l, t, s[t])
Started(m, l) == WordIn(m, scheduler_task_sp) = scheduler_sp /\ Frame(m, l, Scheduler, scheduler_sp)
NotStarted(m, s) == WordIn(m, scheduler_task_sp) = 0 /\ \A t \in Tasks : s[t] = 0

\* While a task runs; and before there is a scheduler.
TaskWorld(m, l, s, t) == t \in Tasks /\ Frames(m, l, s, t) /\ Started(m, l) /\ WordIn(m, next_task_sp) = 0
FirstWorld(m, s, t) == t = Idle /\ NotStarted(m, s)
\* In spawn_task; in start_scheduler; in a pass of the scheduler, its stack pointer at sp; once it has chosen.
SpawnWorld(m, l, s, a) ==
    \/ a = Worker /\ TaskWorld(m, l, s, Idle)
    \/ a = Scheduler /\ FirstWorld(m, s, Idle)
BootWorld(m, l, s, a) == a = Scheduler /\ Frames(m, l, s, Scheduler)
PassWorld(m, l, s, a, sp) ==
    /\ WordIn(m, scheduler_task_sp) = scheduler_sp
    /\ \/ a = Scheduler /\ sp = scheduler_sp /\ Frame(m, l, Scheduler, scheduler_sp) /\ Frames(m, l, s, Scheduler)
       \/ a \in Tasks /\ sp = Top(Scheduler) /\ Frame(m, l, a, WordIn(m, prev_task_sp)) /\ Frames(m, l, s, a)
ChosenWorld(m, l, s, a, sp) ==
    /\ WordIn(m, scheduler_task_sp) = scheduler_sp
    /\ a \in Tasks /\ s[a] # 0 /\ WordIn(m, next_task_sp) = s[a]
    /\ Frames(m, l, s, Scheduler)
    /\ sp \in {scheduler_sp, Top(Scheduler)}
    /\ sp = scheduler_sp => Frame(m, l, Scheduler, scheduler_sp)
\* a context at sp that can be restored, and the world it goes on in
ResumeWorld(m, l, s, a, o, sp) ==
    /\ WordIn(m, scheduler_task_sp) = scheduler_sp
    /\ a \in Tasks
    /\ Frames(m, l, s, a)
    /\ \/ o = a /\ Frame(m, l, Scheduler, scheduler_sp)
       \/ o = Scheduler /\ sp = scheduler_sp /\ Frame(m, l, a, WordIn(m, prev_task_sp))

\* From m to n, o's stack keeps what it holds above e.
StackKept(m, n, o, e) == \A a \in Stack(o) : a > e => n[a] = m[a]

\* What is kept above e is kept of each part of a context.
LEMMA OneKept ==
    ASSUME NEW m, NEW n, NEW p \in Owners, NEW e \in Int, StacksKept(m, n, p, e),
           NEW o \in Owners, NEW d \in Int, p = o => e =< d
    PROVE  StackKept(m, n, o, d)
<1> SUFFICES ASSUME NEW a \in Stack(o), a > d PROVE n[a] = m[a]
  BY Zenon DEF StackKept
<1>1. a \in Int
  BY SMT, Geometry
<1>2. o = p => a > e
  BY SMT, <1>1
<1> QED BY Zenon, <1>2 DEF StacksKept

\* Contexts lie within stacks.
LEMMA ContextBounds ==
    \A o \in Owners : \A sp \in Contexts(o) :
        /\ sp \in Int /\ sp + 33 \in Int /\ Top(o) \in Int
        /\ sp + 33 + 3 =< Top(o) /\ sp >= Top(o) - 81 /\ sp + 33 >= Top(o) - 81
<1> SUFFICES ASSUME NEW o \in Owners, NEW sp \in Contexts(o)
             PROVE  /\ sp \in Int /\ sp + 33 \in Int /\ Top(o) \in Int
                    /\ sp + 33 + 3 =< Top(o) /\ sp >= Top(o) - 81 /\ sp + 33 >= Top(o) - 81
  BY Zenon
<1>1. Top(o) \in Int
  BY Zenon, Geometry
<1>2. sp \in (Top(o) - 79)..(Top(o) - 36)
  BY Zenon DEF Contexts, context
<1> QED BY SMT, <1>1, <1>2

LEMMA ContextIn ==
    \A o \in Owners : \A sp \in Contexts(o) : sp \in Stack(o) /\ \A k \in 0..36 : sp + k \in Stack(o)
<1> SUFFICES ASSUME NEW o \in Owners, NEW sp \in Contexts(o)
             PROVE  sp \in Stack(o) /\ \A k \in 0..36 : sp + k \in Stack(o)
  OBVIOUS
<1>1. Top(o) \in Int /\ Stack(o) = (Top(o) - 80)..Top(o)
  BY Zenon, Geometry
<1>2. sp \in (Top(o) - 79)..(Top(o) - 36)
  BY Zenon DEF Contexts, context
<1>3. sp \in (Top(o) - 80)..Top(o)
  BY SMT, <1>1, <1>2
<1>4. ASSUME NEW k \in 0..36 PROVE sp + k \in (Top(o) - 80)..Top(o)
  BY SMT, <1>1, <1>2
<1> QED BY Zenon, <1>1, <1>3, <1>4

LEMMA PcKept ==
    ASSUME NEW o \in Owners, NEW m, NEW n, NEW e \in Int, StackKept(m, n, o, e),
           NEW sp \in Int, e =< sp, sp >= Top(o) - 81, sp + 3 =< Top(o)
    PROVE  PcIn(n, sp) = PcIn(m, sp)
<1>1. Top(o) \in Int /\ Stack(o) = (Top(o) - 80)..Top(o)
  BY Zenon, Geometry
<1>2. /\ sp + 1 \in Stack(o) /\ sp + 2 \in Stack(o) /\ sp + 3 \in Stack(o)
      /\ sp + 1 > e /\ sp + 2 > e /\ sp + 3 > e
  BY SMT, <1>1
<1>3. n[sp + 1] = m[sp + 1] /\ n[sp + 2] = m[sp + 2] /\ n[sp + 3] = m[sp + 3]
  BY Zenon, <1>2 DEF StackKept
<1> QED BY Zenon, <1>3 DEF PcIn

\* Each part of a context survives a step that keeps the stack above.
LEMMA RetDirectKept ==
    ASSUME NEW o \in Owners, NEW m, NEW n, NEW e \in Int, StackKept(m, n, o, e),
           NEW sp \in Int, e =< sp, RetDirect(m, o, sp)
    PROVE  RetDirect(n, o, sp)
<1>1. Top(o) \in Int
  BY Zenon, Geometry
<1>2. sp + 3 \in (Top(o) - 40)..Top(o)
  BY Zenon DEF RetDirect, MaxDepth
<1>3. sp >= Top(o) - 81 /\ sp + 3 =< Top(o)
  BY SMT, <1>1, <1>2
<1>4. PcIn(n, sp) = PcIn(m, sp)
  BY SMT, <1>3, PcKept
<1> QED BY Zenon, <1>4 DEF RetDirect

LEMMA RetPointKept ==
    ASSUME NEW o \in Owners, NEW m, NEW n, NEW e \in Int, StackKept(m, n, o, e),
           NEW sp \in Int, e =< sp, sp >= Top(o) - 81, RetPoint(m, o, sp)
    PROVE  RetPoint(n, o, sp)
<1>1. Top(o) \in Int /\ sp + 3 \in Int /\ e =< sp + 3 /\ Scheduler \in Owners
  BY SMT, Geometry DEF Owners
<1>2. CASE o = Scheduler
  <2>1. RetScheduler(m, sp)
    BY Zenon, <1>2 DEF RetPoint
  <2>2. sp + 3 =< Top(o)
    BY SMT, <1>1, <1>2, <2>1 DEF RetScheduler
  <2>3. PcIn(n, sp) = PcIn(m, sp)
    BY SMT, <2>2, PcKept
  <2> QED BY Zenon, <1>2, <2>1, <2>3 DEF RetPoint, RetScheduler
<1>3. CASE o # Scheduler /\ RetDirect(m, o, sp)
  BY Zenon, <1>3, RetDirectKept DEF RetPoint
<1>4. CASE o # Scheduler /\ RetNested(m, o, sp)
  <2>0. RetDirect(m, o, sp + 3)
    BY Zenon, <1>4 DEF RetNested
  <2>1. RetDirect(n, o, sp + 3) /\ sp + 3 + 3 \in (Top(o) - 40)..Top(o)
    BY Zenon, <1>1, <2>0, RetDirectKept DEF RetDirect, MaxDepth
  <2>2. sp + 3 =< Top(o)
    BY SMT, <1>1, <2>1
  <2>3. PcIn(n, sp) = PcIn(m, sp)
    BY SMT, <2>2, PcKept
  <2> QED BY Zenon, <1>4, <2>1, <2>3 DEF RetPoint, RetNested
<1> QED BY Zenon, <1>2, <1>3, <1>4 DEF RetPoint

LEMMA HoldsAboveKept ==
    ASSUME NEW o \in Owners, NEW m, NEW n, NEW l, NEW k, NEW e \in Int, StackKept(m, n, o, e),
           NEW sp \in Contexts(o), e =< sp + 33,
           sp \in DOMAIN k, k[sp] = l[sp], HoldsAbove(m, l, o, sp)
    PROVE  HoldsAbove(n, k, o, sp)
<1>1. PcIn(n, sp + 33) = PcIn(m, sp + 33)
  <2>1. sp + 33 \in Int /\ sp + 33 + 3 =< Top(o) /\ sp + 33 >= Top(o) - 81
    BY Zenon, ContextBounds
  <2> DEFINE r == sp + 33
  <2>2. r \in Int /\ e =< r /\ r >= Top(o) - 81 /\ r + 3 =< Top(o)
    BY Zenon, <2>1
  <2> HIDE DEF r
  <2>3. PcIn(n, r) = PcIn(m, r)
    BY SMT, <2>2, PcKept
  <2> QED BY Zenon, <2>3 DEF r
<1>2. ASSUME NEW a \in Stack(o), a > sp + 36 PROVE n[a] = m[a]
  <2>1. a > e
    <3>1. a \in Int /\ sp \in Int
      BY SMT, Geometry, ContextBounds
    <3> QED BY SMT, <1>2, <3>1
  <2> QED BY Zenon, <2>1 DEF StackKept
<1> QED BY Zenon, <1>1, <1>2 DEF HoldsAbove, register_bytes, context

LEMMA HoldsRegistersKept ==
    ASSUME NEW o \in Owners, NEW m, NEW n, NEW l, NEW k, NEW e \in Int, StackKept(m, n, o, e),
           NEW sp \in Contexts(o), e =< sp, k[sp] = l[sp], HoldsRegisters(m, l, sp)
    PROVE  HoldsRegisters(n, k, sp)
<1>1. sp \in Int /\ \A i \in 0..36 : sp + i \in Stack(o)
  BY Zenon, ContextIn, ContextBounds
<1>2. ASSUME NEW i \in 1..33 PROVE n[sp + i] = m[sp + i]
  <2>1. i \in 0..36 /\ sp + i > e
    BY SMT, <1>1, <1>2
  <2> QED BY Zenon, <1>1, <2>1 DEF StackKept
<1>3. ASSUME NEW i \in 1..31 PROVE n[sp + 32 - i] = m[sp + 32 - i]
  <2>1. 32 - i \in 1..33 /\ sp + (32 - i) = sp + 32 - i
    BY SMT, <1>1, <1>3
  <2> QED BY Zenon, <1>2, <2>1
<1>4. 32 \in 1..33 /\ 33 \in 1..33
  OBVIOUS
<1> QED BY Zenon, <1>2, <1>3, <1>4 DEF HoldsRegisters

LEMMA FrameKept ==
    ASSUME NEW o \in Owners, NEW m, NEW n, NEW l, NEW k, NEW e \in Int, StackKept(m, n, o, e),
           NEW sp, e =< sp, sp \in DOMAIN k, k[sp] = l[sp], Frame(m, l, o, sp)
    PROVE  Frame(n, k, o, sp)
<1>1. sp \in Contexts(o)
  BY Zenon DEF Frame
<1>2. e =< sp + 33 /\ sp + 33 \in Int /\ sp + 33 >= Top(o) - 81
  BY SMT, <1>1, ContextBounds
<1> QED BY Zenon, <1>1, <1>2, RetPointKept, HoldsAboveKept, HoldsRegistersKept DEF Frame, register_bytes

-----------------------------------------------------------------------------
(* What a step leaves of the worlds *)

\* From l to k, the contexts saved on o's stack above e are kept, and those of the others.
LeftKept(l, k, o, e) == \A a \in DOMAIN l : (Owner(a) = o => a > e) => a \in DOMAIN k /\ k[a] = l[a]
\* From m and l to n and k, o's stack is kept above e.
Kept(m, n, l, k, o, e) == StacksKept(m, n, o, e) /\ (l = k \/ LeftKept(l, k, o, e))

\* Tasks and the scheduler.
LEMMA TasksAre == \A t \in Tasks : t \in Owners /\ t # Scheduler /\ Scheduler \in Owners
BY SMT DEF Tasks, Owners, Idle, Scheduler, Worker

LEMMA SameInt == \A e \in Int : e =< e
OBVIOUS

\* A context survives a step on another stack, or below it.
LEMMA FrameKeptBy ==
    ASSUME NEW m, NEW n, NEW l, NEW k, NEW p \in Owners, NEW e \in Int, Kept(m, n, l, k, p, e),
           NEW o \in Owners, NEW sp, Frame(m, l, o, sp), p = o => (e =< sp /\ (l = k \/ e < sp))
    PROVE  Frame(n, k, o, sp)
<1>1. sp \in Contexts(o) /\ sp \in DOMAIN l
  BY Zenon DEF Frame, HoldsAbove
<1>2. sp \in Int /\ Top(o) \in Int /\ sp \in (Top(o) - 200)..Top(o)
  <2>1. sp \in Int /\ sp + 33 + 3 =< Top(o) /\ sp >= Top(o) - 81 /\ Top(o) \in Int
    BY Zenon, <1>1, ContextBounds
  <2> QED BY SMT, <2>1
<1>3. Owner(sp) = o
  BY Zenon, <1>2, OwnerIs
<1>4. sp \in DOMAIN k /\ k[sp] = l[sp]
  <2>1. CASE l = k
    BY Zenon, <1>1, <2>1
  <2>2. CASE l # k
    <3>1. o = p => sp > e
      BY SMT, <1>2, <2>2
    <3> QED BY Zenon, <1>1, <1>3, <2>2, <3>1 DEF Kept, LeftKept
  <2> QED BY Zenon, <2>1, <2>2
<1>5. CASE p = o
  <2>1. StackKept(m, n, o, e)
    BY Zenon, <1>5, OneKept, SameInt DEF Kept
  <2> QED BY Zenon, <1>4, <1>5, <2>1, FrameKept
<1>6. CASE p # o
  <2>1. StackKept(m, n, o, sp) /\ sp =< sp
    <3>1. sp =< sp
      BY SMT, <1>2
    <3> QED BY Zenon, <1>2, <1>6, <3>1, OneKept DEF Kept
  <2> QED BY Zenon, <1>2, <1>4, <2>1, FrameKept
<1> QED BY Zenon, <1>5, <1>6

LEMMA FramesKept ==
    ASSUME NEW m, NEW n, NEW l, NEW k, NEW o \in Owners, NEW e \in Int, Kept(m, n, l, k, o, e),
           NEW s, NEW x, Frames(m, l, s, x), o = x \/ o = Scheduler
    PROVE  Frames(n, k, s, x)
<1> SUFFICES ASSUME NEW t \in Tasks \ {x}, s[t] # 0 PROVE Frame(n, k, t, s[t])
  BY Zenon DEF Frames
<1>1. Frame(m, l, t, s[t])
  BY Zenon DEF Frames
<1>2. t \in Owners /\ t # Scheduler /\ o # t
  BY Zenon, TasksAre
<1> QED BY Zenon, <1>1, <1>2, FrameKeptBy

\* The scheduler's context is kept by what touches another stack, or its own below it.
Below(o, e, l, k) == o = Scheduler => (e =< scheduler_sp /\ (l = k \/ e < scheduler_sp))

LEMMA SchedulerKept ==
    ASSUME NEW m, NEW n, NEW l, NEW k, NEW o \in Owners, NEW e \in Int, Kept(m, n, l, k, o, e),
           Frame(m, l, Scheduler, scheduler_sp), Below(o, e, l, k)
    PROVE  Frame(n, k, Scheduler, scheduler_sp)
<1>1. Scheduler \in Owners
  BY Zenon DEF Owners
<1> QED BY Zenon, <1>1, FrameKeptBy DEF Below

\* And so does each world.
LEMMA TaskWorldKept ==
    ASSUME NEW m, NEW n, NEW l, NEW k, NEW o \in Owners, NEW e \in Int, Kept(m, n, l, k, o, e),
           WordKept(m, n, scheduler_task_sp), WordKept(m, n, next_task_sp),
           NEW s, NEW t, TaskWorld(m, l, s, t), o = t
    PROVE  TaskWorld(n, k, s, t)
<1>1. WordIn(n, scheduler_task_sp) = WordIn(m, scheduler_task_sp) /\ WordIn(n, next_task_sp) = WordIn(m, next_task_sp)
  BY Zenon, WordInKept
<1>2. o # Scheduler
  BY Zenon, TasksAre DEF TaskWorld
<1>3. Frame(n, k, Scheduler, scheduler_sp)
  BY Zenon, <1>2, SchedulerKept DEF TaskWorld, Started, Below
<1>4. Frames(n, k, s, t)
  BY Zenon, FramesKept DEF TaskWorld
<1> QED BY Zenon, <1>1, <1>3, <1>4 DEF TaskWorld, Started

LEMMA FirstWorldKept ==
    ASSUME NEW m, NEW n, WordKept(m, n, scheduler_task_sp), NEW s, NEW t, FirstWorld(m, s, t)
    PROVE  FirstWorld(n, s, t)
<1>1. WordIn(n, scheduler_task_sp) = WordIn(m, scheduler_task_sp)
  BY Zenon, WordInKept
<1> QED BY Zenon, <1>1 DEF FirstWorld, NotStarted

LEMMA SpawnWorldKept ==
    ASSUME NEW m, NEW n, NEW l, NEW k, NEW e \in Int, Kept(m, n, l, k, Idle, e),
           WordKept(m, n, scheduler_task_sp), WordKept(m, n, next_task_sp),
           NEW s, NEW a, SpawnWorld(m, l, s, a)
    PROVE  SpawnWorld(n, k, s, a)
<1>1. Idle \in Owners
  BY Zenon DEF Owners
<1> QED BY Zenon, <1>1, TaskWorldKept, FirstWorldKept DEF SpawnWorld

LEMMA BootWorldKept ==
    ASSUME NEW m, NEW n, NEW l, NEW k, NEW e \in Int, Kept(m, n, l, k, Scheduler, e),
           NEW s, NEW a, BootWorld(m, l, s, a)
    PROVE  BootWorld(n, k, s, a)
<1>1. Scheduler \in Owners
  BY Zenon DEF Owners
<1> QED BY Zenon, <1>1, FramesKept DEF BootWorld

LEMMA PassWorldKept ==
    ASSUME NEW m, NEW n, NEW l, NEW e \in Int, StacksKept(m, n, Scheduler, e),
           WordKept(m, n, scheduler_task_sp), WordKept(m, n, prev_task_sp),
           NEW s, NEW a, NEW sp, e =< sp, PassWorld(m, l, s, a, sp)
    PROVE  PassWorld(n, l, s, a, sp)
<1>1. Scheduler \in Owners /\ Kept(m, n, l, l, Scheduler, e)
  BY Zenon DEF Owners, Kept
<1>2. WordIn(n, scheduler_task_sp) = WordIn(m, scheduler_task_sp) /\ WordIn(n, prev_task_sp) = WordIn(m, prev_task_sp)
  BY Zenon, WordInKept
<1>3. CASE a = Scheduler /\ sp = scheduler_sp /\ Frame(m, l, Scheduler, scheduler_sp) /\ Frames(m, l, s, Scheduler)
  <2>1. Frame(n, l, Scheduler, scheduler_sp)
    BY Zenon, <1>1, <1>3, SchedulerKept DEF Below
  <2>2. Frames(n, l, s, Scheduler)
    BY Zenon, <1>1, <1>3, FramesKept
  <2> QED BY Zenon, <1>2, <1>3, <2>1, <2>2 DEF PassWorld
<1>4. CASE a \in Tasks /\ sp = Top(Scheduler) /\ Frame(m, l, a, WordIn(m, prev_task_sp)) /\ Frames(m, l, s, a)
  <2>1. a \in Owners /\ a # Scheduler
    BY Zenon, <1>4, TasksAre
  <2>2. Frame(n, l, a, WordIn(m, prev_task_sp))
    BY Zenon, <1>1, <1>4, <2>1, FrameKeptBy
  <2>3. Frames(n, l, s, a)
    BY Zenon, <1>1, <1>4, FramesKept
  <2> QED BY Zenon, <1>2, <1>4, <2>2, <2>3 DEF PassWorld
<1> QED BY Zenon, <1>3, <1>4 DEF PassWorld

LEMMA ChosenWorldKept ==
    ASSUME NEW m, NEW n, NEW l, NEW k, NEW e \in Int, Kept(m, n, l, k, Scheduler, e),
           WordKept(m, n, scheduler_task_sp), WordKept(m, n, next_task_sp),
           NEW s, NEW a, NEW sp, sp = scheduler_sp => (e =< sp /\ (l = k \/ e < sp)),
           ChosenWorld(m, l, s, a, sp)
    PROVE  ChosenWorld(n, k, s, a, sp)
<1>1. Scheduler \in Owners
  BY Zenon DEF Owners
<1>2. WordIn(n, scheduler_task_sp) = WordIn(m, scheduler_task_sp) /\ WordIn(n, next_task_sp) = WordIn(m, next_task_sp)
  BY Zenon, WordInKept
<1>3. Frames(n, k, s, Scheduler)
  BY Zenon, <1>1, FramesKept DEF ChosenWorld
<1>4. sp = scheduler_sp => Frame(n, k, Scheduler, scheduler_sp)
  BY Zenon, <1>1, SchedulerKept DEF ChosenWorld, Below
<1> QED BY Zenon, <1>2, <1>3, <1>4 DEF ChosenWorld

LEMMA ResumeWorldKept ==
    ASSUME NEW m, NEW n, NEW l, NEW o \in Owners, NEW e \in Int, StacksKept(m, n, o, e),
           WordKept(m, n, scheduler_task_sp), WordKept(m, n, prev_task_sp),
           NEW s, NEW a, NEW sp, ResumeWorld(m, l, s, a, o, sp)
    PROVE  ResumeWorld(n, l, s, a, o, sp)
<1>1. Kept(m, n, l, l, o, e)
  BY Zenon DEF Kept
<1>2. WordIn(n, scheduler_task_sp) = WordIn(m, scheduler_task_sp) /\ WordIn(n, prev_task_sp) = WordIn(m, prev_task_sp)
  BY Zenon, WordInKept
<1>0. a \in Owners /\ a # Scheduler /\ Scheduler \in Owners
  BY Zenon, TasksAre DEF ResumeWorld
<1>3. Frames(n, l, s, a)
  BY Zenon, <1>1, FramesKept DEF ResumeWorld
<1>4. CASE o = a /\ Frame(m, l, Scheduler, scheduler_sp)
  <2>1. Frame(n, l, Scheduler, scheduler_sp)
    BY Zenon, <1>0, <1>1, <1>4, SchedulerKept DEF Below
  <2> QED BY Zenon, <1>2, <1>3, <1>4, <2>1 DEF ResumeWorld
<1>5. CASE o = Scheduler /\ sp = scheduler_sp /\ Frame(m, l, a, WordIn(m, prev_task_sp))
  <2>1. Frame(n, l, a, WordIn(m, prev_task_sp))
    BY Zenon, <1>0, <1>1, <1>5, FrameKeptBy
  <2> QED BY Zenon, <1>2, <1>3, <1>5, <2>1 DEF ResumeWorld
<1> QED BY Zenon, <1>4, <1>5 DEF ResumeWorld

-----------------------------------------------------------------------------
(* Registers, flags, and the steps that change the timer's interrupt mask *)

\* A register loaded, a byte stored.
LEMMA Loaded ==
    ASSUME NEW f \in RegisterTypes, NEW d \in 0..31, NEW v
    PROVE  [f EXCEPT ![d] = v][d] = v /\ \A k \in 0..31 : k # d => [f EXCEPT ![d] = v][k] = f[k]
BY Zenon DEF RegisterTypes

LEMMA Stored ==
    ASSUME NEW m \in Memory, NEW a \in Addresses, NEW v
    PROVE  [m EXCEPT ![a] = v][a] = v /\ \A x \in Addresses : x # a => [m EXCEPT ![a] = v][x] = m[x]
BY Zenon DEF Memory

\* The logic instructions leave the I flag.
LEMMA LogicFlagsKeep ==
    ASSUME sreg \in Byte, NEW r
    PROVE  /\ LogicFlags(r) % 2 = sreg % 2 /\ LogicFlags(r) \div 32 = sreg \div 32
           /\ LogicFlags(r) < 128 <=> sreg < 128
<1>0. sreg \in 0..255
  BY Zenon DEF Byte
<1>1. PICK x, y : x \in {0, 2} /\ y \in {0, 20} /\ LogicFlags(r) = (sreg \div 32) * 32 + (sreg % 2) + x + y
  BY DEF LogicFlags
<1>2. PICK c, d, e : c \in 0..7 /\ d \in 0..15 /\ e \in 0..1 /\ sreg = 32 * c + 2 * d + e
  <2>1. sreg = 32 * (sreg \div 32) + 2 * ((sreg % 32) \div 2) + (sreg % 2)
    BY SMT, <1>0
  <2>2. sreg \div 32 \in 0..7 /\ (sreg % 32) \div 2 \in 0..15 /\ sreg % 2 \in 0..1
    BY SMT, <1>0
  <2> QED BY Zenon, <2>1, <2>2
<1>3. sreg \div 32 = c /\ sreg % 2 = e
  BY SMT, <1>2
<1>4. LogicFlags(r) = c * 32 + e + x + y
  BY Zenon, <1>1, <1>3
<1>5. LogicFlags(r) % 2 = e /\ LogicFlags(r) \div 32 = c
  BY SMT, <1>1, <1>2, <1>4
<1>6. LogicFlags(r) < 128 <=> sreg < 128
  BY SMT, <1>1, <1>2, <1>4
<1> QED BY Zenon, <1>3, <1>5, <1>6

LEMMA SetBits == \A v \in Byte : Bit(WithBit(v, OCIE1A), OCIE1A) = 1
<1> SUFFICES ASSUME NEW v \in Byte PROVE Bit(WithBit(v, OCIE1A), OCIE1A) = 1
  OBVIOUS
<1>1. v \in 0..255
  BY Zenon DEF Byte
<1> QED BY SMT, <1>1 DEF Bit, WithBit, OCIE1A

\* Within SetMt at b, whose push lowers SP from sp.
SpInSetMt(b, sp) == SP = IF pc \in (b + 1)..(b + 4) THEN sp - 1 ELSE sp

\* What every instruction of SetMt at b keeps, o's stack pointer being at sp.
MtKept(o, sp) ==
    /\ StacksKept(mem, mem', o, sp) /\ WordsKept(mem, mem')
    /\ Others /\ left' = left
    /\ \A k \in 0..31 : k # 16 => R'[k] = R[k]
    /\ sreg' % 2 = sreg % 2 /\ sreg' \div 32 = sreg \div 32
    /\ sreg' < 128 <=> sreg < 128

\* Step by step, SetMt changes the mask bit and nothing else but its scratch register.
LEMMA SetMtStep ==
    ASSUME TypeInv, Execute, NEW b \in Int, NEW op \in {"ori", "andi"}, Runs(b, SetMt(op)),
           NEW o \in Owners, NEW sp \in Stack(o), pc \in b..(b + 4), SpInSetMt(b, sp)
    PROVE  /\ pc' = pc + 1
           /\ SpInSetMt(b, sp)'
           /\ MtKept(o, sp)
           /\ pc = b => mem'[sp] = R[16]
           /\ pc \in (b + 1)..(b + 3) => mem'[sp] = mem[sp]
           /\ pc = b + 4 => R'[16] = mem[sp]
           /\ op = "ori" => /\ pc = b + 2 => Bit(R'[16], OCIE1A) = 1
                            /\ pc = b + 3 => Bit(mem'[TIMSK1], OCIE1A) = Bit(R[16], OCIE1A)
                            /\ pc = b + 4 => mem'[TIMSK1] = mem[TIMSK1]
<1>0. R \in RegisterTypes /\ mem \in Memory /\ sreg \in Byte /\ 16 \in 0..31
  BY DEF TypeInv, MachineType
<1>1. sp \in Int /\ sp \in Addresses
  BY SMT, Geometry, StackAddresses
<1>2. /\ At(b, <<"push", 16>>) /\ At(b + 1, <<"lds", 16, TIMSK1>>) /\ At(b + 2, <<op, 16>>)
      /\ At(b + 3, <<"sts", TIMSK1, 16>>) /\ At(b + 4, <<"pop", 16>>)
  BY Zenon, SetMtCode
<1>3. CASE pc = b
  <2>1. SP = sp
    BY SMT, <1>3 DEF SpInSetMt
  <2>2. ~SavesAt(pc)
    BY <1>2, <1>3 DEF SavesAt, At
  <2>3. /\ mem' = [mem EXCEPT ![sp] = R[16]]
        /\ SP' = sp - 1 /\ pc' = pc + 1 /\ R' = R /\ sreg' = sreg /\ Others /\ left' = left
    BY Zenon, <1>1, <1>2, <1>3, <2>1, <2>2, PushStep
  <2>4. StacksKept(mem, mem', o, sp) /\ WordsKept(mem, mem')
    BY Zenon, <1>0, <1>1, <2>3, StackStore, SameInt
  <2>5. mem'[sp] = R[16]
    BY SMT, <1>0, <1>1, <2>3, Stored
  <2>6. SpInSetMt(b, sp)'
    BY SMT, <1>3, <2>3 DEF SpInSetMt
  <2>7. MtKept(o, sp)
    BY Zenon, <2>3, <2>4 DEF MtKept
  <2>8. pc # b + 2 /\ pc # b + 3 /\ pc # b + 4 /\ pc \notin (b + 1)..(b + 3)
    BY SMT, <1>3
  <2> QED BY Zenon, <2>3, <2>5, <2>6, <2>7, <2>8
<1>4. CASE pc = b + 1
  <2>1. SP = sp - 1
    BY SMT, <1>4 DEF SpInSetMt
  <2>3. /\ R' = [R EXCEPT ![16] = mem[TIMSK1]]
        /\ SP' = SP /\ pc' = pc + 1 /\ mem' = mem /\ sreg' = sreg /\ Others /\ left' = left
    BY Zenon, <1>2, <1>4, LdsStep
  <2>4. \A k \in 0..31 : k # 16 => R'[k] = R[k]
    BY SMT, <1>0, <2>3, Loaded
  <2>6. SpInSetMt(b, sp)'
    BY SMT, <1>4, <2>1, <2>3 DEF SpInSetMt
  <2>7. MtKept(o, sp)
    BY Zenon, <2>3, <2>4, SameKept DEF MtKept
  <2>8. pc # b + 2 /\ pc # b + 3 /\ pc # b + 4 /\ pc # b
    BY SMT, <1>4
  <2> QED BY Zenon, <2>3, <2>6, <2>7, <2>8
<1>5. CASE pc = b + 2
  <2>1. SP = sp - 1
    BY SMT, <1>5 DEF SpInSetMt
  <2>2. R[16] \in Byte
    BY Zenon, <1>0 DEF RegisterTypes
  <2>3. \E v \in Byte : /\ R' = [R EXCEPT ![16] = v]
                        /\ sreg' = LogicFlags(v)
                        /\ op = "ori" => Bit(v, OCIE1A) = 1
    <3>1. CASE op = "ori"
      BY Zenon, <1>2, <1>5, <2>2, <3>1, OriStep, SetBits, BitBytes
    <3>2. CASE op = "andi"
      <4>1. op # "ori"
        BY <3>2
      <4> QED BY Zenon, <1>2, <1>5, <2>2, <3>2, <4>1, AndiStep, BitBytes
    <3> QED BY Zenon, <3>1, <3>2
  <2>3a. SP' = SP /\ pc' = pc + 1 /\ mem' = mem /\ Others /\ left' = left
    BY Zenon, <1>2, <1>5, OriStep, AndiStep
  <2>4. (\A k \in 0..31 : k # 16 => R'[k] = R[k]) /\ (op = "ori" => Bit(R'[16], OCIE1A) = 1)
    BY SMT, <1>0, <2>3, Loaded
  <2>5. sreg' % 2 = sreg % 2 /\ sreg' \div 32 = sreg \div 32 /\ (sreg' < 128 <=> sreg < 128)
    BY Zenon, <1>0, <2>3, LogicFlagsKeep
  <2>6. SpInSetMt(b, sp)'
    BY SMT, <1>5, <2>1, <2>3a DEF SpInSetMt
  <2>7. MtKept(o, sp)
    BY Zenon, <2>3a, <2>4, <2>5, SameKept DEF MtKept
  <2>8. pc # b /\ pc # b + 3 /\ pc # b + 4
    BY SMT, <1>5
  <2> QED BY Zenon, <2>3a, <2>4, <2>6, <2>7, <2>8
<1>6. CASE pc = b + 3
  <2>1. SP = sp - 1
    BY SMT, <1>6 DEF SpInSetMt
  <2>3. /\ mem' = [mem EXCEPT ![TIMSK1] = R[16]]
        /\ SP' = SP /\ pc' = pc + 1 /\ R' = R /\ sreg' = sreg /\ Others /\ left' = left
    BY Zenon, <1>2, <1>6, StsStep
  <2>4. StacksKept(mem, mem', o, sp) /\ WordsKept(mem, mem')
    BY Zenon, <1>0, <2>3, PortStore DEF Ports
  <2>5a. sp # TIMSK1
    BY Zenon, Disjoint DEF Ports
  <2>5. mem'[TIMSK1] = R[16] /\ mem'[sp] = mem[sp]
    BY SMT, <1>0, <1>1, <2>3, <2>5a, Stored, TimerAddresses
  <2>6. SpInSetMt(b, sp)'
    BY SMT, <1>6, <2>1, <2>3 DEF SpInSetMt
  <2>7. MtKept(o, sp)
    BY Zenon, <2>3, <2>4 DEF MtKept
  <2>8. pc # b /\ pc # b + 2 /\ pc # b + 4
    BY SMT, <1>6
  <2> QED BY Zenon, <2>3, <2>5, <2>6, <2>7, <2>8
<1>7. CASE pc = b + 4
  <2>1. SP = sp - 1 /\ SP + 1 = sp
    BY SMT, <1>1, <1>7 DEF SpInSetMt
  <2>3. /\ R' = [R EXCEPT ![16] = mem[sp]]
        /\ SP' = sp /\ pc' = pc + 1 /\ mem' = mem /\ sreg' = sreg /\ Others /\ left' = left
    BY Zenon, <1>1, <1>2, <1>7, <2>1, PopStep
  <2>4. R'[16] = mem[sp] /\ \A k \in 0..31 : k # 16 => R'[k] = R[k]
    BY SMT, <1>0, <2>3, Loaded
  <2>6. SpInSetMt(b, sp)'
    BY SMT, <1>7, <2>3 DEF SpInSetMt
  <2>7. MtKept(o, sp)
    BY Zenon, <2>3, <2>4, SameKept DEF MtKept
  <2>8. pc # b /\ pc # b + 2 /\ pc # b + 3 /\ pc \notin (b + 1)..(b + 3)
    BY SMT, <1>7
  <2> QED BY Zenon, <2>3, <2>4, <2>6, <2>7, <2>8
<1>8. pc = b \/ pc = b + 1 \/ pc = b + 2 \/ pc = b + 3 \/ pc = b + 4
  BY SMT
<1> QED BY Zenon, <1>3, <1>4, <1>5, <1>6, <1>7, <1>8

-----------------------------------------------------------------------------
(* Pointers *)

Pointers == {26, 30}

\* X and Z.
LEMMA PointersAre == \A p \in Pointers : p \in 0..31 /\ p + 1 \in 0..31 /\ p # p + 1 /\ p \in {26, 30}
BY SMT DEF Pointers

LEMMA KilobyteWord == \A w \in Kilobytes : lo8(w) + 256 * hi8(w) = w
<1> TAKE w \in Kilobytes
<1>1. w \in SpRange
  BY Zenon, SmallSp
<1>2. lo8(w) \in 0..255 /\ hi8(w) \in 0..255 /\ 256 * hi8(w) + lo8(w) = w
  BY Zenon, <1>1, SpBytes
<1>3. \A x, y \in 0..255 : x + 256 * y = 256 * y + x
  BY SMT
<1> QED BY Zenon, <1>2, <1>3

\* A pointer moves within reach.
LEMMA AfterAddress == \A a \in Addresses : a \in Kilobytes /\ a + 1 \in Kilobytes /\ a - 1 \in Kilobytes /\ a \in Int
<1> TAKE a \in Addresses
<1>1. a \in AddressRange
  BY Zenon, AddressBounds
<1> QED BY SMT, <1>1 DEF AddressRange, Kilobytes

\* p points to a in the registers r.
PointsTo(r, p, a) == r[p] + 256 * r[p + 1] = a

LEMMA MovedBy ==
    ASSUME R \in RegisterTypes, NEW p \in Pointers, NEW by, Pointer(p) + by \in Kilobytes
    PROVE  /\ PointsTo(Moved(R, p, by), p, Pointer(p) + by)
           /\ \A k \in 0..31 : k # p /\ k # p + 1 => Moved(R, p, by)[k] = R[k]
<1> DEFINE w == Pointer(p) + by
           g == [R EXCEPT ![p] = lo8(w), ![p + 1] = hi8(w)]
<1>1. lo8(w) + 256 * hi8(w) = w
  BY Zenon, KilobyteWord
<1>2. g[p] = lo8(w) /\ g[p + 1] = hi8(w) /\ \A k \in 0..31 : k # p /\ k # p + 1 => g[k] = R[k]
  <2>1. p \in 0..31 /\ p + 1 \in 0..31 /\ p # p + 1
    BY Zenon, PointersAre
  <2> HIDE DEF w
  <2> QED BY SMT, <2>1 DEF RegisterTypes
<1>3. Moved(R, p, by) = g
  BY Zenon DEF Moved
<1> HIDE DEF w, g
<1>4. PointsTo(g, p, w)
  BY Zenon, <1>1, <1>2 DEF PointsTo
<1> QED BY Zenon, <1>2, <1>3, <1>4 DEF w

\* ld: the byte is loaded and the pointer moves.
LEMMA LdTo ==
    ASSUME TypeInv, Execute, NEW d \in 0..31, NEW p \in Pointers, d # p, d # p + 1, NEW n \in {0, 1},
           At(pc, <<"ld", d, p, n>>), NEW a \in Addresses, Pointer(p) = a
    PROVE  /\ R'[d] = mem[a] /\ PointsTo(R', p, a + n)
           /\ \A k \in 0..31 : k # d /\ k # p /\ k # p + 1 => R'[k] = R[k]
           /\ pc' = pc + 1 /\ SP' = SP /\ mem' = mem /\ sreg' = sreg
           /\ Others /\ left' = left
<1>0. R \in RegisterTypes
  BY DEF TypeInv, MachineType
<1>1. a \in Int /\ a + (IF n < 0 THEN n ELSE 0) = a /\ a + n \in Kilobytes
  BY SMT, AfterAddress
<1>2. /\ R' = [Moved(R, p, n) EXCEPT ![d] = mem[a]]
      /\ pc' = pc + 1 /\ SP' = SP /\ mem' = mem /\ sreg' = sreg
      /\ Others /\ left' = left
  <2>1. Pointer(p) + (IF n < 0 THEN n ELSE 0) = a
    BY Zenon, <1>1
  <2> QED BY SMT, <2>1, LdStep
<1>3. PointsTo(Moved(R, p, n), p, a + n) /\ \A k \in 0..31 : k # p /\ k # p + 1 => Moved(R, p, n)[k] = R[k]
  BY Zenon, <1>0, <1>1, MovedBy
<1>4. Moved(R, p, n) \in RegisterTypes
  <2>1. Pointer(p) + (IF n < 0 THEN n ELSE 0) \in Addresses /\ n \in {-1, 0, 1} /\ p \in {26, 30}
    BY Zenon, <1>1, PointersAre
  <2> QED BY Zenon, <1>0, <2>1, MovedType
<1> DEFINE g == Moved(R, p, n)
<1> HIDE DEF g
<1>5. R'[d] = mem[a] /\ \A k \in 0..31 : k # d => R'[k] = g[k]
  <2>1. R' = [g EXCEPT ![d] = mem[a]] /\ g \in RegisterTypes
    BY Zenon, <1>2, <1>4 DEF g
  <2> QED BY SMT, <2>1 DEF RegisterTypes
<1>6. R'[p] = g[p] /\ R'[p + 1] = g[p + 1]
  BY Zenon, <1>5, PointersAre
<1> QED BY Zenon, <1>2, <1>3, <1>5, <1>6 DEF g, PointsTo

Wrote(a, v) == mem' = [mem EXCEPT ![a] = v]

\* st: the byte is written and the pointer moves.
LEMMA StTo ==
    ASSUME TypeInv, Execute, NEW d \in 0..31, NEW p \in Pointers, NEW n \in {0, 1},
           At(pc, <<"st", d, p, n>>), NEW a \in Addresses, Pointer(p) = a
    PROVE  /\ Wrote(a, R[d]) /\ PointsTo(R', p, a + n)
           /\ \A k \in 0..31 : k # p /\ k # p + 1 => R'[k] = R[k]
           /\ pc' = pc + 1 /\ SP' = SP /\ sreg' = sreg
           /\ Others /\ left' = left
<1>0. R \in RegisterTypes
  BY DEF TypeInv, MachineType
<1>1. a \in Int /\ a + (IF n < 0 THEN n ELSE 0) = a /\ a + n \in Kilobytes
  BY SMT, AfterAddress
<1>2. /\ R' = Moved(R, p, n) /\ mem' = [mem EXCEPT ![a] = R[d]]
      /\ pc' = pc + 1 /\ SP' = SP /\ sreg' = sreg
      /\ Others /\ left' = left
  BY Zenon, <1>1, StStep
<1>3. PointsTo(Moved(R, p, n), p, a + n) /\ \A k \in 0..31 : k # p /\ k # p + 1 => Moved(R, p, n)[k] = R[k]
  BY Zenon, <1>0, <1>1, MovedBy
<1>4. Wrote(a, R[d])
  BY Zenon, <1>2 DEF Wrote
<1> QED BY Zenon, <1>2, <1>3, <1>4

\* ldi of both halves of a pointer.
LEMMA LdiLow ==
    ASSUME TypeInv, Execute, NEW p \in 0..31, NEW v, At(pc, <<"ldi", p, v>>)
    PROVE  /\ R'[p] = v /\ \A k \in 0..31 : k # p => R'[k] = R[k]
           /\ pc' = pc + 1 /\ SP' = SP /\ mem' = mem /\ sreg' = sreg
           /\ Others /\ left' = left
<1>0. R \in RegisterTypes
  BY DEF TypeInv, MachineType
<1>1. /\ R' = [R EXCEPT ![p] = v]
      /\ pc' = pc + 1 /\ SP' = SP /\ mem' = mem /\ sreg' = sreg
      /\ Others /\ left' = left
  BY Zenon, LdiStep
<1>2. R'[p] = v /\ \A k \in 0..31 : k # p => R'[k] = R[k]
  BY SMT, <1>0, <1>1 DEF RegisterTypes
<1> QED BY Zenon, <1>1, <1>2

LEMMA LdiHigh ==
    ASSUME TypeInv, Execute, NEW p \in Pointers, NEW w \in Words, At(pc, <<"ldi", p + 1, hi8(w)>>), R[p] = lo8(w)
    PROVE  /\ PointsTo(R', p, w) /\ \A k \in 0..31 : k # p /\ k # p + 1 => R'[k] = R[k]
           /\ pc' = pc + 1 /\ SP' = SP /\ mem' = mem /\ sreg' = sreg
           /\ Others /\ left' = left
<1>1. p \in 0..31 /\ p + 1 \in 0..31 /\ p # p + 1
  BY Zenon, PointersAre
<1>2. /\ R'[p + 1] = hi8(w) /\ \A k \in 0..31 : k # p + 1 => R'[k] = R[k]
      /\ pc' = pc + 1 /\ SP' = SP /\ mem' = mem /\ sreg' = sreg
      /\ Others /\ left' = left
  BY Zenon, <1>1, LdiLow
<1>3. R'[p] = lo8(w)
  BY Zenon, <1>1, <1>2
<1>4. lo8(w) + 256 * hi8(w) = w
  BY Zenon, WordBytes
<1> QED BY Zenon, <1>2, <1>3, <1>4 DEF PointsTo

-----------------------------------------------------------------------------
(* SAVE_SP_TO_ADR, SET_SP, and the head of RESTORE_CONTEXT *)

\* Within SAVE_SP_TO_ADR(adr) at b, SP being sp.
StoringSp(b, adr, sp) ==
    /\ pc \in b..(b + 5)
    /\ SP = sp
    /\ pc = b + 1 => R[26] = lo8(adr)
    /\ pc \in (b + 2)..(b + 3) => PointsTo(R, 26, adr)
    /\ pc = b + 3 => R[16] = lo8(sp)
    /\ pc \in (b + 4)..(b + 5) => PointsTo(R, 26, adr + 1) /\ mem[adr] = lo8(sp)
    /\ pc = b + 5 => R[16] = hi8(sp)

\* What every instruction of it keeps.
StoringKept(adr) ==
    /\ \A o, e : StacksKept(mem, mem', o, e)
    /\ \A w \in Words \ {adr} : WordKept(mem, mem', w)
    /\ Others /\ left' = left /\ sreg' = sreg /\ SP' = SP
    /\ \A k \in 0..31 : k # 16 /\ k # 26 /\ k # 27 => R'[k] = R[k]

\* Register numbers.
LEMMA Literals == 16 \in 0..31 /\ 26 \in 0..31 /\ 27 \in 0..31 /\ 28 \in 0..31 /\ 29 \in 0..31 /\ 30 \in 0..31
    /\ 31 \in 0..31 /\ 26 + 1 = 27 /\ 30 + 1 = 31 /\ 17 \in 0..31 /\ 18 \in 0..31 /\ 19 \in 0..31
    /\ 0 \in 0..31 /\ 1 \in 0..31 /\ 26 \in Pointers /\ 30 \in Pointers
BY SMT DEF Pointers

\* SAVE_SP_TO_ADR writes SP to adr, low byte first.
LEMMA StoringStep ==
    ASSUME TypeInv, Execute, NEW b \in Int, NEW adr \in Words, Runs(b, SAVE_SP_TO_ADR(adr)),
           NEW sp \in SpRange, StoringSp(b, adr, sp)
    PROVE  /\ pc' = pc + 1
           /\ pc # b + 5 => StoringSp(b, adr, sp)'
           /\ pc = b + 5 => WordIn(mem', adr) = sp
           /\ StoringKept(adr)
<1>0. R \in RegisterTypes /\ mem \in Memory
  BY DEF TypeInv, MachineType
<1>1. SP = sp /\ adr \in Addresses /\ adr + 1 \in Addresses
  BY Zenon, WordAddresses DEF StoringSp
<1>2. /\ At(b, <<"ldi", 26, lo8(adr)>>) /\ At(b + 1, <<"ldi", 27, hi8(adr)>>)
      /\ At(b + 2, <<"in_spl", 16>>) /\ At(b + 3, <<"st", 16, 26, 1>>)
      /\ At(b + 4, <<"in_sph", 16>>) /\ At(b + 5, <<"st", 16, 26, 1>>)
  BY Zenon, StoreSpCode
<1>a. ASSUME mem' = mem, Others, left' = left, sreg' = sreg, SP' = SP,
             \A k \in 0..31 : k # 16 /\ k # 26 /\ k # 27 => R'[k] = R[k]
      PROVE  StoringKept(adr)
  BY Zenon, <1>a, SameKept DEF StoringKept, WordsKept
<1>b. ASSUME NEW a \in Addresses, a = adr \/ a = adr + 1, Wrote(a, R[16]),
             Others, left' = left, sreg' = sreg, SP' = SP,
             \A k \in 0..31 : k # 26 /\ k # 26 + 1 => R'[k] = R[k]
      PROVE  StoringKept(adr) /\ mem'[a] = R[16] /\ \A x \in Addresses : x # a => mem'[x] = mem[x]
  <2>1. (\A o, e : StacksKept(mem, mem', o, e)) /\ \A w \in Words \ {adr} : WordKept(mem, mem', w)
    BY Zenon, <1>0, <1>b, WordStore DEF Wrote
  <2>2. mem'[a] = R[16] /\ \A x \in Addresses : x # a => mem'[x] = mem[x]
    BY SMT, <1>0, <1>b DEF Memory, Wrote
  <2> QED BY Zenon, <1>b, <2>1, <2>2, Literals DEF StoringKept
<1>3. CASE pc = b
  <2>1. /\ R'[26] = lo8(adr) /\ \A k \in 0..31 : k # 26 => R'[k] = R[k]
        /\ pc' = pc + 1 /\ SP' = SP /\ mem' = mem /\ sreg' = sreg /\ Others /\ left' = left
    BY Zenon, <1>2, <1>3, LdiLow, Literals
  <2>2. StoringSp(b, adr, sp)'
    BY SMT, <1>1, <1>3, <2>1 DEF StoringSp
  <2>3. pc # b + 5
    BY SMT, <1>3
  <2> QED BY Zenon, <1>a, <2>1, <2>2, <2>3
<1>4. CASE pc = b + 1
  <2>0. At(pc, <<"ldi", 26 + 1, hi8(adr)>>) /\ R[26] = lo8(adr)
    BY Zenon, <1>2, <1>4, Literals DEF StoringSp
  <2>1. /\ PointsTo(R', 26, adr) /\ \A k \in 0..31 : k # 26 /\ k # 26 + 1 => R'[k] = R[k]
        /\ pc' = pc + 1 /\ SP' = SP /\ mem' = mem /\ sreg' = sreg /\ Others /\ left' = left
    BY Zenon, <2>0, LdiHigh, Literals
  <2>2. StoringSp(b, adr, sp)'
    BY SMT, <1>1, <1>4, <2>1 DEF StoringSp
  <2>3. pc # b + 5
    BY SMT, <1>4
  <2> QED BY Zenon, <1>a, <2>1, <2>2, <2>3, Literals
<1>5. CASE pc = b + 2
  <2>0. PointsTo(R, 26, adr)
    BY SMT, <1>5 DEF StoringSp
  <2>1. /\ R' = [R EXCEPT ![16] = lo8(sp)]
        /\ pc' = pc + 1 /\ SP' = SP /\ mem' = mem /\ sreg' = sreg /\ Others /\ left' = left
    BY Zenon, <1>1, <1>2, <1>5, InSplStep
  <2>2. R'[16] = lo8(sp) /\ \A k \in 0..31 : k # 16 => R'[k] = R[k]
    BY SMT, <1>0, <2>1 DEF RegisterTypes
  <2>2a. PointsTo(R', 26, adr)
    BY SMT, <2>0, <2>2 DEF PointsTo
  <2>2b. StoringSp(b, adr, sp)'
    BY SMT, <1>1, <1>5, <2>1, <2>2, <2>2a DEF StoringSp
  <2>3. pc # b + 5
    BY SMT, <1>5
  <2> QED BY Zenon, <1>a, <2>1, <2>2, <2>2b, <2>3
<1>6. CASE pc = b + 3
  <2>0. PointsTo(R, 26, adr) /\ R[16] = lo8(sp)
    BY SMT, <1>6 DEF StoringSp
  <2>1. Pointer(26) = adr
    BY Zenon, <2>0 DEF PointsTo, Pointer
  <2>2. /\ Wrote(adr, R[16]) /\ PointsTo(R', 26, adr + 1)
        /\ \A k \in 0..31 : k # 26 /\ k # 26 + 1 => R'[k] = R[k]
        /\ pc' = pc + 1 /\ SP' = SP /\ sreg' = sreg /\ Others /\ left' = left
    <3>1. At(pc, <<"st", 16, 26, 1>>) /\ 1 \in {0, 1} /\ 16 \in 0..31 /\ 26 \in Pointers /\ adr \in Addresses
      BY Zenon, <1>1, <1>2, <1>6, Literals
    <3> QED BY Zenon, <2>1, <3>1, StTo
  <2>3. StoringKept(adr) /\ mem'[adr] = lo8(sp)
    BY Zenon, <1>1, <1>b, <2>0, <2>2
  <2>4. StoringSp(b, adr, sp)'
    BY SMT, <1>1, <1>6, <2>2, <2>3 DEF StoringSp
  <2>5. pc # b + 5
    BY SMT, <1>6
  <2> QED BY Zenon, <2>2, <2>3, <2>4, <2>5
<1>7. CASE pc = b + 4
  <2>0. PointsTo(R, 26, adr + 1) /\ mem[adr] = lo8(sp)
    BY SMT, <1>7 DEF StoringSp
  <2>1. /\ R' = [R EXCEPT ![16] = hi8(sp)]
        /\ pc' = pc + 1 /\ SP' = SP /\ mem' = mem /\ sreg' = sreg /\ Others /\ left' = left
    BY Zenon, <1>1, <1>2, <1>7, InSphStep
  <2>2. R'[16] = hi8(sp) /\ \A k \in 0..31 : k # 16 => R'[k] = R[k]
    BY SMT, <1>0, <2>1 DEF RegisterTypes
  <2>2a. PointsTo(R', 26, adr + 1)
    BY SMT, <2>0, <2>2 DEF PointsTo
  <2>2b. StoringSp(b, adr, sp)'
    BY SMT, <1>1, <1>7, <2>0, <2>1, <2>2, <2>2a DEF StoringSp
  <2>3. pc # b + 5
    BY SMT, <1>7
  <2> QED BY Zenon, <1>a, <2>1, <2>2, <2>2b, <2>3
<1>8. CASE pc = b + 5
  <2>0. PointsTo(R, 26, adr + 1) /\ R[16] = hi8(sp) /\ mem[adr] = lo8(sp)
    BY SMT, <1>8 DEF StoringSp
  <2>1. Pointer(26) = adr + 1
    BY Zenon, <2>0 DEF PointsTo, Pointer
  <2>2. /\ Wrote(adr + 1, R[16])
        /\ \A k \in 0..31 : k # 26 /\ k # 26 + 1 => R'[k] = R[k]
        /\ pc' = pc + 1 /\ SP' = SP /\ sreg' = sreg /\ Others /\ left' = left
    <3>1. At(pc, <<"st", 16, 26, 1>>) /\ 1 \in {0, 1} /\ 16 \in 0..31 /\ 26 \in Pointers /\ adr + 1 \in Addresses
      BY Zenon, <1>1, <1>2, <1>8, Literals
    <3> QED BY Zenon, <2>1, <3>1, StTo
  <2>3. StoringKept(adr) /\ mem'[adr + 1] = hi8(sp) /\ \A x \in Addresses : x # adr + 1 => mem'[x] = mem[x]
    BY Zenon, <1>1, <1>b, <2>0, <2>2
  <2>4. mem'[adr] = lo8(sp)
    <3>1. adr # adr + 1
      BY SMT, <1>1, AfterAddress
    <3> QED BY Zenon, <1>1, <2>0, <2>3, <3>1
  <2>5. lo8(sp) + 256 * hi8(sp) = sp
    <3>1. lo8(sp) \in 0..255 /\ hi8(sp) \in 0..255 /\ 256 * hi8(sp) + lo8(sp) = sp
      BY Zenon, SpBytes
    <3>2. \A x, y \in 0..255 : x + 256 * y = 256 * y + x
      BY SMT
    <3> QED BY Zenon, <3>1, <3>2
  <2>6. WordIn(mem', adr) = sp
    BY Zenon, <2>3, <2>4, <2>5 DEF WordIn
  <2> QED BY Zenon, <1>8, <2>2, <2>3, <2>6
<1>9. pc = b \/ pc = b + 1 \/ pc = b + 2 \/ pc = b + 3 \/ pc = b + 4 \/ pc = b + 5
  BY SMT DEF StoringSp
<1> QED BY Zenon, <1>3, <1>4, <1>5, <1>6, <1>7, <1>8, <1>9

\* Within SET_SP at b.
SettingSp(b) ==
    /\ pc \in b..(b + 5)
    /\ pc = b + 1 => R[26] = lo8(task_sp)
    /\ pc = b + 2 => PointsTo(R, 26, task_sp)
    /\ pc = b + 3 => PointsTo(R, 26, task_sp + 1)
    /\ pc \in (b + 3)..(b + 4) => R[30] = mem[task_sp]
    /\ pc \in (b + 4)..(b + 5) => R[31] = mem[task_sp + 1]
    /\ pc = b + 5 => lo8(SP) = mem[task_sp]

\* Within the head of RESTORE_CONTEXT at b, which sets SP too.
LoadingSp(b) ==
    /\ pc \in b..(b + 5)
    /\ pc = b + 1 => R[26] = lo8(task_sp)
    /\ pc = b + 2 => PointsTo(R, 26, task_sp)
    /\ pc \in (b + 3)..(b + 4) => PointsTo(R, 26, task_sp + 1)
    /\ pc = b + 3 => R[28] = mem[task_sp]
    /\ pc \in (b + 4)..(b + 5) => lo8(SP) = mem[task_sp]
    /\ pc = b + 5 => R[29] = mem[task_sp + 1]

LEMMA Unlike ==
    /\ 28 # 26 /\ 28 # 26 + 1 /\ 29 # 26 /\ 29 # 26 + 1 /\ 30 # 26 /\ 30 # 26 + 1 /\ 30 # 31
    /\ 31 # 26 /\ 31 # 26 + 1 /\ 16 # 26 /\ 16 # 26 + 1 /\ 17 # 26 /\ 17 # 26 + 1
    /\ 16 # 30 /\ 16 # 30 + 1 /\ 17 # 30 /\ 17 # 30 + 1 /\ 16 # 17 /\ 17 # 16
BY SMT

\* out to SPL and SPH changes one byte of SP.
LEMMA OutLow ==
    ASSUME TypeInv, Execute, NEW d \in 0..31, At(pc, <<"out_spl", d>>)
    PROVE  /\ lo8(SP') = R[d]
           /\ pc' = pc + 1 /\ mem' = mem /\ R' = R /\ sreg' = sreg
           /\ Others /\ left' = left
<1>1. SP \in SpRange /\ R[d] \in 0..255
  BY Zenon DEF TypeInv, MachineType, RegisterTypes, Byte
<1>2. /\ SP' = 256 * hi8(SP) + R[d]
      /\ pc' = pc + 1 /\ mem' = mem /\ R' = R /\ sreg' = sreg
      /\ Others /\ left' = left
  BY Zenon, OutSplStep
<1>3. hi8(SP) \in 0..255
  BY Zenon, <1>1, SpBytes
<1>4. \A x, y \in 0..255 : (256 * y + x) % 256 = x
  BY SMT
<1>5. (256 * hi8(SP) + R[d]) % 256 = R[d]
  BY ZenonT(60), <1>1, <1>3, <1>4
<1> QED BY Zenon, <1>2, <1>5 DEF lo8

LEMMA OutHigh ==
    ASSUME TypeInv, Execute, NEW d \in 0..31, At(pc, <<"out_sph", d>>)
    PROVE  /\ SP' = lo8(SP) + 256 * R[d]
           /\ pc' = pc + 1 /\ mem' = mem /\ R' = R /\ sreg' = sreg
           /\ Others /\ left' = left
<1>1. SP \in SpRange /\ R[d] \in 0..255
  BY Zenon DEF TypeInv, MachineType, RegisterTypes, Byte
<1>2. /\ SP' = 256 * R[d] + lo8(SP)
      /\ pc' = pc + 1 /\ mem' = mem /\ R' = R /\ sreg' = sreg
      /\ Others /\ left' = left
  BY Zenon, OutSphStep
<1>3. lo8(SP) \in 0..255
  BY Zenon, <1>1, SpBytes
<1>4. \A x, y \in 0..255 : x + 256 * y = 256 * y + x
  BY SMT
<1> QED BY Zenon, <1>1, <1>2, <1>3, <1>4

\* SET_SP loads SP from task_sp.
LEMMA SetSpStep ==
    ASSUME TypeInv, Execute, NEW b \in Int, Runs(b, SET_SP), SettingSp(b)
    PROVE  /\ pc' = pc + 1
           /\ pc # b + 5 => SettingSp(b)'
           /\ pc = b + 5 => SP' = WordIn(mem, task_sp)
           /\ Others /\ left' = left /\ sreg' = sreg /\ mem' = mem
<1>1. /\ At(b, <<"ldi", 26, lo8(task_sp)>>) /\ At(b + 1, <<"ldi", 27, hi8(task_sp)>>)
      /\ At(b + 2, <<"ld", 30, 26, 1>>) /\ At(b + 3, <<"ld", 31, 26, 1>>)
      /\ At(b + 4, <<"out_spl", 30>>) /\ At(b + 5, <<"out_sph", 31>>)
  BY Zenon, SetSpCode
<1>2. task_sp \in Words /\ task_sp \in Addresses /\ task_sp + 1 \in Addresses
  BY Zenon, WordAddresses DEF Words
<1>3. CASE pc = b
  <2>1. /\ R'[26] = lo8(task_sp)
        /\ pc' = pc + 1 /\ SP' = SP /\ mem' = mem /\ sreg' = sreg /\ Others /\ left' = left
    BY Zenon, <1>1, <1>3, LdiLow, Literals
  <2>2. SettingSp(b)' /\ pc # b + 5
    BY SMT, <1>3, <2>1 DEF SettingSp
  <2> QED BY Zenon, <2>1, <2>2
<1>4. CASE pc = b + 1
  <2>0. At(pc, <<"ldi", 26 + 1, hi8(task_sp)>>) /\ R[26] = lo8(task_sp)
    BY Zenon, <1>1, <1>4, Literals DEF SettingSp
  <2>1. /\ PointsTo(R', 26, task_sp)
        /\ pc' = pc + 1 /\ SP' = SP /\ mem' = mem /\ sreg' = sreg /\ Others /\ left' = left
    BY Zenon, <1>2, <2>0, LdiHigh, Literals
  <2>2. SettingSp(b)' /\ pc # b + 5
    BY SMT, <1>4, <2>1 DEF SettingSp
  <2> QED BY Zenon, <2>1, <2>2
<1>5. CASE pc = b + 2
  <2>0. PointsTo(R, 26, task_sp)
    BY SMT, <1>5 DEF SettingSp
  <2>1. /\ At(pc, <<"ld", 30, 26, 1>>) /\ 1 \in {0, 1} /\ 26 \in Pointers /\ 30 \in 0..31 /\ 30 # 26 /\ 30 # 26 + 1
        /\ Pointer(26) = task_sp
    BY Zenon, <1>1, <1>5, <2>0, Literals, Unlike DEF PointsTo, Pointer
  <2>2. /\ R'[30] = mem[task_sp] /\ PointsTo(R', 26, task_sp + 1)
        /\ pc' = pc + 1 /\ SP' = SP /\ mem' = mem /\ sreg' = sreg /\ Others /\ left' = left
    BY ZenonT(60), <1>2, <2>1, LdTo
  <2>3. SettingSp(b)' /\ pc # b + 5
    BY SMT, <1>5, <2>2 DEF SettingSp
  <2> QED BY Zenon, <2>2, <2>3
<1>6. CASE pc = b + 3
  <2>0. PointsTo(R, 26, task_sp + 1) /\ R[30] = mem[task_sp]
    BY SMT, <1>6 DEF SettingSp
  <2>1. /\ At(pc, <<"ld", 31, 26, 1>>) /\ 1 \in {0, 1} /\ 26 \in Pointers /\ 31 \in 0..31 /\ 31 # 26 /\ 31 # 26 + 1
        /\ Pointer(26) = task_sp + 1 /\ 30 \in 0..31 /\ 30 # 26 /\ 30 # 26 + 1 /\ 30 # 31
    BY Zenon, <1>1, <1>6, <2>0, Literals, Unlike DEF PointsTo, Pointer
  <2>2. /\ R'[31] = mem[task_sp + 1]
        /\ \A k \in 0..31 : k # 31 /\ k # 26 /\ k # 26 + 1 => R'[k] = R[k]
        /\ pc' = pc + 1 /\ SP' = SP /\ mem' = mem /\ sreg' = sreg /\ Others /\ left' = left
    BY ZenonT(60), <1>2, <2>1, LdTo
  <2>2a. R'[30] = R[30]
    BY Zenon, <2>1, <2>2
  <2>3. SettingSp(b)' /\ pc # b + 5
    BY SMT, <1>6, <2>0, <2>2, <2>2a DEF SettingSp
  <2> QED BY Zenon, <2>2, <2>3
<1>7. CASE pc = b + 4
  <2>0. R[30] = mem[task_sp] /\ R[31] = mem[task_sp + 1]
    BY SMT, <1>7 DEF SettingSp
  <2>1. /\ lo8(SP') = mem[task_sp]
        /\ pc' = pc + 1 /\ mem' = mem /\ R' = R /\ sreg' = sreg /\ Others /\ left' = left
    BY Zenon, <1>1, <1>7, <2>0, OutLow, Literals
  <2>2. SettingSp(b)' /\ pc # b + 5
    BY SMT, <1>7, <2>0, <2>1 DEF SettingSp
  <2> QED BY Zenon, <2>1, <2>2
<1>8. CASE pc = b + 5
  <2>0. lo8(SP) = mem[task_sp] /\ R[31] = mem[task_sp + 1]
    BY SMT, <1>8 DEF SettingSp
  <2>1. /\ SP' = lo8(SP) + 256 * R[31]
        /\ pc' = pc + 1 /\ mem' = mem /\ R' = R /\ sreg' = sreg /\ Others /\ left' = left
    BY Zenon, <1>1, <1>8, OutHigh, Literals
  <2>2. SP' = WordIn(mem, task_sp)
    BY Zenon, <2>0, <2>1 DEF WordIn
  <2> QED BY Zenon, <1>8, <2>1, <2>2
<1>9. pc = b \/ pc = b + 1 \/ pc = b + 2 \/ pc = b + 3 \/ pc = b + 4 \/ pc = b + 5
  BY SMT DEF SettingSp
<1> QED BY Zenon, <1>3, <1>4, <1>5, <1>6, <1>7, <1>8, <1>9

\* So does the head of RESTORE_CONTEXT.
LEMMA LoadSpStep ==
    ASSUME TypeInv, Execute, NEW b \in Int, Runs(b, RESTORE_CONTEXT), LoadingSp(b)
    PROVE  /\ pc' = pc + 1
           /\ pc # b + 5 => LoadingSp(b)'
           /\ pc = b + 5 => SP' = WordIn(mem, task_sp)
           /\ Others /\ left' = left /\ sreg' = sreg /\ mem' = mem
<1>1. /\ At(b, <<"ldi", 26, lo8(task_sp)>>) /\ At(b + 1, <<"ldi", 27, hi8(task_sp)>>)
      /\ At(b + 2, <<"ld", 28, 26, 1>>) /\ At(b + 3, <<"out_spl", 28>>)
      /\ At(b + 4, <<"ld", 29, 26, 1>>) /\ At(b + 5, <<"out_sph", 29>>)
  BY Zenon, RestoreCode
<1>2. task_sp \in Words /\ task_sp \in Addresses /\ task_sp + 1 \in Addresses
  BY Zenon, WordAddresses DEF Words
<1>3. CASE pc = b
  <2>1. /\ R'[26] = lo8(task_sp)
        /\ pc' = pc + 1 /\ SP' = SP /\ mem' = mem /\ sreg' = sreg /\ Others /\ left' = left
    BY Zenon, <1>1, <1>3, LdiLow, Literals
  <2>2. LoadingSp(b)' /\ pc # b + 5
    BY SMT, <1>3, <2>1 DEF LoadingSp
  <2> QED BY Zenon, <2>1, <2>2
<1>4. CASE pc = b + 1
  <2>0. At(pc, <<"ldi", 26 + 1, hi8(task_sp)>>) /\ R[26] = lo8(task_sp)
    BY Zenon, <1>1, <1>4, Literals DEF LoadingSp
  <2>1. /\ PointsTo(R', 26, task_sp)
        /\ pc' = pc + 1 /\ SP' = SP /\ mem' = mem /\ sreg' = sreg /\ Others /\ left' = left
    BY Zenon, <1>2, <2>0, LdiHigh, Literals
  <2>2. LoadingSp(b)' /\ pc # b + 5
    BY SMT, <1>4, <2>1 DEF LoadingSp
  <2> QED BY Zenon, <2>1, <2>2
<1>5. CASE pc = b + 2
  <2>0. PointsTo(R, 26, task_sp)
    BY SMT, <1>5 DEF LoadingSp
  <2>1. /\ At(pc, <<"ld", 28, 26, 1>>) /\ 1 \in {0, 1} /\ 26 \in Pointers /\ 28 \in 0..31 /\ 28 # 26 /\ 28 # 26 + 1
        /\ Pointer(26) = task_sp
    BY Zenon, <1>1, <1>5, <2>0, Literals, Unlike DEF PointsTo, Pointer
  <2>2. /\ R'[28] = mem[task_sp] /\ PointsTo(R', 26, task_sp + 1)
        /\ pc' = pc + 1 /\ SP' = SP /\ mem' = mem /\ sreg' = sreg /\ Others /\ left' = left
    BY ZenonT(60), <1>2, <2>1, LdTo
  <2>3. LoadingSp(b)' /\ pc # b + 5
    BY SMT, <1>5, <2>2 DEF LoadingSp
  <2> QED BY Zenon, <2>2, <2>3
<1>6. CASE pc = b + 3
  <2>0. PointsTo(R, 26, task_sp + 1) /\ R[28] = mem[task_sp]
    BY SMT, <1>6 DEF LoadingSp
  <2>1. /\ lo8(SP') = mem[task_sp]
        /\ pc' = pc + 1 /\ mem' = mem /\ R' = R /\ sreg' = sreg /\ Others /\ left' = left
    BY Zenon, <1>1, <1>6, <2>0, OutLow, Literals
  <2>2. LoadingSp(b)' /\ pc # b + 5
    BY SMT, <1>6, <2>0, <2>1 DEF LoadingSp
  <2> QED BY Zenon, <2>1, <2>2
<1>7. CASE pc = b + 4
  <2>0. PointsTo(R, 26, task_sp + 1) /\ lo8(SP) = mem[task_sp]
    BY SMT, <1>7 DEF LoadingSp
  <2>1. /\ At(pc, <<"ld", 29, 26, 1>>) /\ 1 \in {0, 1} /\ 26 \in Pointers /\ 29 \in 0..31 /\ 29 # 26 /\ 29 # 26 + 1
        /\ Pointer(26) = task_sp + 1
    BY Zenon, <1>1, <1>7, <2>0, Literals, Unlike DEF PointsTo, Pointer
  <2>2. /\ R'[29] = mem[task_sp + 1]
        /\ pc' = pc + 1 /\ SP' = SP /\ mem' = mem /\ sreg' = sreg /\ Others /\ left' = left
    BY ZenonT(60), <1>2, <2>1, LdTo
  <2>3. LoadingSp(b)' /\ pc # b + 5
    BY SMT, <1>7, <2>0, <2>2 DEF LoadingSp
  <2> QED BY Zenon, <2>2, <2>3
<1>8. CASE pc = b + 5
  <2>0. lo8(SP) = mem[task_sp] /\ R[29] = mem[task_sp + 1]
    BY SMT, <1>8 DEF LoadingSp
  <2>1. /\ SP' = lo8(SP) + 256 * R[29]
        /\ pc' = pc + 1 /\ mem' = mem /\ R' = R /\ sreg' = sreg /\ Others /\ left' = left
    BY Zenon, <1>1, <1>8, OutHigh, Literals
  <2>2. SP' = WordIn(mem, task_sp)
    BY Zenon, <2>0, <2>1 DEF WordIn
  <2> QED BY Zenon, <1>8, <2>1, <2>2
<1>9. pc = b \/ pc = b + 1 \/ pc = b + 2 \/ pc = b + 3 \/ pc = b + 4 \/ pc = b + 5
  BY SMT DEF LoadingSp
<1> QED BY Zenon, <1>3, <1>4, <1>5, <1>6, <1>7, <1>8, <1>9

-----------------------------------------------------------------------------
(* SET_RETURN_POINT *)

\* Within SET_RETURN_POINT at b: the return address it makes at e is that of its jmp, after
\* that of its pop.
Returning(b, e) ==
    /\ pc \in (b..(b + 12)) \cup {b + 14}
    /\ pc = b \/ pc \in (b + 4)..(b + 9) => SP = e + 3
    /\ pc \in {b + 1, b + 12, b + 14} => SP = e
    /\ pc \in {b + 2, b + 11} => SP = e + 1
    /\ pc \in {b + 3, b + 10} => SP = e + 2
    /\ pc = b + 1 => PcIn(mem, e) = b + 1
    /\ pc = b + 2 => Bytes(mem[e + 3], mem[e + 2], R[16]) = b + 1
    /\ pc = b + 3 => Bytes(mem[e + 3], R[17], R[16]) = b + 1
    /\ pc \in (b + 4)..(b + 5) => Bytes(R[18], R[17], R[16]) = b + 1
    /\ pc = b + 5 => R[19] = 12
    /\ pc \in (b + 6)..(b + 7) => Bytes(R[18], R[17] + (sreg % 2), R[16]) = b + 13
    /\ pc \in (b + 7)..(b + 8) => R[19] = 0
    /\ pc = b + 8 => Bytes(R[18], R[17], R[16] + (sreg % 2)) = b + 13
    /\ pc = b + 9 => Bytes(R[18], R[17], R[16]) = b + 13
    /\ pc = b + 10 => Bytes(mem[e + 3], R[17], R[16]) = b + 13
    /\ pc = b + 11 => Bytes(mem[e + 3], mem[e + 2], R[16]) = b + 13
    /\ pc \in {b + 12, b + 14} => PcIn(mem, e) = b + 13

ReturningKept(o, e) ==
    /\ StacksKept(mem, mem', o, e + 3) /\ WordsKept(mem, mem')
    /\ Others /\ left' = left
    /\ sreg' < 128 <=> sreg < 128

\* What adding bytes, with or without a carry, can give.
Sums == 0..511
Carries == 0..256

\* Adding leaves the I flag, and its carry is a bit.
LEMMA CarryKeep ==
    ASSUME sreg \in Byte, NEW s \in Sums
    PROVE  /\ CarryFlag(s) % 2 = hi8(s) /\ (CarryFlag(s) < 128 <=> sreg < 128)
<1>0. sreg \in 0..255 /\ s \in 0..511
  BY Zenon DEF Byte, Sums
<1>1. PICK c \in 0..3, d \in 0..63 : sreg = 64 * c + d
  <2>1. sreg \div 64 \in 0..3 /\ sreg % 64 \in 0..63 /\ sreg = 64 * (sreg \div 64) + (sreg % 64)
    BY SMT, <1>0
  <2> QED BY Zenon, <2>1
<1>2. s \div 256 \in 0..1 /\ s % 256 \in 0..255 /\ s = 256 * (s \div 256) + (s % 256)
  BY SMT, <1>0
<1>3. sreg \div 64 = c
  BY SMT, <1>1
<1>4. PICK q \in 0..1 : q = s \div 256
  BY Zenon, <1>2
<1>5. CarryFlag(s) = c * 64 + q
  BY Zenon, <1>3, <1>4 DEF CarryFlag
<1>6. CarryFlag(s) % 2 = q /\ (CarryFlag(s) < 128 <=> sreg < 128)
  BY SMT, <1>1, <1>4, <1>5
<1> QED BY Zenon, <1>4, <1>6 DEF hi8

\* Adding to the low byte, then the carry to the middle one, then to the high one.
LEMMA AddLow ==
    ASSUME NEW x \in Byte, NEW y \in Byte, NEW z \in Byte, NEW k \in Byte
    PROVE  Bytes(lo8(x + k), y + hi8(x + k), z) = Bytes(x, y, z) + k
<1>0. x \in 0..255 /\ y \in 0..255 /\ z \in 0..255 /\ k \in 0..255
  BY Zenon DEF Byte
<1>1. PICK q \in Nat, r \in Nat : x + k = 256 * q + r /\ q = (x + k) \div 256 /\ r = (x + k) % 256
  <2>1. x + k = 256 * ((x + k) \div 256) + ((x + k) % 256) /\ (x + k) \div 256 \in Nat /\ (x + k) % 256 \in Nat
    BY SMT, <1>0
  <2> QED BY Zenon, <2>1
<1>2. 256 * (256 * z + (y + q)) + r = 256 * (256 * z + y) + x + k
  BY SMT, <1>0, <1>1
<1>4. 256 * (256 * z + (y + q)) + r = 256 * (256 * z + y) + x + k
  BY SMT, <1>0, <1>2
<1>5. Bytes(r, y + q, z) = Bytes(x, y, z) + k
  BY Zenon, <1>4 DEF Bytes
<1> QED BY Zenon, <1>1, <1>5 DEF lo8, hi8

LEMMA AddMiddle ==
    ASSUME NEW x \in Byte, NEW y \in Carries, NEW z \in Byte
    PROVE  Bytes(x, lo8(y), z + hi8(y)) = Bytes(x, y, z)
<1>0. x \in 0..255 /\ z \in 0..255 /\ y \in 0..256
  BY Zenon DEF Byte, Carries
<1>1. PICK q \in Nat, r \in Nat : y = 256 * q + r /\ q = y \div 256 /\ r = y % 256
  <2>1. y = 256 * (y \div 256) + (y % 256) /\ y \div 256 \in Nat /\ y % 256 \in Nat
    BY SMT, <1>0
  <2> QED BY Zenon, <2>1
<1>2. 256 * (256 * (z + q) + r) + x = 256 * (256 * z + y) + x
  BY SMT, <1>0, <1>1
<1>3. Bytes(x, r, z + q) = Bytes(x, y, z)
  BY Zenon, <1>2 DEF Bytes
<1> QED BY SMT, <1>1, <1>3 DEF lo8, hi8

LEMMA AddHigh ==
    ASSUME NEW x \in Byte, NEW y \in Byte, NEW z \in Carries, NEW a \in PcRange, Bytes(x, y, z) = a
    PROVE  lo8(z) = z
<1>0. x \in 0..255 /\ y \in 0..255 /\ a \in Nat /\ High(a) \in 0..255 /\ z \in 0..256
  BY Zenon DEF Byte, PcRange, Carries
<1>1. a = 256 * (256 * z + y) + x /\ 256 * z + y \in Nat
  BY SMT, <1>0 DEF Bytes
<1>2. a \div 256 = 256 * z + y
  BY SMT, <1>0, <1>1, Div256
<1>3. (256 * z + y) \div 256 = z
  BY SMT, <1>0, Div256
<1>4. z \in 0..255
  BY SMT, <1>0, <1>2, <1>3 DEF High
<1> QED BY SMT, <1>4 DEF lo8

Loads(d, v) == R' = [R EXCEPT ![d] = v]

\* add and adc.
LEMMA AddTo ==
    ASSUME Execute, NEW d, NEW r, At(pc, <<"add", d, r>>), NEW s, s = R[d] + R[r] + 0
    PROVE  /\ Loads(d, lo8(s)) /\ sreg' = CarryFlag(s)
           /\ pc' = pc + 1 /\ SP' = SP /\ mem' = mem /\ Others /\ left' = left
BY AddStep DEF Loads, lo8

LEMMA AdcTo ==
    ASSUME Execute, NEW d, NEW r, At(pc, <<"adc", d, r>>), NEW s, s = R[d] + R[r] + (sreg % 2)
    PROVE  /\ Loads(d, lo8(s)) /\ sreg' = CarryFlag(s)
           /\ pc' = pc + 1 /\ SP' = SP /\ mem' = mem /\ Others /\ left' = left
BY AdcStep DEF Loads, lo8

\* Registers other than the scratch ones.
LEMMA Others18 ==
    /\ 16 # 18 /\ 17 # 18 /\ 16 # 19 /\ 17 # 19 /\ 18 # 19
    /\ 16 # 17 /\ 17 # 16 /\ 18 # 17 /\ 18 # 16 /\ 19 # 18 /\ 19 # 17
BY SMT

\* Step by step, SET_RETURN_POINT leaves the address after its jmp on the stack.
LEMMA ReturningStep ==
    ASSUME TypeInv, Execute, NEW b \in Int, NEW l, Runs(b, SET_RETURN_POINT(l)),
           b + 1 \in PcRange, b + 13 \in PcRange,
           NEW o \in Owners, NEW e \in Int, e + 1 \in Stack(o), e + 3 \in Stack(o), Returning(b, e)
    PROVE  /\ pc # b + 14 => Returning(b, e)'
           /\ pc = b + 14 => pc' = b + 15 /\ SP' = e /\ PcIn(mem', e) = b + 13
           /\ ReturningKept(o, e)
<1>0. R \in RegisterTypes /\ mem \in Memory /\ sreg \in Byte /\ SP \in SpRange
  BY DEF TypeInv, MachineType
<1>1. e + 1 \in Addresses /\ e + 2 \in Stack(o) /\ e + 2 \in Addresses /\ e + 3 \in Addresses
  <2>1. e + 2 \in Stack(o)
    BY SMT, Geometry
  <2> QED BY Zenon, <2>1, StackAddresses
<1>3. R[16] \in Byte /\ R[17] \in Byte /\ R[18] \in Byte /\ R[19] \in Byte
  BY Zenon, <1>0, Literals DEF RegisterTypes
<1>4. /\ At(b, <<"rcall">>) /\ At(b + 1, <<"pop", 16>>) /\ At(b + 2, <<"pop", 17>>) /\ At(b + 3, <<"pop", 18>>)
      /\ At(b + 4, <<"ldi", 19, 12>>) /\ At(b + 5, <<"add", 18, 19>>) /\ At(b + 6, <<"ldi", 19, 0>>)
      /\ At(b + 7, <<"adc", 17, 19>>) /\ At(b + 8, <<"adc", 16, 19>>)
      /\ At(b + 9, <<"push", 18>>) /\ At(b + 10, <<"push", 17>>) /\ At(b + 11, <<"push", 16>>)
      /\ At(b + 12, <<"cpse", 1, 1>>) /\ At(b + 14, <<"nop">>)
  BY Zenon, ReturnPointCode
<1>5. ASSUME mem' = mem, Others, left' = left, sreg' < 128 <=> sreg < 128
      PROVE  ReturningKept(o, e)
  BY Zenon, <1>5, SameKept DEF ReturningKept
<1>6. ASSUME NEW k \in 1..3, SP = e + k, NEW d, At(pc, <<"push", d>>), ~SavesAt(pc)
      PROVE  /\ mem'[e + k] = R[d] /\ \A a \in Addresses : a # e + k => mem'[a] = mem[a]
             /\ SP' = SP - 1 /\ pc' = pc + 1 /\ R' = R /\ ReturningKept(o, e)
  <2>1. e + k \in Stack(o) /\ e + k \in Addresses /\ e + k =< e + 3 /\ e + 3 \in Int
    <3>1. k = 1 \/ k = 2 \/ k = 3
      BY SMT, <1>6
    <3>2. e + k =< e + 3 /\ e + 3 \in Int
      BY SMT, <1>6
    <3> QED BY Zenon, <1>1, <3>1, <3>2
  <2>2. /\ mem' = [mem EXCEPT ![SP] = R[d]]
        /\ SP' = SP - 1 /\ pc' = pc + 1 /\ R' = R /\ sreg' = sreg /\ Others /\ left' = left
    BY Zenon, <1>6, <2>1, PushStep
  <2>3. Wrote(e + k, R[d])
    BY Zenon, <1>6, <2>2 DEF Wrote
  <2>4. StacksKept(mem, mem', o, e + 3) /\ WordsKept(mem, mem')
    BY Zenon, <1>0, <2>1, <2>3, StackStore DEF Wrote
  <2>5. mem'[e + k] = R[d] /\ \A a \in Addresses : a # e + k => mem'[a] = mem[a]
    BY SMT, <1>0, <2>1, <2>3 DEF Memory, Wrote
  <2> QED BY Zenon, <2>2, <2>4, <2>5 DEF ReturningKept
<1>7. ASSUME NEW k \in 0..2, SP = e + k, NEW d \in 0..31, At(pc, <<"pop", d>>)
      PROVE  /\ R'[d] = mem[e + k + 1] /\ \A x \in 0..31 : x # d => R'[x] = R[x]
             /\ SP' = e + k + 1 /\ pc' = pc + 1 /\ mem' = mem /\ sreg' = sreg /\ ReturningKept(o, e)
  <2>1. e + k + 1 \in Addresses /\ SP + 1 = e + k + 1
    <3>1. e + k + 1 = e + 1 \/ e + k + 1 = e + 2 \/ e + k + 1 = e + 3
      BY SMT, <1>7
    <3>2. SP + 1 = e + k + 1
      BY Zenon, <1>7
    <3> QED BY Zenon, <1>1, <3>1, <3>2
  <2>2. /\ R' = [R EXCEPT ![d] = mem[SP + 1]]
        /\ SP' = SP + 1 /\ pc' = pc + 1 /\ mem' = mem /\ sreg' = sreg /\ Others /\ left' = left
    BY Zenon, <1>7, <2>1, PopStep
  <2>3. R'[d] = mem[e + k + 1] /\ \A x \in 0..31 : x # d => R'[x] = R[x]
    BY SMT, <1>0, <1>7, <2>1, <2>2 DEF RegisterTypes
  <2> QED BY Zenon, <1>5, <2>1, <2>2, <2>3
<1>8. ASSUME NEW d \in 0..31, NEW s \in Sums, Loads(d, lo8(s)), sreg' = CarryFlag(s),
             pc' = pc + 1, SP' = SP, mem' = mem, Others, left' = left
      PROVE  /\ R'[d] = lo8(s) /\ \A x \in 0..31 : x # d => R'[x] = R[x]
             /\ sreg' % 2 = hi8(s) /\ ReturningKept(o, e)
  <2>1. R'[d] = lo8(s) /\ \A x \in 0..31 : x # d => R'[x] = R[x]
    BY SMT, <1>0, <1>8 DEF RegisterTypes, Loads
  <2>2. sreg' % 2 = hi8(s) /\ (sreg' < 128 <=> sreg < 128)
    BY Zenon, <1>0, <1>8, CarryKeep
  <2> QED BY Zenon, <1>5, <1>8, <2>1, <2>2
<1>9. ASSUME NEW v, At(pc, <<"ldi", 19, v>>)
      PROVE  /\ R'[19] = v /\ \A k \in 0..31 : k # 19 => R'[k] = R[k]
             /\ pc' = pc + 1 /\ SP' = SP /\ mem' = mem /\ sreg' = sreg /\ Others /\ left' = left
  <2>1. 19 \in 0..31
    BY SMT
  <2> QED BY Zenon, <1>9, <2>1, LdiLow
<1> USE DEF Returning
<1>10. CASE pc = b
  <2>1. SP = e + 3 /\ (SP - 2)..SP \subseteq Addresses /\ SP \in Stack(o) /\ SP - 2 \in Stack(o) /\ SP - 3 = e
    <3>1. SP = e + 3 /\ SP - 2 = e + 1 /\ SP - 3 = e
      BY SMT, <1>10
    <3>2. \A a \in (SP - 2)..SP : a = e + 1 \/ a = e + 2 \/ a = e + 3
      BY SMT, <3>1
    <3> HIDE DEF Returning
    <3> QED BY Zenon, <1>1, <3>1, <3>2
  <2>2. /\ mem' = WithPc(mem, b + 1)
        /\ SP' = SP - 3 /\ pc' = pc + 1 /\ R' = R /\ sreg' = sreg /\ Others /\ left' = left
    <3> HIDE DEF Returning
    <3> QED BY Zenon, <1>4, <1>10, <2>1, RcallStep
  <2>3. StacksKept(mem, mem', o, SP) /\ WordsKept(mem, mem') /\ PcIn(mem', SP - 3) = b + 1
    <3> HIDE DEF Returning
    <3> QED BY Zenon, <1>0, <2>1, <2>2, PcStore
  <2>4. ReturningKept(o, e)
    <3> HIDE DEF Returning
    <3> QED BY Zenon, <2>1, <2>2, <2>3 DEF ReturningKept
  <2>5. Returning(b, e)' /\ pc # b + 14
    BY SMT, <1>10, <2>1, <2>2, <2>3
  <2> QED BY Zenon, <2>4, <2>5
<1>11. CASE pc = b + 1
  <2>1. SP = e + 0 /\ 0 \in 0..2 /\ PcIn(mem, e) = b + 1 /\ e + 0 + 1 = e + 1
    BY SMT, <1>11
  <2> HIDE DEF Returning
  <2>2. /\ R'[16] = mem[e + 0 + 1] /\ SP' = e + 0 + 1 /\ pc' = pc + 1 /\ mem' = mem /\ ReturningKept(o, e)
    BY Zenon, <1>4, <1>7, <1>11, <2>1, Literals
  <2>3. Bytes(mem'[e + 3], mem'[e + 2], R'[16]) = b + 1
    BY Zenon, <2>1, <2>2 DEF PcIn
  <2>4. Returning(b, e)' /\ pc # b + 14
    BY SMT, <1>11, <2>1, <2>2, <2>3 DEF Returning
  <2> QED BY Zenon, <2>2, <2>4
<1>12. CASE pc = b + 2
  <2>1. SP = e + 1 /\ 1 \in 0..2 /\ Bytes(mem[e + 3], mem[e + 2], R[16]) = b + 1 /\ e + 1 + 1 = e + 2
    BY SMT, <1>12
  <2> HIDE DEF Returning
  <2>1a. 17 \in 0..31 /\ At(pc, <<"pop", 17>>)
    BY Zenon, <1>4, <1>12, Literals
  <2>2. /\ R'[17] = mem[e + 1 + 1] /\ \A x \in 0..31 : x # 17 => R'[x] = R[x]
        /\ SP' = e + 1 + 1 /\ pc' = pc + 1 /\ mem' = mem /\ ReturningKept(o, e)
    BY Zenon, <1>7, <2>1, <2>1a
  <2>2a. R'[16] = R[16]
    BY Zenon, <2>2, Literals, Unlike
  <2>3. Bytes(mem'[e + 3], R'[17], R'[16]) = b + 1
    BY Zenon, <2>1, <2>2, <2>2a
  <2>4. Returning(b, e)' /\ pc # b + 14
    BY SMT, <1>12, <2>1, <2>2, <2>3 DEF Returning
  <2> QED BY Zenon, <2>2, <2>4
<1>13. CASE pc = b + 3
  <2>1. SP = e + 2 /\ 2 \in 0..2 /\ Bytes(mem[e + 3], R[17], R[16]) = b + 1 /\ e + 2 + 1 = e + 3 /\ 18 # 16 /\ 18 # 17
    BY SMT, <1>13
  <2> HIDE DEF Returning
  <2>1a. 18 \in 0..31 /\ At(pc, <<"pop", 18>>)
    BY Zenon, <1>4, <1>13, Literals
  <2>2. /\ R'[18] = mem[e + 2 + 1] /\ \A x \in 0..31 : x # 18 => R'[x] = R[x]
        /\ SP' = e + 2 + 1 /\ pc' = pc + 1 /\ mem' = mem /\ ReturningKept(o, e)
    BY Zenon, <1>7, <2>1, <2>1a
  <2>2a. R'[16] = R[16] /\ R'[17] = R[17]
    BY Zenon, <2>2, Literals, Others18
  <2>3. Bytes(R'[18], R'[17], R'[16]) = b + 1
    BY Zenon, <2>1, <2>2, <2>2a
  <2>4. Returning(b, e)' /\ pc # b + 14
    BY SMT, <1>13, <2>1, <2>2, <2>3 DEF Returning
  <2> QED BY Zenon, <2>2, <2>4
<1>14. CASE pc = b + 4
  <2>0. At(pc, <<"ldi", 19, 12>>)
    BY Zenon, <1>4, <1>14
  <2>1. SP = e + 3 /\ Bytes(R[18], R[17], R[16]) = b + 1
    BY SMT, <1>14
  <2> HIDE DEF Returning
  <2>2. /\ R'[19] = 12 /\ \A k \in 0..31 : k # 19 => R'[k] = R[k]
        /\ pc' = pc + 1 /\ SP' = SP /\ mem' = mem /\ sreg' = sreg /\ Others /\ left' = left
    BY Zenon, <2>0, <1>9
  <2>2a. R'[16] = R[16] /\ R'[17] = R[17] /\ R'[18] = R[18]
    BY Zenon, <2>2, Literals, Others18
  <2>3. Bytes(R'[18], R'[17], R'[16]) = b + 1
    BY Zenon, <2>1, <2>2a
  <2>4. Returning(b, e)' /\ pc # b + 14
    BY SMT, <1>14, <2>1, <2>2, <2>3 DEF Returning
  <2> QED BY Zenon, <1>5, <2>2, <2>4
<1>15. CASE pc = b + 5
  <2>0. At(pc, <<"add", 18, 19>>)
    BY Zenon, <1>4, <1>15
  <2>1. SP = e + 3 /\ Bytes(R[18], R[17], R[16]) = b + 1 /\ R[19] = 12 /\ b + 1 \in Int /\ R[19] \in Byte
    BY SMT, <1>3, <1>15
  <2> HIDE DEF Returning
  <2>2. PICK y : y = R[18] + R[19]
    OBVIOUS
  <2>3. y = R[18] + R[19] + 0 /\ y \in Sums
    <3>1. \A x, z \in Byte : x + z = x + z + 0 /\ x + z \in Sums
      BY SMT DEF Byte, Sums
    <3> QED BY Zenon, <1>3, <2>2, <3>1
  <2>4. /\ Loads(18, lo8(y)) /\ sreg' = CarryFlag(y)
        /\ pc' = pc + 1 /\ SP' = SP /\ mem' = mem /\ Others /\ left' = left
    BY Zenon, <2>0, <2>3, AddTo
  <2>5. /\ R'[18] = lo8(y) /\ \A x \in 0..31 : x # 18 => R'[x] = R[x]
        /\ sreg' % 2 = hi8(y) /\ ReturningKept(o, e)
    BY SMT, <1>8, <2>3, <2>4, Literals
  <2>6. R'[16] = R[16] /\ R'[17] = R[17]
    BY Zenon, <2>5, Literals, Others18
  <2>7. Bytes(lo8(R[18] + R[19]), R[17] + hi8(R[18] + R[19]), R[16]) = b + 1 + R[19]
    <3>1. Bytes(lo8(R[18] + R[19]), R[17] + hi8(R[18] + R[19]), R[16]) = Bytes(R[18], R[17], R[16]) + R[19]
      BY SMT, <1>3, AddLow
    <3> QED BY Zenon, <2>1, <3>1
  <2>8. Bytes(R'[18], R'[17] + (sreg' % 2), R'[16]) = b + 1 + R[19]
    BY Zenon, <2>2, <2>5, <2>6, <2>7
  <2>9. Bytes(R'[18], R'[17] + (sreg' % 2), R'[16]) = b + 13
    BY SMT, <2>1, <2>8
  <2>10. Returning(b, e)' /\ pc # b + 14
    BY SMT, <1>15, <2>1, <2>4, <2>9 DEF Returning
  <2> QED BY Zenon, <2>5, <2>10
<1>16. CASE pc = b + 6
  <2>0. At(pc, <<"ldi", 19, 0>>)
    BY Zenon, <1>4, <1>16
  <2>1. SP = e + 3 /\ Bytes(R[18], R[17] + (sreg % 2), R[16]) = b + 13
    BY SMT, <1>16
  <2> HIDE DEF Returning
  <2>2. /\ R'[19] = 0 /\ \A k \in 0..31 : k # 19 => R'[k] = R[k]
        /\ pc' = pc + 1 /\ SP' = SP /\ mem' = mem /\ sreg' = sreg /\ Others /\ left' = left
    BY Zenon, <2>0, <1>9
  <2>2a. R'[16] = R[16] /\ R'[17] = R[17] /\ R'[18] = R[18]
    BY Zenon, <2>2, Literals, Others18
  <2>3. Bytes(R'[18], R'[17] + (sreg' % 2), R'[16]) = b + 13
    BY Zenon, <2>1, <2>2, <2>2a
  <2>4. Returning(b, e)' /\ pc # b + 14
    BY SMT, <1>16, <2>1, <2>2, <2>3 DEF Returning
  <2> QED BY Zenon, <1>5, <2>2, <2>4
<1>17. CASE pc = b + 7
  <2>0. At(pc, <<"adc", 17, 19>>)
    BY Zenon, <1>4, <1>17
  <2>1. SP = e + 3 /\ Bytes(R[18], R[17] + (sreg % 2), R[16]) = b + 13 /\ R[19] = 0
    BY SMT, <1>17
  <2> HIDE DEF Returning
  <2>2. PICK y : y = R[17] + (sreg % 2)
    OBVIOUS
  <2>3. y = R[17] + R[19] + (sreg % 2) /\ y \in Carries /\ y \in Sums
    BY SMT, <1>0, <1>3, <2>1, <2>2 DEF Byte, Carries, Sums
  <2>4. /\ Loads(17, lo8(y)) /\ sreg' = CarryFlag(y)
        /\ pc' = pc + 1 /\ SP' = SP /\ mem' = mem /\ Others /\ left' = left
    BY Zenon, <2>0, <2>3, AdcTo
  <2>5. /\ R'[17] = lo8(y) /\ \A x \in 0..31 : x # 17 => R'[x] = R[x]
        /\ sreg' % 2 = hi8(y) /\ ReturningKept(o, e)
    BY SMT, <1>8, <2>3, <2>4, Literals
  <2>6. R'[16] = R[16] /\ R'[18] = R[18] /\ R'[19] = 0
    BY Zenon, <2>1, <2>5, Literals, Others18
  <2>7. Bytes(R[18], lo8(y), R[16] + hi8(y)) = Bytes(R[18], y, R[16])
    BY Zenon, <1>3, <2>3, AddMiddle
  <2>8. Bytes(R'[18], R'[17], R'[16] + (sreg' % 2)) = b + 13
    BY Zenon, <2>1, <2>2, <2>5, <2>6, <2>7
  <2>9. Returning(b, e)' /\ pc # b + 14
    BY SMT, <1>17, <2>1, <2>4, <2>6, <2>8 DEF Returning
  <2> QED BY Zenon, <2>5, <2>9
<1>18. CASE pc = b + 8
  <2>0. At(pc, <<"adc", 16, 19>>)
    BY Zenon, <1>4, <1>18
  <2>1. SP = e + 3 /\ Bytes(R[18], R[17], R[16] + (sreg % 2)) = b + 13 /\ R[19] = 0
    BY SMT, <1>18
  <2> HIDE DEF Returning
  <2>2. PICK y : y = R[16] + (sreg % 2)
    OBVIOUS
  <2>3. y = R[16] + R[19] + (sreg % 2) /\ y \in Carries /\ y \in Sums
    BY SMT, <1>0, <1>3, <2>1, <2>2 DEF Byte, Carries, Sums
  <2>4. /\ Loads(16, lo8(y)) /\ sreg' = CarryFlag(y)
        /\ pc' = pc + 1 /\ SP' = SP /\ mem' = mem /\ Others /\ left' = left
    BY Zenon, <2>0, <2>3, AdcTo
  <2>5. /\ R'[16] = lo8(y) /\ \A x \in 0..31 : x # 16 => R'[x] = R[x]
        /\ ReturningKept(o, e)
    BY SMT, <1>8, <2>3, <2>4, Literals
  <2>6. R'[17] = R[17] /\ R'[18] = R[18]
    BY Zenon, <2>5, Literals, Others18
  <2>7. lo8(y) = y
    BY Zenon, <1>3, <2>1, <2>2, <2>3, AddHigh
  <2>8. Bytes(R'[18], R'[17], R'[16]) = b + 13
    BY Zenon, <2>1, <2>2, <2>5, <2>6, <2>7
  <2>9. Returning(b, e)' /\ pc # b + 14
    BY SMT, <1>18, <2>1, <2>4, <2>8 DEF Returning
  <2> QED BY Zenon, <2>5, <2>9
<1>19. CASE pc = b + 9
  <2>1. SP = e + 3 /\ 3 \in 1..3 /\ Bytes(R[18], R[17], R[16]) = b + 13
    BY SMT, <1>19
  <2>2. At(pc, <<"push", 18>>) /\ ~SavesAt(pc)
    BY <1>4, <1>19 DEF At, SavesAt
  <2> HIDE DEF Returning
  <2>3. mem'[e + 3] = R[18] /\ SP' = SP - 1 /\ pc' = pc + 1 /\ R' = R /\ ReturningKept(o, e)
    BY Zenon, <1>6, <2>1, <2>2
  <2>4. Bytes(mem'[e + 3], R'[17], R'[16]) = b + 13
    BY Zenon, <2>1, <2>3
  <2>5. Returning(b, e)' /\ pc # b + 14
    BY SMT, <1>19, <2>1, <2>3, <2>4 DEF Returning
  <2> QED BY Zenon, <2>3, <2>5
<1>20. CASE pc = b + 10
  <2>1. SP = e + 2 /\ 2 \in 1..3 /\ Bytes(mem[e + 3], R[17], R[16]) = b + 13 /\ e + 3 # e + 2
    BY SMT, <1>20
  <2>2. At(pc, <<"push", 17>>) /\ ~SavesAt(pc)
    BY <1>4, <1>20 DEF At, SavesAt
  <2> HIDE DEF Returning
  <2>3. /\ mem'[e + 2] = R[17] /\ \A a \in Addresses : a # e + 2 => mem'[a] = mem[a]
        /\ SP' = SP - 1 /\ pc' = pc + 1 /\ R' = R /\ ReturningKept(o, e)
    BY Zenon, <1>6, <2>1, <2>2
  <2>3a. mem'[e + 3] = mem[e + 3]
    BY Zenon, <1>1, <2>1, <2>3
  <2>4. Bytes(mem'[e + 3], mem'[e + 2], R'[16]) = b + 13
    BY Zenon, <2>1, <2>3, <2>3a
  <2>5. Returning(b, e)' /\ pc # b + 14
    BY SMT, <1>20, <2>1, <2>3, <2>4 DEF Returning
  <2> QED BY Zenon, <2>3, <2>5
<1>21. CASE pc = b + 11
  <2>1. SP = e + 1 /\ 1 \in 1..3 /\ Bytes(mem[e + 3], mem[e + 2], R[16]) = b + 13 /\ e + 3 # e + 1 /\ e + 2 # e + 1
    BY SMT, <1>21
  <2>2. At(pc, <<"push", 16>>) /\ ~SavesAt(pc)
    BY <1>4, <1>21 DEF At, SavesAt
  <2> HIDE DEF Returning
  <2>3. /\ mem'[e + 1] = R[16] /\ \A a \in Addresses : a # e + 1 => mem'[a] = mem[a]
        /\ SP' = SP - 1 /\ pc' = pc + 1 /\ R' = R /\ ReturningKept(o, e)
    BY Zenon, <1>6, <2>1, <2>2
  <2>3a. mem'[e + 3] = mem[e + 3] /\ mem'[e + 2] = mem[e + 2]
    BY Zenon, <1>1, <2>1, <2>3
  <2>4. PcIn(mem', e) = b + 13
    BY Zenon, <2>1, <2>3, <2>3a DEF PcIn
  <2>5. Returning(b, e)' /\ pc # b + 14
    BY SMT, <1>21, <2>1, <2>3, <2>4 DEF Returning
  <2> QED BY Zenon, <2>3, <2>5
<1>22. CASE pc = b + 12
  <2>1. SP = e /\ PcIn(mem, e) = b + 13
    BY SMT, <1>22
  <2> HIDE DEF Returning
  <2>2. pc' = pc + 2 /\ SP' = SP /\ mem' = mem /\ sreg' = sreg /\ Others /\ left' = left
    BY Zenon, <1>4, <1>22, CpseStep
  <2>3. PcIn(mem', e) = b + 13
    BY Zenon, <2>1, <2>2
  <2>5. Returning(b, e)' /\ pc # b + 14
    BY SMT, <1>22, <2>1, <2>2, <2>3 DEF Returning
  <2> QED BY Zenon, <1>5, <2>2, <2>5
<1>23. CASE pc = b + 14
  <2>1. SP = e /\ PcIn(mem, e) = b + 13
    BY SMT, <1>23
  <2> HIDE DEF Returning
  <2>2. pc' = pc + 1 /\ SP' = SP /\ mem' = mem /\ sreg' = sreg /\ Others /\ left' = left
    BY Zenon, <1>4, <1>23, NopStep
  <2>3. pc + 1 = b + 15
    BY SMT, <1>23
  <2> QED BY Zenon, <1>5, <1>23, <2>1, <2>2, <2>3
<1>30. \/ pc = b \/ pc = b + 1 \/ pc = b + 2 \/ pc = b + 3 \/ pc = b + 4 \/ pc = b + 5 \/ pc = b + 6
       \/ pc = b + 7 \/ pc = b + 8 \/ pc = b + 9 \/ pc = b + 10 \/ pc = b + 11 \/ pc = b + 12 \/ pc = b + 14
  <2>1. pc \in (b..(b + 12)) \cup {b + 14}
    OBVIOUS
  <2> HIDE DEF Returning
  <2> QED BY SMT, <2>1
<1> HIDE DEF Returning
<1> QED BY Zenon, <1>10, <1>11, <1>12, <1>13, <1>14, <1>15, <1>16, <1>17, <1>18, <1>19, <1>20, <1>21, <1>22,
            <1>23, <1>30

-----------------------------------------------------------------------------
(* The places of SAVE_CONTEXT *)

Sites == {SpawnSave, StartSave, YieldSave, TimerAt}
SwitchAt == {YieldSave, TimerAt}

\* The word that gets the stack pointer after task_sp.
Other(b) == IF b = StartSave THEN scheduler_task_sp ELSE prev_task_sp

\* The four places.
LEMMA SitesAre ==
    /\ SpawnSave \in Int /\ StartSave \in Int /\ YieldSave \in Int /\ TimerAt \in Int
    /\ SpawnSave # StartSave /\ SpawnSave # YieldSave /\ SpawnSave # TimerAt
    /\ StartSave # YieldSave /\ StartSave # TimerAt /\ YieldSave # TimerAt
BY SMT, Layout DEF Apart, SpawnSave, StartSave, YieldSave

\* SAVE_CONTEXT stands at each of them.
LEMMA SiteRuns ==
    ASSUME NEW b \in Sites
    PROVE  /\ b \in Int /\ Runs(b, SAVE_CONTEXT)
           /\ b # SpawnSave => Runs(b + 41, SAVE_SP_TO_ADR(Other(b))) /\ Other(b) \in Words
           /\ b \in SwitchAt => Runs(b, CONTEXT_SWTICH)
<1>1. CASE b = SpawnSave
  BY Zenon, <1>1, SpawnParts, SitesAre DEF SpawnSave, SwitchAt
<1>2. CASE b = StartSave
  <2>1. StartAt + 20 + 41 = StartAt + 61
    BY SMT, Places
  <2> QED BY Zenon, <1>2, <2>1, StartParts, SitesAre DEF StartSave, SwitchAt, Other, Words
<1>3. CASE b \in SwitchAt
  <2>1. Runs(b, CONTEXT_SWTICH) /\ b \in Int /\ b # StartSave
    BY Zenon, <1>3, SiteCode, SitesAre DEF SwitchAt, YieldSave
  <2> QED BY Zenon, <2>1, SwitchParts DEF Other, Words
<1> QED BY Zenon, <1>1, <1>2, <1>3 DEF Sites, SwitchAt

\* What is saved there is where its caller goes on.
LEMMA FollowsJmpAt ==
    FollowsJmp(SpawnSave) /\ FollowsJmp(StartSave) /\ ~FollowsJmp(YieldSave) /\ ~FollowsJmp(TimerAt)
<1>1. FollowsJmp(SpawnSave)
  <2>1. At(SpawnAt + 7 + 12, <<"cpse", 1, 1>>) /\ At(SpawnAt + 7 + 13, <<"jmp", SpawnAt + 77>>)
    <3>1. SpawnAt + 7 \in Int /\ Runs(SpawnAt + 7, SET_RETURN_POINT(SpawnAt + 77))
      BY SMT, Places, SpawnParts
    <3> QED BY Zenon, <3>1, ReturnPointCode
  <2>2. SpawnSave - 3 = SpawnAt + 7 + 12 /\ SpawnSave - 2 = SpawnAt + 7 + 13
    BY SMT, Places DEF SpawnSave
  <2> QED BY SMT, <2>1, <2>2 DEF FollowsJmp, At
<1>2. FollowsJmp(StartSave)
  <2>1. At(StartAt + 5 + 12, <<"cpse", 1, 1>>) /\ At(StartAt + 5 + 13, <<"jmp", StartAt + 68>>)
    <3>1. StartAt + 5 \in Int /\ Runs(StartAt + 5, SET_RETURN_POINT(StartAt + 68))
      BY SMT, Places, StartParts
    <3> QED BY Zenon, <3>1, ReturnPointCode
  <2>2. StartSave - 3 = StartAt + 5 + 12 /\ StartSave - 2 = StartAt + 5 + 13
    BY SMT, Places DEF StartSave
  <2> QED BY SMT, <2>1, <2>2 DEF FollowsJmp, At
<1>3. ASSUME NEW p, p \in SpawnAt + 75..SpawnAt + 77 \/ p \in StartAt + 75..StartAt + 77
                    \/ p \in YieldAt + 117..YieldAt + 119 \/ p \in TimerAt + 116..TimerAt + 117
      PROVE  Code[p][1] # "cpse"
  <2>1. CASE p \in SpawnAt + 75..SpawnAt + 77
    <3>1. p = SpawnAt + 75 \/ p = SpawnAt + 75 + 1 \/ p = SpawnAt + 75 + 2
      BY SMT, <2>1, Places
    <3>2. SpawnAt + 75 \in Int /\ Runs(SpawnAt + 75, << <<"sei">>, <<"c", "fn">>, <<"return">> >>)
      BY SMT, Places, SpawnParts
    <3>3. At(SpawnAt + 75, <<"sei">>) /\ At(SpawnAt + 75 + 1, <<"c", "fn">>) /\ At(SpawnAt + 75 + 2, <<"return">>)
      BY Zenon, <3>2, ThreeCode
    <3> QED BY SMT, <3>1, <3>3 DEF At
  <2>2. CASE p \in StartAt + 75..StartAt + 77
    <3>1. p = StartAt + 75 \/ p = StartAt + 75 + 1 \/ p = StartAt + 75 + 2
      BY SMT, <2>2, Places
    <3>2. StartAt + 75 \in Int /\ Runs(StartAt + 75, << <<"c", "schedule">>, <<"call", YieldAt>>, <<"jmp", StartAt + 67>> >>)
      BY SMT, Places, StartParts
    <3>3. At(StartAt + 75, <<"c", "schedule">>) /\ At(StartAt + 75 + 1, <<"call", YieldAt>>)
          /\ At(StartAt + 75 + 2, <<"jmp", StartAt + 67>>)
      BY Zenon, <3>2, ThreeCode
    <3> QED BY SMT, <3>1, <3>3 DEF At
  <2>3. CASE p \in YieldAt + 117..YieldAt + 119
    <3>1. p = YieldAt + 1 + 112 + 4 \/ p = YieldAt + 118 \/ p = YieldAt + 119
      BY SMT, <2>3, Places
    <3>2. At(YieldAt + 1 + 112 + 4, <<"pop", 16>>)
      <4>1. YieldAt + 1 \in Int /\ YieldAt + 1 + 112 \in Int
        BY SMT, Places
      <4>2. Runs(YieldAt + 1 + 112, SetMt("ori"))
        BY Zenon, <4>1, SiteCode, SwitchParts DEF SCILENT_ENABLE_MT
      <4> QED BY Zenon, <4>1, <4>2, SetMtCode
    <3> QED BY SMT, <3>1, <3>2, SiteCode DEF At
  <2>4. CASE p \in TimerAt + 116..TimerAt + 117
    <3>1. p = TimerAt + 112 + 4 \/ p = TimerAt + 117
      BY SMT, <2>4, Places
    <3>2. At(TimerAt + 112 + 4, <<"pop", 16>>)
      <4>1. TimerAt \in Int /\ TimerAt + 112 \in Int
        BY SMT, Places
      <4>2. Runs(TimerAt + 112, SetMt("ori"))
        BY Zenon, <4>1, SiteCode, SwitchParts DEF SCILENT_ENABLE_MT
      <4> QED BY Zenon, <4>1, <4>2, SetMtCode
    <3> QED BY SMT, <3>1, <3>2, SiteCode DEF At
  <2> QED BY Zenon, <1>3, <2>1, <2>2, <2>3, <2>4
<1>4. ~FollowsJmp(YieldSave)
  <2> SUFFICES ASSUME FollowsJmp(YieldSave) PROVE FALSE
    OBVIOUS
  <2>1. YieldSave - 3 \in DOMAIN Code /\ Code[YieldSave - 3][1] = "cpse" /\ YieldSave - 3 = YieldAt - 2
    BY SMT, Places DEF FollowsJmp, YieldSave
  <2>2. YieldAt - 2 \in SpawnAt..(SpawnAt + 77) \/ YieldAt - 2 \in StartAt..(StartAt + 77)
        \/ YieldAt - 2 \in YieldAt..(YieldAt + 119) \/ YieldAt - 2 \in TimerAt..(TimerAt + 117)
    BY SMT, <2>1, CodeIs
  <2>3. YieldAt - 2 \in SpawnAt + 75..SpawnAt + 77 \/ YieldAt - 2 \in StartAt + 75..StartAt + 77
        \/ YieldAt - 2 \in TimerAt + 116..TimerAt + 117
    BY SMT, <2>2, Layout DEF Apart
  <2> QED BY Zenon, <1>3, <2>1, <2>3
<1>5. ~FollowsJmp(TimerAt)
  <2> SUFFICES ASSUME FollowsJmp(TimerAt) PROVE FALSE
    OBVIOUS
  <2>1. TimerAt - 3 \in DOMAIN Code /\ Code[TimerAt - 3][1] = "cpse"
    BY Zenon DEF FollowsJmp
  <2>2. TimerAt - 3 \in SpawnAt..(SpawnAt + 77) \/ TimerAt - 3 \in StartAt..(StartAt + 77)
        \/ TimerAt - 3 \in YieldAt..(YieldAt + 119) \/ TimerAt - 3 \in TimerAt..(TimerAt + 117)
    BY Zenon, <2>1, CodeIs
  <2>3. TimerAt - 3 \in SpawnAt + 75..SpawnAt + 77 \/ TimerAt - 3 \in StartAt + 75..StartAt + 77
        \/ TimerAt - 3 \in YieldAt + 117..YieldAt + 119
    BY SMT, <2>2, Layout DEF Apart
  <2> QED BY Zenon, <1>3, <2>1, <2>3
<1> QED BY Zenon, <1>1, <1>2, <1>4, <1>5

\* Where SAVE_CONTEXT stands at b, on o's stack, for a context at sp.
SaveWorld(b, o, sp, m, l, s, a) ==
    \/ b = SpawnSave /\ o = Idle /\ SpawnWorld(m, l, s, a) /\ PcIn(m, sp + 33) = SpawnJmp
    \/ b = StartSave /\ o = Scheduler /\ sp = scheduler_sp /\ BootWorld(m, l, s, a) /\ PcIn(m, sp + 33) = StartJmp
    \/ b \in SwitchAt /\ o = a /\ TaskWorld(m, l, s, o)
    \/ b = YieldSave /\ o = Scheduler /\ ChosenWorld(m, l, s, a, sp + context) /\ PcIn(m, sp + 33) = StartAt + 77
\* Where it stands, and what is on the stack: the return address above the context.
Site(b, o, sp, m, l, s, a) ==
    /\ b \in Sites /\ o \in Owners /\ sp \in Contexts(o)
    /\ RetPoint(m, o, sp + 33)
    /\ SaveWorld(b, o, sp, m, l, s, a)

\* A step that keeps the stack above and the worlds keeps that.
LEMMA SiteKept ==
    ASSUME NEW m, NEW n, NEW l, NEW k, NEW b, NEW o, NEW sp, NEW s, NEW a, Site(b, o, sp, m, l, s, a),
           NEW e \in Int, e =< sp + 33, Kept(m, n, l, k, o, e),
           b # StartSave => WordKept(m, n, scheduler_task_sp) /\ WordKept(m, n, next_task_sp)
    PROVE  Site(b, o, sp, n, k, s, a)
<1>1. b \in Sites /\ o \in Owners /\ sp \in Contexts(o) /\ RetPoint(m, o, sp + 33) /\ SaveWorld(b, o, sp, m, l, s, a)
  BY Zenon DEF Site
<1>2. /\ sp \in Int /\ sp + 33 \in Int /\ sp + 33 + 3 =< Top(o) /\ sp + 33 >= Top(o) - 81
  BY Zenon, <1>1, ContextBounds
<1>3. StackKept(m, n, o, e)
  BY Zenon, <1>1, SameInt, OneKept DEF Kept
<1> DEFINE r == sp + 33
<1>4. r \in Int /\ e =< r /\ r >= Top(o) - 81 /\ r + 3 =< Top(o) /\ RetPoint(m, o, r)
  BY Zenon, <1>1, <1>2
<1> HIDE DEF r
<1>5. PcIn(n, r) = PcIn(m, r) /\ RetPoint(n, o, r)
  <2>1. PcIn(n, r) = PcIn(m, r)
    BY SMT, <1>1, <1>3, <1>4, PcKept
  <2>2. RetPoint(n, o, r)
    BY Zenon, <1>1, <1>3, <1>4, RetPointKept
  <2> QED BY Zenon, <2>1, <2>2
<1>6. PcIn(n, sp + 33) = PcIn(m, sp + 33) /\ RetPoint(n, o, sp + 33)
  BY Zenon, <1>5 DEF r
<1>7. CASE b = SpawnSave /\ o = Idle /\ SpawnWorld(m, l, s, a) /\ PcIn(m, sp + 33) = SpawnJmp
  <2>1. SpawnWorld(n, k, s, a)
    BY Zenon, <1>7, SitesAre, SpawnWorldKept
  <2> QED BY Zenon, <1>1, <1>6, <1>7, <2>1 DEF Site, SaveWorld
<1>8. CASE b = StartSave /\ o = Scheduler /\ sp = scheduler_sp /\ BootWorld(m, l, s, a) /\ PcIn(m, sp + 33) = StartJmp
  <2>1. BootWorld(n, k, s, a)
    BY Zenon, <1>8, BootWorldKept
  <2> QED BY Zenon, <1>1, <1>6, <1>8, <2>1 DEF Site, SaveWorld
<1>9. CASE b \in SwitchAt /\ o = a /\ TaskWorld(m, l, s, o)
  <2>0. b # StartSave
    BY Zenon, <1>9, SitesAre DEF SwitchAt
  <2>1. TaskWorld(n, k, s, o)
    BY Zenon, <1>1, <1>9, <2>0, TaskWorldKept
  <2> QED BY Zenon, <1>1, <1>6, <1>9, <2>1 DEF Site, SaveWorld
<1>10. CASE b = YieldSave /\ o = Scheduler /\ ChosenWorld(m, l, s, a, sp + context) /\ PcIn(m, sp + 33) = StartAt + 77
  <2>0. b # StartSave
    BY Zenon, <1>10, SitesAre
  <2>1. e =< sp + context /\ e < sp + context
    BY SMT, <1>2 DEF context
  <2> DEFINE q == sp + context
  <2>2. ChosenWorld(m, l, s, a, q) /\ e =< q /\ e < q
    BY Zenon, <1>10, <2>1
  <2> HIDE DEF q
  <2>3. ChosenWorld(n, k, s, a, q)
    BY Zenon, <1>10, <2>0, <2>2, ChosenWorldKept
  <2> QED BY Zenon, <1>1, <1>6, <1>10, <2>3 DEF Site, SaveWorld, q
<1> QED BY Zenon, <1>1, <1>7, <1>8, <1>9, <1>10 DEF SaveWorld

-----------------------------------------------------------------------------
(* SAVE_CONTEXT *)

\* Only start_scheduler may save with the I flag set.
FlagLow(b) == b # StartSave => sreg < 128

\* What SAVE_CONTEXT at b has pushed is left[sp]'s, and so is what it has not pushed yet.
InFrame(b, sp) ==
    /\ mem[sp + 33] = left[sp].R[0]
    /\ pc = b + 1 => sreg = left[sp].sreg
    /\ pc = b + 2 => R[0] = left[sp].sreg
    /\ pc > b + 2 => mem[sp + 32] = left[sp].sreg
    /\ IF pc > b + 3 THEN mem[sp + 31] = left[sp].R[1] ELSE R[1] = left[sp].R[1]
    /\ \A k \in 2..31 : IF pc >= b + 4 + k THEN mem[sp + 32 - k] = left[sp].R[k] ELSE R[k] = left[sp].R[k]
\* Where SP is as the context grows,
SavingSp(b, sp) ==
    /\ pc = b => SP = sp + 33
    /\ pc \in (b + 1)..(b + 2) => SP = sp + 32
    /\ pc = b + 3 => SP = sp + 31
    /\ pc = b + 4 => SP = sp + 30
    /\ pc > b + 4 => SP = sp + 35 - (pc - b)
\* and what the stack holds.
Saving(b, o, sp) ==
    /\ pc \in b..(b + 34)
    /\ SavingSp(b, sp)
    /\ FlagLow(b)
    /\ Site(b, o, sp, mem, left, task_sp_adr, active)
    /\ pc # b => HoldsAbove(mem, left, o, sp) /\ InFrame(b, sp)
    /\ pc > b + 4 => R[1] = 0

\* At a Site whose context is whole.
Saved(b, o, sp) ==
    /\ FlagLow(b)
    /\ Site(b, o, sp, mem, left, task_sp_adr, active)
    /\ Frame(mem, left, o, sp)
    /\ R[1] = 0
\* The stack pointer is stored, to task_sp and to the other word.
StoringTaskSp(b, o, sp) == StoringSp(b + 35, task_sp, sp) /\ Saved(b, o, sp)
StoringOther(b, o, sp) == b # SpawnSave /\ StoringSp(b + 41, Other(b), sp) /\ Saved(b, o, sp)

\* A byte pushed on o's stack, below the return address.
LEMMA SavingPush ==
    ASSUME TypeInv, Execute, NEW b, NEW o, NEW sp, Saving(b, o, sp), pc # b,
           NEW d, At(pc, <<"push", d>>), ~SavesAt(pc), NEW a, SP = a, a \in Stack(o), a =< sp + 32
    PROVE  /\ mem'[a] = R[d] /\ \A x \in Addresses : x # a => mem'[x] = mem[x]
           /\ SP' = a - 1 /\ pc' = pc + 1 /\ R' = R /\ sreg' = sreg /\ left' = left
           /\ HoldsAbove(mem', left', o, sp)
           /\ Site(b, o, sp, mem', left', task_sp_adr', active')
<1>1. mem \in Memory /\ Site(b, o, sp, mem, left, task_sp_adr, active) /\ HoldsAbove(mem, left, o, sp)
  BY Zenon DEF TypeInv, MachineType, Saving
<1>2. o \in Owners /\ sp \in Contexts(o) /\ a \in Addresses
  BY Zenon, <1>1, StackAddresses DEF Site
<1>3. sp \in Int /\ sp + 32 \in Int /\ sp + 32 =< sp + 33
  BY SMT, <1>2, ContextBounds
<1>4. /\ mem' = [mem EXCEPT ![a] = R[d]]
      /\ SP' = SP - 1 /\ pc' = pc + 1 /\ R' = R /\ sreg' = sreg /\ Others /\ left' = left
  BY Zenon, <1>2, PushStep
<1>5. mem'[a] = R[d] /\ \A x \in Addresses : x # a => mem'[x] = mem[x]
  BY SMT, <1>1, <1>2, <1>4 DEF Memory
<1>6. StacksKept(mem, mem', o, sp + 32) /\ WordsKept(mem, mem')
  BY Zenon, <1>1, <1>2, <1>3, <1>4, StackStore
<1>7. HoldsAbove(mem', left', o, sp)
  <2>1. StackKept(mem, mem', o, sp + 32)
    BY Zenon, <1>2, <1>3, <1>6, SameInt, OneKept
  <2>2. sp \in DOMAIN left
    BY Zenon, <1>1 DEF HoldsAbove
  <2>3. HoldsAbove(mem', left, o, sp)
    BY Zenon, <1>1, <1>2, <1>3, <2>1, <2>2, HoldsAboveKept
  <2> QED BY Zenon, <1>4, <2>3
<1>8. Site(b, o, sp, mem', left', task_sp_adr', active')
  <2>1. Kept(mem, mem', left, left, o, sp + 32)
    BY Zenon, <1>6 DEF Kept
  <2>2. WordKept(mem, mem', scheduler_task_sp) /\ WordKept(mem, mem', next_task_sp)
    BY Zenon, <1>6 DEF WordsKept, Words
  <2>3. Site(b, o, sp, mem', left, task_sp_adr, active)
    BY Zenon, <1>1, <1>3, <2>1, <2>2, SiteKept
  <2> QED BY Zenon, <1>4, <2>3 DEF Others
<1> QED BY Zenon, <1>4, <1>5, <1>7, <1>8

\* Addresses within a context.
LEMMA SavingPlaces ==
    ASSUME NEW o \in Owners, NEW sp \in Contexts(o)
    PROVE  /\ sp \in Int /\ sp \in Stack(o) /\ sp + 30 \in Stack(o) /\ sp + 31 \in Stack(o)
           /\ sp + 32 \in Stack(o) /\ sp + 33 \in Stack(o)
           /\ \A j \in 5..34 : sp + 35 - j \in Stack(o)
           /\ \A k \in 1..31 : sp + 32 - k \in Addresses
           /\ sp + 32 \in Addresses /\ sp + 33 \in Addresses
<1>1. sp \in Int /\ sp \in Stack(o) /\ \A k \in 0..36 : sp + k \in Stack(o)
  BY Zenon, ContextBounds, ContextIn
<1>2. \A j \in 5..34 : sp + 35 - j = sp + (35 - j) /\ 35 - j \in 0..36
  BY SMT, <1>1
<1>3. \A k \in 1..31 : sp + 32 - k = sp + (32 - k) /\ 32 - k \in 0..36
  BY SMT, <1>1
<1>4. 30 \in 0..36 /\ 31 \in 0..36 /\ 32 \in 0..36 /\ 33 \in 0..36
  BY SMT
<1> QED BY Zenon, <1>1, <1>2, <1>3, <1>4, StackAddresses

\* Where to go on, as SAVE_CONTEXT at a site has it to preserve.
LEMMA SavedPcIs ==
    ASSUME NEW b, NEW o, NEW sp, Site(b, o, sp, mem, left, task_sp_adr, active), pc = b, SP = sp + 33
    PROVE  ToPreserve.pc = PcIn(mem, sp + 33)
<1>1. ToPreserve.pc = IF FollowsJmp(b) THEN b - 2 ELSE PcIn(mem, sp + 33)
  <2>1. ToPreserve.pc = IF FollowsJmp(pc) THEN pc - 2 ELSE PcAbove(SP)
    BY SMT DEF ToPreserve
  <2>2. PcAbove(SP) = PcIn(mem, SP)
    BY Zenon DEF PcAbove, PcIn, Bytes
  <2> QED BY Zenon, <2>1, <2>2
<1>2. SaveWorld(b, o, sp, mem, left, task_sp_adr, active)
  BY Zenon DEF Site
<1>3. SpawnSave - 2 = SpawnJmp /\ StartSave - 2 = StartJmp
  BY SMT, Places DEF SpawnSave, SpawnJmp, StartSave, StartJmp
<1>4. CASE b = SpawnSave
  <2>1. PcIn(mem, sp + 33) = SpawnJmp
    BY Zenon, <1>2, <1>4, SitesAre DEF SaveWorld, SwitchAt
  <2> QED BY SMT, <1>1, <1>3, <1>4, <2>1, FollowsJmpAt
<1>5. CASE b = StartSave
  <2>1. PcIn(mem, sp + 33) = StartJmp
    BY Zenon, <1>2, <1>5, SitesAre DEF SaveWorld, SwitchAt
  <2> QED BY SMT, <1>1, <1>3, <1>5, <2>1, FollowsJmpAt
<1>6. CASE b \in SwitchAt
  <2>1. ~FollowsJmp(b)
    BY Zenon, <1>6, FollowsJmpAt DEF SwitchAt
  <2> QED BY Zenon, <1>1, <2>1
<1> QED BY Zenon, <1>2, <1>4, <1>5, <1>6 DEF SaveWorld, SwitchAt

LeftType == \A a \in DOMAIN left : a \in Int

\* What WithSaved adds, and what it keeps.
LEMMA WithSavedIs ==
    ASSUME LeftType, NEW o \in Owners, NEW sp \in Contexts(o), SP = sp + 33
    PROVE  /\ sp \in DOMAIN WithSaved /\ WithSaved[sp] = ToPreserve
           /\ LeftKept(left, WithSaved, o, sp + 33)
           /\ Owner(SP) = o
<1>1. sp \in Int /\ SP - register_bytes = sp
  BY SMT, ContextBounds DEF register_bytes
<1>2. sp \in (Top(o) - 200)..Top(o) /\ SP \in (Top(o) - 200)..Top(o)
  BY SMT, ContextBounds
<1>3. Owner(sp) = o /\ Owner(SP) = o
  BY Zenon, <1>2, OwnerIs
<1> DEFINE kept == {a \in DOMAIN left : Owner(a) = o => a > sp}
<1>4. WithSaved = [a \in kept \cup {sp} |-> IF a = sp THEN ToPreserve ELSE left[a]]
  BY Zenon, <1>1, <1>3 DEF WithSaved
<1> HIDE DEF kept
<1>5. sp \in DOMAIN WithSaved /\ WithSaved[sp] = ToPreserve
  BY Zenon, <1>4
<1>6. ASSUME NEW a \in DOMAIN left, Owner(a) = o => a > sp + 33
      PROVE  a \in DOMAIN WithSaved /\ WithSaved[a] = left[a]
  <2>1. Owner(a) = o => a > sp /\ a # sp
    BY SMT, <1>1, <1>6 DEF LeftType
  <2>2. a \in kept /\ a # sp
    BY Zenon, <1>3, <2>1 DEF kept
  <2> QED BY Zenon, <1>4, <2>2
<1> QED BY Zenon, <1>3, <1>5, <1>6 DEF LeftKept

\* The first push records what is to be preserved.
LEMMA SavingFirst ==
    ASSUME TypeInv, LeftType, Execute, NEW b, NEW o, NEW sp, Saving(b, o, sp), pc = b
    PROVE  Saving(b, o, sp)' /\ Others /\ sreg' = sreg
<1>1. /\ mem \in Memory /\ R \in RegisterTypes /\ sreg \in Byte /\ SP = sp + 33
      /\ Site(b, o, sp, mem, left, task_sp_adr, active) /\ FlagLow(b)
  BY Zenon DEF TypeInv, MachineType, Saving, SavingSp
<1>2. b \in Sites /\ o \in Owners /\ sp \in Contexts(o) /\ SaveWorld(b, o, sp, mem, left, task_sp_adr, active)
  BY Zenon, <1>1 DEF Site
<1>3. b \in Int /\ At(b, <<"push", 0>>) /\ At(b + 1, <<"in_sreg", 0>>)
  BY Zenon, <1>2, SiteRuns, SaveContextCode
<1>4. SavesAt(pc)
  BY SMT, <1>3 DEF SavesAt, At
<1>5. sp \in Int /\ SP \in Stack(o) /\ SP \in Addresses
  BY Zenon, <1>1, <1>2, SavingPlaces
<1>6. /\ mem' = [mem EXCEPT ![SP] = R[0]]
      /\ SP' = SP - 1 /\ pc' = pc + 1 /\ R' = R /\ sreg' = sreg /\ Others /\ left' = WithSaved
  BY Zenon, <1>3, <1>4, <1>5, PushStep
<1>7. mem'[SP] = R[0] /\ \A x \in Addresses : x # SP => mem'[x] = mem[x]
  BY SMT, <1>1, <1>5, <1>6 DEF Memory
<1>8. sp \in DOMAIN left' /\ left'[sp] = ToPreserve /\ LeftKept(left, left', o, sp + 33) /\ Owner(SP) = o
  BY Zenon, <1>1, <1>2, <1>6, WithSavedIs
<1>9. sp + 33 \in Int /\ sp + 33 =< sp + 33 /\ SP =< sp + 33 /\ SP \in Int
  BY SMT, <1>1, <1>5
<1>10. StacksKept(mem, mem', o, sp + 33) /\ WordsKept(mem, mem')
  BY Zenon, <1>1, <1>2, <1>5, <1>6, <1>9, StackStore
<1>11. Site(b, o, sp, mem', left', task_sp_adr', active')
  <2>1. Kept(mem, mem', left, left', o, sp + 33)
    BY Zenon, <1>8, <1>10 DEF Kept
  <2>2. WordKept(mem, mem', scheduler_task_sp) /\ WordKept(mem, mem', next_task_sp)
    BY Zenon, <1>10 DEF WordsKept, Words
  <2>3. Site(b, o, sp, mem', left', task_sp_adr, active)
    BY Zenon, <1>1, <1>9, <2>1, <2>2, SiteKept
  <2> QED BY Zenon, <1>6, <2>3 DEF Others
<1>12. HoldsAbove(mem', left', o, sp)
  <2>1. ToPreserve.R = R /\ ToPreserve.sreg = sreg /\ ToPreserve.sp = SP + 3
        /\ ToPreserve.stack = [a \in {a \in Stack(o) : a > SP + 3} |-> mem[a]]
    BY SMT, <1>8 DEF ToPreserve
  <2>2. o # Scheduler => sreg < 128
    BY Zenon, <1>1, <1>2, SitesAre DEF FlagLow, SaveWorld, SwitchAt
  <2>3. SP + 3 = sp + context
    BY SMT, <1>1, <1>5 DEF context
  <2>4. ToPreserve.pc = PcIn(mem', sp + register_bytes)
    <3>1. ToPreserve.pc = PcIn(mem, SP)
      BY Zenon, <1>1, SavedPcIs
    <3>2. StackKept(mem, mem', o, SP)
      BY Zenon, <1>1, <1>2, <1>9, <1>10, OneKept
    <3>3. SP >= Top(o) - 81 /\ SP + 3 =< Top(o) /\ SP =< SP
      BY SMT, <1>1, <1>2, <1>9, ContextBounds
    <3>4. PcIn(mem', SP) = PcIn(mem, SP)
      BY SMT, <1>2, <1>9, <3>2, <3>3, PcKept
    <3> QED BY Zenon, <1>1, <3>1, <3>4 DEF register_bytes
  <2>5. ASSUME NEW a \in DOMAIN ToPreserve.stack
        PROVE  a \in Stack(o) /\ a > sp + context /\ mem'[a] = ToPreserve.stack[a]
    <3>1. a \in Stack(o) /\ a > SP + 3 /\ ToPreserve.stack[a] = mem[a]
      BY Zenon, <2>1
    <3>2. a \in Addresses /\ a # SP
      <4>1. a \in Addresses /\ a \in Int
        BY Zenon, <1>2, <3>1, StackAddresses, AfterAddress
      <4> QED BY SMT, <3>1, <4>1, <1>9
    <3> QED BY Zenon, <1>7, <2>3, <3>1, <3>2
  <2> QED BY Zenon, <1>1, <1>8, <2>1, <2>2, <2>3, <2>4, <2>5 DEF HoldsAbove
<1>13. InFrame(b, sp)'
  <2>1. ToPreserve.R = R /\ ToPreserve.sreg = sreg
    BY SMT DEF ToPreserve
  <2>2. left'[sp].R = R /\ left'[sp].sreg = sreg
    BY Zenon, <1>8, <2>1
  <2>3. pc' = b + 1 /\ mem'[sp + 33] = R[0]
    BY Zenon, <1>1, <1>6, <1>7
  <2> QED BY SMT, <1>3, <1>6, <2>2, <2>3 DEF InFrame
<1>14. SavingSp(b, sp)' /\ (pc \in b..(b + 34))' /\ ~(pc > b + 4)'
  BY SMT, <1>1, <1>3, <1>5, <1>6 DEF SavingSp
<1>15. FlagLow(b)'
  BY Zenon, <1>1, <1>6 DEF FlagLow
<1> QED
  BY Zenon, <1>6, <1>11, <1>12, <1>13, <1>14, <1>15 DEF Saving

\* What a step of SAVE_CONTEXT that pushes nothing leaves.
LEMMA SavingSame ==
    ASSUME NEW b, NEW o, NEW sp, Saving(b, o, sp), pc # b, mem' = mem, left' = left, Others
    PROVE  HoldsAbove(mem', left', o, sp) /\ Site(b, o, sp, mem', left', task_sp_adr', active')
<1>1. Site(b, o, sp, mem, left, task_sp_adr, active) /\ HoldsAbove(mem, left, o, sp)
  BY Zenon DEF Saving
<1> QED BY Zenon, <1>1 DEF Others

\* The instructions of SAVE_CONTEXT.
LEMMA SavingCode ==
    ASSUME NEW b, NEW o, NEW sp, Saving(b, o, sp)
    PROVE  /\ b \in Sites /\ b \in Int /\ o \in Owners /\ sp \in Contexts(o) /\ RetPoint(mem, o, sp + 33)
           /\ At(b + 1, <<"in_sreg", 0>>) /\ At(b + 2, <<"push", 0>>)
           /\ At(b + 3, <<"push", 1>>) /\ At(b + 4, <<"clr", 1>>)
           /\ \A j \in 5..34 : At(b + j, <<"push", j - 3>>)
           /\ At(b + 35, <<"ldi", 26, lo8(task_sp)>>)
<1>1. b \in Sites /\ o \in Owners /\ sp \in Contexts(o) /\ RetPoint(mem, o, sp + 33)
  BY Zenon DEF Saving, Site
<1>2. b \in Int /\ Runs(b, SAVE_CONTEXT)
  BY Zenon, <1>1, SiteRuns
<1>3. /\ At(b + 1, <<"in_sreg", 0>>) /\ At(b + 2, <<"push", 0>>)
      /\ At(b + 3, <<"push", 1>>) /\ At(b + 4, <<"clr", 1>>)
      /\ \A j \in 5..34 : At(b + j, <<"push", j - 3>>)
      /\ Runs(b + 35, SAVE_SP_TO_ADR(task_sp))
  BY Zenon, <1>2, SaveContextCode
<1>4. b + 35 \in Int
  BY SMT, <1>2
<1>5. At(b + 35, <<"ldi", 26, lo8(task_sp)>>)
  BY Zenon, <1>3, <1>4, StoreSpCode
<1> QED BY Zenon, <1>1, <1>2, <1>3, <1>5

\* SREG is read before anything changes it.
LEMMA SavingSreg ==
    ASSUME TypeInv, Execute, NEW b, NEW o, NEW sp, Saving(b, o, sp), pc = b + 1
    PROVE  Saving(b, o, sp)' /\ Others /\ sreg' = sreg
<1>1. b \in Int /\ o \in Owners /\ sp \in Contexts(o) /\ sp \in Int /\ pc # b /\ At(pc, <<"in_sreg", 0>>)
  <2>1. b \in Int /\ o \in Owners /\ sp \in Contexts(o) /\ At(pc, <<"in_sreg", 0>>)
    BY Zenon, SavingCode
  <2>2. pc # b
    BY SMT, <2>1
  <2> QED BY Zenon, <2>1, <2>2, ContextBounds
<1>2. /\ R' = [R EXCEPT ![0] = sreg]
      /\ pc' = pc + 1 /\ SP' = SP /\ mem' = mem /\ sreg' = sreg /\ Others /\ left' = left
  BY Zenon, <1>1, InSregStep
<1>3. HoldsAbove(mem', left', o, sp) /\ Site(b, o, sp, mem', left', task_sp_adr', active')
  BY Zenon, <1>1, <1>2, SavingSame
<1>4. R \in RegisterTypes /\ InFrame(b, sp) /\ SavingSp(b, sp) /\ FlagLow(b)
  BY Zenon, <1>1 DEF TypeInv, MachineType, Saving
<1>5. R'[0] = sreg /\ \A k \in 1..31 : R'[k] = R[k]
  BY SMT, <1>2, <1>4 DEF RegisterTypes
<1>6. InFrame(b, sp)'
  BY SMT, <1>1, <1>2, <1>4, <1>5 DEF InFrame
<1>7. SavingSp(b, sp)' /\ (pc \in b..(b + 34))' /\ ~(pc > b + 4)'
  BY SMT, <1>1, <1>2, <1>4 DEF SavingSp
<1>8. FlagLow(b)'
  BY Zenon, <1>2, <1>4 DEF FlagLow
<1> QED BY Zenon, <1>2, <1>3, <1>6, <1>7, <1>8 DEF Saving

\* r1 is cleared once it is saved.
LEMMA SavingClr ==
    ASSUME TypeInv, Execute, NEW b, NEW o, NEW sp, Saving(b, o, sp), pc = b + 4
    PROVE  Saving(b, o, sp)' /\ Others
<1>1. b \in Int /\ o \in Owners /\ sp \in Contexts(o) /\ sp \in Int /\ pc # b /\ At(pc, <<"clr", 1>>)
  <2>1. b \in Int /\ o \in Owners /\ sp \in Contexts(o) /\ At(pc, <<"clr", 1>>)
    BY Zenon, SavingCode
  <2>2. pc # b
    BY SMT, <2>1
  <2> QED BY Zenon, <2>1, <2>2, ContextBounds
<1>2. /\ R' = [R EXCEPT ![1] = 0] /\ sreg' = LogicFlags(0)
      /\ pc' = pc + 1 /\ SP' = SP /\ mem' = mem /\ Others /\ left' = left
  BY Zenon, <1>1, ClrStep
<1>3. HoldsAbove(mem', left', o, sp) /\ Site(b, o, sp, mem', left', task_sp_adr', active')
  BY Zenon, <1>1, <1>2, SavingSame
<1>4. R \in RegisterTypes /\ sreg \in Byte /\ InFrame(b, sp) /\ SavingSp(b, sp) /\ FlagLow(b)
  BY Zenon, <1>1 DEF TypeInv, MachineType, Saving
<1>5. R'[1] = 0 /\ \A k \in 2..31 : R'[k] = R[k]
  BY SMT, <1>2, <1>4 DEF RegisterTypes
<1>6. InFrame(b, sp)'
  BY SMT, <1>1, <1>2, <1>4, <1>5 DEF InFrame
<1>7. SavingSp(b, sp)' /\ (pc \in b..(b + 34))'
  BY SMT, <1>1, <1>2, <1>4 DEF SavingSp
<1>8. FlagLow(b)'
  <2>1. sreg' < 128 <=> sreg < 128
    BY Zenon, <1>2, <1>4, LogicFlagsKeep
  <2> QED BY Zenon, <1>4, <2>1 DEF FlagLow
<1> QED BY Zenon, <1>2, <1>3, <1>5, <1>6, <1>7, <1>8 DEF Saving

\* The instruction after a push of SAVE_CONTEXT but the first does not read SREG.
LEMMA SavingNot ==
    ASSUME NEW b, NEW o, NEW sp, Saving(b, o, sp), pc = b + 2 \/ pc = b + 3 \/ pc \in (b + 5)..(b + 34)
    PROVE  ~SavesAt(pc)
<1>1. /\ b \in Int /\ At(b + 3, <<"push", 1>>) /\ At(b + 4, <<"clr", 1>>)
      /\ \A j \in 5..34 : At(b + j, <<"push", j - 3>>)
      /\ At(b + 35, <<"ldi", 26, lo8(task_sp)>>)
  BY Zenon, SavingCode
<1>2. CASE pc = b + 2 \/ pc = b + 3
  BY SMT, <1>1, <1>2 DEF SavesAt, At
<1>3. CASE pc \in (b + 5)..(b + 34)
  <2>1. pc + 1 = b + 35 \/ \E j \in 5..34 : pc + 1 = b + j
    <3>1. pc + 1 = b + 35 \/ (pc + 1 - b \in 5..34 /\ pc + 1 = b + (pc + 1 - b))
      BY SMT, <1>1, <1>3
    <3> QED BY Zenon, <3>1
  <2>2. CASE pc + 1 = b + 35
    BY SMT, <1>1, <2>2 DEF SavesAt, At
  <2>3. CASE \E j \in 5..34 : pc + 1 = b + j
    <3>1. PICK j \in 5..34 : pc + 1 = b + j
      BY Zenon, <2>3
    <3>2. At(pc + 1, <<"push", j - 3>>)
      BY Zenon, <1>1, <3>1
    <3> QED BY SMT, <3>2 DEF SavesAt, At
  <2> QED BY Zenon, <2>1, <2>2, <2>3
<1> QED BY Zenon, <1>2, <1>3

\* The registers' bytes are pushed one by one.
LEMMA SavingOn ==
    ASSUME TypeInv, Execute, NEW b, NEW o, NEW sp, Saving(b, o, sp),
           pc = b + 2 \/ pc = b + 3 \/ pc \in (b + 5)..(b + 34)
    PROVE  /\ Others
           /\ IF pc = b + 34 THEN StoringTaskSp(b, o, sp)' ELSE Saving(b, o, sp)'
<1>1. /\ b \in Sites /\ b \in Int /\ o \in Owners /\ sp \in Contexts(o) /\ RetPoint(mem, o, sp + 33)
      /\ At(b + 2, <<"push", 0>>) /\ At(b + 3, <<"push", 1>>)
      /\ \A j \in 5..34 : At(b + j, <<"push", j - 3>>)
  BY Zenon, SavingCode
<1>2. ~SavesAt(pc) /\ pc # b
  <2>1. pc # b
    BY SMT, <1>1
  <2> QED BY Zenon, <2>1, SavingNot
<1>3. /\ sp \in Int /\ sp + 31 \in Stack(o) /\ sp + 32 \in Stack(o)
      /\ \A j \in 5..34 : sp + 35 - j \in Stack(o)
      /\ \A k \in 1..31 : sp + 32 - k \in Addresses
      /\ sp + 32 \in Addresses /\ sp + 33 \in Addresses
  BY Zenon, <1>1, SavingPlaces
<1>4. R \in RegisterTypes /\ InFrame(b, sp) /\ SavingSp(b, sp) /\ FlagLow(b) /\ (pc > b + 4 => R[1] = 0)
  BY Zenon, <1>2 DEF TypeInv, MachineType, Saving
<1>5. \E d, a : /\ At(pc, <<"push", d>>) /\ SP = a /\ a \in Stack(o) /\ a =< sp + 32
               /\ \/ pc = b + 2 /\ d = 0 /\ a = sp + 32
                  \/ pc = b + 3 /\ d = 1 /\ a = sp + 31
                  \/ d = pc - b - 3 /\ a = sp + 35 - (pc - b) /\ pc \in (b + 5)..(b + 34)
  <2>1. CASE pc = b + 2
    <3>1. At(pc, <<"push", 0>>) /\ SP = sp + 32 /\ sp + 32 =< sp + 32
      BY SMT, <1>1, <1>3, <1>4, <2>1 DEF SavingSp
    <3> QED BY Zenon, <1>3, <2>1, <3>1
  <2>2. CASE pc = b + 3
    <3>1. At(pc, <<"push", 1>>) /\ SP = sp + 31 /\ sp + 31 =< sp + 32
      BY SMT, <1>1, <1>3, <1>4, <2>2 DEF SavingSp
    <3> QED BY Zenon, <1>3, <2>2, <3>1
  <2>3. CASE pc \in (b + 5)..(b + 34)
    <3>1. /\ SP = sp + 35 - (pc - b) /\ sp + 35 - (pc - b) =< sp + 32
          /\ pc - b \in 5..34 /\ pc = b + (pc - b) /\ pc - b - 3 = (pc - b) - 3
      BY SMT, <1>1, <1>3, <1>4, <2>3 DEF SavingSp
    <3> DEFINE j == pc - b
    <3>2. j \in 5..34 /\ pc = b + j /\ SP = sp + 35 - j /\ sp + 35 - j =< sp + 32 /\ pc - b - 3 = j - 3
      BY Zenon, <3>1
    <3> HIDE DEF j
    <3>3. At(pc, <<"push", j - 3>>) /\ sp + 35 - j \in Stack(o)
      BY Zenon, <1>1, <1>3, <3>2
    <3>4. sp + 35 - j = sp + 35 - (pc - b)
      BY Zenon DEF j
    <3> QED BY Zenon, <2>3, <3>2, <3>3, <3>4
  <2> QED BY Zenon, <2>1, <2>2, <2>3
<1>6. PICK d, a : /\ At(pc, <<"push", d>>) /\ SP = a /\ a \in Stack(o) /\ a =< sp + 32
                  /\ \/ pc = b + 2 /\ d = 0 /\ a = sp + 32
                     \/ pc = b + 3 /\ d = 1 /\ a = sp + 31
                     \/ d = pc - b - 3 /\ a = sp + 35 - (pc - b) /\ pc \in (b + 5)..(b + 34)
  BY Zenon, <1>5
<1>7. /\ mem'[a] = R[d] /\ \A x \in Addresses : x # a => mem'[x] = mem[x]
      /\ SP' = a - 1 /\ pc' = pc + 1 /\ R' = R /\ sreg' = sreg /\ left' = left
      /\ HoldsAbove(mem', left', o, sp)
      /\ Site(b, o, sp, mem', left', task_sp_adr', active')
  BY Zenon, <1>2, <1>6, SavingPush
<1>8. Others
  <2>1. SP \in Addresses
    BY Zenon, <1>1, <1>6, StackAddresses
  <2> QED BY Zenon, <1>6, <2>1, PushStep
<1>9. InFrame(b, sp)'
  <2>1. CASE pc = b + 2
    <3>1. d = 0 /\ a = sp + 32
      BY SMT, <1>1, <1>6, <2>1
    <3> QED BY SMT, <1>1, <1>3, <1>4, <1>7, <2>1, <3>1 DEF InFrame
  <2>2. CASE pc = b + 3
    <3>1. d = 1 /\ a = sp + 31
      BY SMT, <1>1, <1>6, <2>2
    <3> QED BY SMT, <1>1, <1>3, <1>4, <1>7, <2>2, <3>1 DEF InFrame
  <2>3. CASE pc \in (b + 5)..(b + 34)
    <3>1. d = pc - b - 3 /\ a = sp + 35 - (pc - b)
      BY SMT, <1>1, <1>6, <2>3
    <3>2. /\ mem'[sp + 33] = mem[sp + 33] /\ mem'[sp + 32] = mem[sp + 32] /\ mem'[sp + 31] = mem[sp + 31]
          /\ \A k \in 2..31 : k # d => mem'[sp + 32 - k] = mem[sp + 32 - k]
          /\ mem'[sp + 32 - d] = R[d] /\ d \in 2..31 /\ pc = b + 3 + d
      BY SMT, <1>1, <1>3, <1>7, <2>3, <3>1
    <3> QED BY SMT, <1>1, <1>4, <1>7, <2>3, <3>2 DEF InFrame
  <2> QED BY Zenon, <2>1, <2>2, <2>3
<1>10. SavingSp(b, sp)' /\ (pc # b + 34 => (pc \in b..(b + 34))') /\ (pc = b + 34 => pc' = b + 35)
  BY SMT, <1>1, <1>3, <1>4, <1>6, <1>7 DEF SavingSp
<1>11. (pc' > b + 4 => R'[1] = 0) /\ FlagLow(b)' /\ pc' # b
  <2>1. pc' > b + 4 => pc > b + 4
    BY SMT, <1>1, <1>6, <1>7
  <2>2. pc' # b
    BY SMT, <1>1, <1>6, <1>7
  <2> QED BY Zenon, <1>4, <1>7, <2>1, <2>2 DEF FlagLow
<1>12. CASE pc = b + 34
  <2>1. /\ pc' = b + 35 /\ b + 35 \in (b + 35)..(b + 35 + 5) /\ SP' = sp /\ R'[1] = 0
        /\ b + 35 # b + 35 + 1 /\ b + 35 \notin (b + 35 + 2)..(b + 35 + 3) /\ b + 35 # b + 35 + 3
        /\ b + 35 \notin (b + 35 + 4)..(b + 35 + 5) /\ b + 35 # b + 35 + 5
    BY SMT, <1>1, <1>3, <1>7, <1>10, <1>11, <1>12 DEF SavingSp
  <2>2. StoringSp(b + 35, task_sp, sp)'
    BY Zenon, <2>1 DEF StoringSp
  <2>3. HoldsRegisters(mem', left', sp)
    BY SMT, <1>1, <1>3, <1>9, <2>1 DEF InFrame, HoldsRegisters
  <2>4. RetPoint(mem', o, sp + 33)
    BY Zenon, <1>7 DEF Site
  <2>5. Frame(mem', left', o, sp)
    BY Zenon, <1>1, <1>7, <2>3, <2>4 DEF Frame, register_bytes
  <2> QED BY Zenon, <1>7, <1>8, <1>11, <1>12, <2>1, <2>2, <2>5 DEF StoringTaskSp, Saved
<1>13. CASE pc # b + 34
  BY Zenon, <1>7, <1>8, <1>9, <1>10, <1>11, <1>13 DEF Saving
<1> QED BY Zenon, <1>12, <1>13

\* SAVE_CONTEXT keeps its invariant, or ends with a whole context.
LEMMA SavingStep ==
    ASSUME TypeInv, LeftType, Execute, NEW b, NEW o, NEW sp, Saving(b, o, sp)
    PROVE  Others /\ (Saving(b, o, sp)' \/ StoringTaskSp(b, o, sp)')
<1>1. b \in Int /\ pc \in b..(b + 34)
  BY Zenon, SavingCode DEF Saving
<1>2. pc = b \/ pc = b + 1 \/ pc = b + 4 \/ pc = b + 2 \/ pc = b + 3 \/ pc \in (b + 5)..(b + 34)
  BY SMT, <1>1
<1> QED BY Zenon, <1>2, SavingFirst, SavingSreg, SavingClr, SavingOn

-----------------------------------------------------------------------------
(* The phases of the kernel's code *)

InterruptsOn == IFlag /\ Mt

\* Task code runs, in a world of its own or before the kernel is started.
TaskState(t) ==
    /\ t = active
    /\ \/ TaskWorld(mem, left, task_sp_adr, t) /\ InterruptsOn
       \/ FirstWorld(mem, task_sp_adr, t) /\ ocf = FALSE
\* A task is in its code; or at the first instruction of what it called.
InTask ==
    /\ pc \in TaskCode(active)
    /\ SP \in (Top(active) - MaxDepth)..Top(active)
    /\ TaskState(active)
InCall ==
    /\ RetDirect(mem, active, SP)
    /\ TaskState(active)
    /\ \/ pc = YieldAt /\ TaskWorld(mem, left, task_sp_adr, active)
       \/ pc = SpawnAt /\ active = Idle

\* spawn_task, up to the change of the current task; its return address is at e.
SpawnEnters(e) ==
    /\ pc \in (SpawnAt + 1)..(SpawnAt + 6)
    /\ active = Idle /\ sreg < 128
    /\ TaskWorld(mem, left, task_sp_adr, Idle) \/ FirstWorld(mem, task_sp_adr, Idle)
    /\ SpInSetMt(SpawnAt + 1, e) /\ RetDirect(mem, Idle, e)
\* Its return point is made,
SpawnReturnPoint(e) ==
    /\ SpawnWorld(mem, left, task_sp_adr, active) /\ sreg < 128
    /\ Returning(SpawnAt + 7, e) /\ RetDirect(mem, Idle, e + 3)
\* and its caller's context is stored: the new task becomes current.
Adopting(sp) ==
    /\ pc = SpawnAt + 63
    /\ SP = sp /\ WordIn(mem, task_sp) = sp /\ Saved(SpawnSave, Idle, sp)

\* The new task's first steps.
StartWorld(m, l, s, a) ==
    \/ a = Worker /\ TaskWorld(m, l, s, Worker)
    \/ BootWorld(m, l, s, a)
\* SCILENT_ENABLE_MT at b, and the instruction after it; SP is sp outside it.
Enabling(b, sp) ==
    /\ pc \in b..(b + 5) /\ SpInSetMt(b, sp)
    /\ pc = b + 3 => Bit(R[16], OCIE1A) = 1
    /\ pc \in (b + 4)..(b + 5) => Mt
Starting ==
    /\ StartWorld(mem, left, task_sp_adr, active)
    /\ \/ SettingSp(SpawnAt + 64) /\ WordIn(mem, task_sp) = Top(active) /\ sreg < 128
       \/ Enabling(SpawnAt + 70, Top(active)) /\ sreg < 128
       \/ pc = SpawnAt + 76 /\ SP = Top(active) /\ InterruptsOn
\* The function or the switch has returned to the caller of spawn_task.
SpawnReturns ==
    /\ pc \in {SpawnJmp, SpawnAt + 77}
    /\ active = Idle
    /\ RetDirect(mem, Idle, SP)
    /\ TaskWorld(mem, left, task_sp_adr, Idle)
    /\ InterruptsOn

\* start_scheduler, and its loop.
Booting ==
    /\ BootWorld(mem, left, task_sp_adr, active)
    /\ pc \in StartAt..(StartAt + 4) /\ SpInSetMt(StartAt, Top(Scheduler))
\* Its return point is made.
StartReturnPoint ==
    /\ BootWorld(mem, left, task_sp_adr, active)
    /\ Returning(StartAt + 5, Top(Scheduler) - 3)
\* A pass of the scheduler, with its stack pointer at sp,
InPass(sp) ==
    /\ sp \in {scheduler_sp, Top(Scheduler)}
    /\ PassWorld(mem, left, task_sp_adr, active, sp)
    /\ \/ pc \in {StartAt + 67, StartAt + 69} \cup (StartAt + 70)..(StartAt + 75) /\ SpInSetMt(StartAt + 70, sp)
       \/ pc \in {StartJmp, StartAt + 68, StartAt + 77} /\ sp = Top(Scheduler) /\ SP = sp
\* which has chosen a task,
Chosen == pc = StartAt + 76 /\ ChosenWorld(mem, left, task_sp_adr, active, SP)
\* and calls k_yield.
SchedulerCalls(sp) ==
    /\ pc = YieldAt /\ SP = sp + 33
    /\ Site(YieldSave, Scheduler, sp, mem, left, task_sp_adr, active)

\* The switch at b, from o, whose context is saved at sp.
Left(b, o, sp) ==
    /\ b \in SwitchAt
    /\ Saved(b, o, sp)
    /\ WordIn(mem, prev_task_sp) = sp
\* The timer is masked,
Disabling(b, o, sp) == pc \in (b + 47)..(b + 51) /\ SpInSetMt(b + 47, sp) /\ Left(b, o, sp)

\* Whose context is restored: the chosen task's after the scheduler, the scheduler's after a task.
target(o) == IF o = Scheduler THEN task_sp_adr[active] ELSE scheduler_sp
\* the context to go on with is selected,
Selecting(b, o, sp) ==
    /\ pc \in (b + 52)..(b + 68)
    /\ SP = sp
    /\ Left(b, o, sp)
    /\ pc = b + 53 => R[26] = lo8(next_task_sp)
    /\ pc = b + 54 => PointsTo(R, 26, next_task_sp)
    /\ pc >= b + 55 => PointsTo(R, 26, next_task_sp + 1)
    /\ pc \in (b + 55)..(b + 60) => R[16] = mem[next_task_sp]
    /\ pc \in (b + 56)..(b + 60) => R[17] = mem[next_task_sp + 1]
    /\ pc = b + 57 => R[18] = R[16]
    /\ pc = b + 58 => (R[18] = 0 <=> WordIn(mem, next_task_sp) = 0)
    /\ pc = b + 59 => o = Scheduler
    /\ pc \in (b + 60)..(b + 63) => o # Scheduler
    /\ pc = b + 61 => R[30] = lo8(scheduler_task_sp)
    /\ pc = b + 62 => PointsTo(R, 30, scheduler_task_sp)
    /\ pc = b + 63 => PointsTo(R, 30, scheduler_task_sp + 1) /\ R[16] = mem[scheduler_task_sp]
    /\ pc \in (b + 64)..(b + 66) => R[16] + 256 * R[17] = target(o)
    /\ pc = b + 65 => R[30] = lo8(task_sp)
    /\ pc = b + 66 => PointsTo(R, 30, task_sp)
    /\ pc = b + 67 => PointsTo(R, 30, task_sp + 1) /\ mem[task_sp] + 256 * R[17] = target(o)
    /\ pc = b + 68 => WordIn(mem, task_sp) = target(o)

\* From here on sp is where the context that is restored to o was saved.
Resumable(o, sp) ==
    /\ WordIn(mem, task_sp) = sp
    /\ ResumeWorld(mem, left, task_sp_adr, active, o, sp)
    /\ Frame(mem, left, o, sp)
    /\ sreg < 128
\* next_task_sp is cleared,
Clearing(b, o, sp) ==
    /\ pc = b + 69
    /\ PointsTo(R, 26, next_task_sp + 1) /\ R[1] = 0 /\ mem[next_task_sp + 1] = 0
    /\ Resumable(o, sp)
\* the timer is reset and the stack pointer loaded,
Restoring(b, o, sp) ==
    /\ pc \in (b + 70)..(b + 71) \/ LoadingSp(b + 72)
    /\ WordIn(mem, next_task_sp) = 0
    /\ Resumable(o, sp)
\* the registers are popped
Popping(b, o, sp) ==
    /\ pc \in (b + 78)..(b + 111)
    /\ SP = IF pc = b + 111 THEN sp + 32 ELSE sp + (pc - b - 78)
    /\ WordIn(mem, next_task_sp) = 0
    /\ ResumeWorld(mem, left, task_sp_adr, active, o, sp)
    /\ Frame(mem, left, o, sp)
    /\ \A k \in 1..31 : k >= 110 - (pc - b) => R[k] = left[sp].R[k]
    /\ pc < b + 111 => sreg < 128
    /\ pc = b + 110 => R[0] = left[sp].sreg
    /\ pc = b + 111 => sreg = left[sp].sreg
\* and have been,
Popped(o, sp) ==
    /\ WordIn(mem, next_task_sp) = 0
    /\ ResumeWorld(mem, left, task_sp_adr, active, o, sp)
    /\ RetPoint(mem, o, sp + 33)
    /\ HoldsAbove(mem, left, o, sp)
    /\ \A k \in 0..31 : k # 16 => R[k] = left[sp].R[k]
    /\ sreg % 2 = left[sp].sreg % 2
\* the timer is unmasked,
Finishing(b, o, sp) ==
    /\ pc \in (b + 112)..(b + 116)
    /\ Enabling(b + 112, sp + 33)
    /\ Popped(o, sp)
    /\ sreg \div 32 = left[sp].sreg \div 32
    /\ IF pc = b + 112 THEN R[16] = left[sp].R[16] ELSE mem[sp + 33] = left[sp].R[16]
\* and the switch returns.
Resuming(b, o, sp) ==
    /\ pc = b + 117 \/ (b = YieldSave /\ pc = b + 118 /\ IFlag)
    /\ SP = sp + 33 /\ Mt
    /\ Popped(o, sp)
    /\ R[16] = left[sp].R[16]
    /\ (sreg \div 32) % 4 = (left[sp].sreg \div 32) % 4
    /\ pc = b + 117 => sreg \div 32 = left[sp].sreg \div 32

\* The phases of spawn_task,
Spawning ==
    \/ \E e \in (Top(Idle) - MaxDepth - 3)..(Top(Idle) - 3) : SpawnEnters(e)
    \/ \E e \in (Top(Idle) - MaxDepth - 6)..(Top(Idle) - 6) : SpawnReturnPoint(e)
    \/ \E sp \in Contexts(Idle) : Adopting(sp)
    \/ Starting \/ SpawnReturns
\* those of start_scheduler and its loop,
Scheduling ==
    \/ Booting \/ StartReturnPoint \/ Chosen
    \/ \E sp \in {scheduler_sp, Top(Scheduler)} : InPass(sp)
    \/ \E sp \in Contexts(Scheduler) : SchedulerCalls(sp)
\* those of a switch up to its choice,
Leaving(b, o, sp) ==
    \/ Saving(b, o, sp) \/ StoringTaskSp(b, o, sp) \/ StoringOther(b, o, sp)
    \/ Disabling(b, o, sp) \/ Selecting(b, o, sp)
\* and those after it.
GoingOn(b, o, sp) ==
    \/ Clearing(b, o, sp) \/ Restoring(b, o, sp) \/ Popping(b, o, sp)
    \/ Finishing(b, o, sp) \/ Resuming(b, o, sp)
InKernel ==
    \/ Spawning \/ Scheduling
    \/ \E b \in Sites, o \in Owners : \E sp \in Contexts(o) : Leaving(b, o, sp)
    \/ \E b \in SwitchAt, o \in Owners : \E sp \in Contexts(o) : GoingOn(b, o, sp)

\* The inductive invariant.
IInv == pc = Malformed \/ InTask \/ InCall \/ (ocf = FALSE /\ InKernel)

-----------------------------------------------------------------------------
(* The stack pointer is stored *)

\* r1 is none of the scratch registers.
LEMMA NotOne == 1 \in 0..31 /\ 1 # 16 /\ 1 # 26 /\ 1 # 27 /\ 1 # 30 /\ 1 # 31
  OBVIOUS

\* A step that keeps the stack keeps the saved context.
LEMMA SavedKept ==
    ASSUME NEW b, NEW o, NEW sp, Saved(b, o, sp), StacksKept(mem, mem', o, sp), left' = left, Others,
           sreg' < 128 <=> sreg < 128, R'[1] = R[1],
           b # StartSave => WordKept(mem, mem', scheduler_task_sp) /\ WordKept(mem, mem', next_task_sp)
    PROVE  Saved(b, o, sp)'
<1>1. FlagLow(b) /\ Site(b, o, sp, mem, left, task_sp_adr, active) /\ Frame(mem, left, o, sp) /\ R[1] = 0
  BY Zenon DEF Saved
<1>2. o \in Owners /\ sp \in Contexts(o)
  BY Zenon, <1>1 DEF Site
<1>3. sp \in Int /\ sp =< sp /\ sp =< sp + 33
  <2>1. sp \in Int
    BY Zenon, <1>2, ContextBounds
  <2> QED BY SMT, <2>1
<1>4. Kept(mem, mem', left, left, o, sp)
  BY Zenon DEF Kept
<1>5. Site(b, o, sp, mem', left, task_sp_adr, active)
  BY Zenon, <1>1, <1>3, <1>4, SiteKept
<1>6. Frame(mem', left, o, sp)
  BY Zenon, <1>1, <1>2, <1>3, <1>4, FrameKeptBy
<1>7. FlagLow(b)'
  BY Zenon, <1>1 DEF FlagLow
<1> QED BY Zenon, <1>1, <1>5, <1>6, <1>7 DEF Saved, Others

\* What Saved says.
LEMMA SavedIs ==
    ASSUME NEW b, NEW o, NEW sp, Saved(b, o, sp)
    PROVE  /\ b \in Sites /\ b \in Int /\ o \in Owners /\ sp \in Contexts(o) /\ sp \in Int
           /\ sp \in Stack(o) /\ sp \in SpRange /\ R[1] = 0 /\ Frame(mem, left, o, sp)
           /\ FlagLow(b) /\ SaveWorld(b, o, sp, mem, left, task_sp_adr, active)
<1>1. b \in Sites /\ o \in Owners /\ sp \in Contexts(o) /\ R[1] = 0 /\ Frame(mem, left, o, sp)
      /\ FlagLow(b) /\ SaveWorld(b, o, sp, mem, left, task_sp_adr, active)
  BY Zenon DEF Saved, Site
<1>2. sp \in Stack(o) /\ sp \in Int
  BY Zenon, <1>1, ContextBounds, ContextIn
<1>3. sp \in SpRange
  BY Zenon, <1>1, <1>2, StackAddresses, SpSteps
<1> QED BY Zenon, <1>1, <1>2, <1>3, SiteRuns

\* The words do not overlap.
LEMMA WordsUnlike ==
    /\ task_sp \in Words /\ prev_task_sp \in Words /\ scheduler_task_sp \in Words /\ next_task_sp \in Words
    /\ task_sp # scheduler_task_sp /\ task_sp # next_task_sp /\ task_sp # prev_task_sp
    /\ prev_task_sp # scheduler_task_sp /\ prev_task_sp # next_task_sp /\ next_task_sp # scheduler_task_sp
BY SMT DEF Words, task_sp, prev_task_sp, scheduler_task_sp, next_task_sp

\* A stored stack pointer is the context's.
LEMMA StoringSaves ==
    ASSUME NEW b, NEW o, NEW sp, Saved(b, o, sp), NEW adr, StoringKept(adr),
           adr = task_sp \/ adr = prev_task_sp \/ b = StartSave
    PROVE  Saved(b, o, sp)'
<1>1. StacksKept(mem, mem', o, sp) /\ Others /\ left' = left /\ sreg' = sreg
  BY Zenon DEF StoringKept
<1>2. R'[1] = R[1]
  BY Zenon, NotOne DEF StoringKept
<1>3. b # StartSave => WordKept(mem, mem', scheduler_task_sp) /\ WordKept(mem, mem', next_task_sp)
  BY Zenon, WordsUnlike DEF StoringKept
<1> QED BY Zenon, <1>1, <1>2, <1>3, SavedKept

\* SAVE_SP_TO_ADR(task_sp), and the other word after it.
LEMMA StoringTaskSpStep ==
    ASSUME TypeInv, Execute, NEW b, NEW o, NEW sp, StoringTaskSp(b, o, sp)
    PROVE  /\ Others
           /\ IF pc = b + 40 THEN IF b = SpawnSave THEN Adopting(sp)' ELSE StoringOther(b, o, sp)'
                             ELSE StoringTaskSp(b, o, sp)'
<1>1. StoringSp(b + 35, task_sp, sp) /\ Saved(b, o, sp)
  BY Zenon DEF StoringTaskSp
<1>2. b \in Sites /\ b \in Int /\ o \in Owners /\ sp \in Contexts(o) /\ sp \in SpRange
      /\ SaveWorld(b, o, sp, mem, left, task_sp_adr, active)
  BY Zenon, <1>1, SavedIs
<1>3. Runs(b + 35, SAVE_SP_TO_ADR(task_sp)) /\ b + 35 \in Int
  <2>1. b + 35 \in Int
    BY SMT, <1>2
  <2> QED BY Zenon, <1>2, <2>1, SiteRuns, SaveContextCode
<1>4. b + 35 + 5 = b + 40 /\ b + 40 + 1 = b + 41
  BY SMT, <1>2
<1>5. /\ pc' = pc + 1 /\ StoringKept(task_sp)
      /\ pc # b + 40 => StoringSp(b + 35, task_sp, sp)'
      /\ pc = b + 40 => WordIn(mem', task_sp) = sp
  BY Zenon, <1>1, <1>2, <1>3, <1>4, WordsUnlike, StoringStep
<1>6. Saved(b, o, sp)' /\ Others /\ SP' = sp
  BY Zenon, <1>1, <1>5, StoringSaves DEF StoringKept, StoringSp
<1>7. CASE pc # b + 40
  BY Zenon, <1>5, <1>6, <1>7 DEF StoringTaskSp
<1>8. CASE pc = b + 40 /\ b = SpawnSave
  <2>1. o = Idle
    BY Zenon, <1>2, <1>8, SitesAre DEF SaveWorld, SwitchAt
  <2>2. pc' = SpawnAt + 63
    BY SMT, <1>5, <1>8, Places DEF SpawnSave
  <2> QED BY Zenon, <1>5, <1>6, <1>8, <2>1, <2>2 DEF Adopting
<1>9. CASE pc = b + 40 /\ b # SpawnSave
  <2>1. /\ pc' = b + 41 /\ b + 41 \in (b + 41)..(b + 41 + 5) /\ b + 41 # b + 41 + 1 /\ b + 41 \notin (b + 41 + 2)..(b + 41 + 3)
        /\ b + 41 # b + 41 + 3 /\ b + 41 \notin (b + 41 + 4)..(b + 41 + 5) /\ b + 41 # b + 41 + 5
    BY SMT, <1>2, <1>5, <1>9
  <2>2. StoringSp(b + 41, Other(b), sp)'
    BY Zenon, <1>6, <2>1 DEF StoringSp
  <2> QED BY Zenon, <1>6, <1>9, <2>2 DEF StoringOther
<1> QED BY Zenon, <1>6, <1>7, <1>8, <1>9

LEMMA StoringOtherStep ==
    ASSUME TypeInv, Execute, NEW b, NEW o, NEW sp, StoringOther(b, o, sp)
    PROVE  /\ Others
           /\ IF pc = b + 46 THEN IF b = StartSave THEN sp = scheduler_sp /\ InPass(sp)' ELSE Disabling(b, o, sp)'
                             ELSE StoringOther(b, o, sp)'
<1>1. b # SpawnSave /\ StoringSp(b + 41, Other(b), sp) /\ Saved(b, o, sp)
  BY Zenon DEF StoringOther
<1>2. b \in Sites /\ b \in Int /\ o \in Owners /\ sp \in Contexts(o) /\ sp \in SpRange
  BY Zenon, <1>1, SavedIs
<1>3. Runs(b + 41, SAVE_SP_TO_ADR(Other(b))) /\ Other(b) \in Words
  BY Zenon, <1>1, <1>2, SiteRuns
<1>4. b + 41 + 5 = b + 46 /\ b + 41 \in Int
  BY SMT, <1>2
<1>5. /\ pc' = pc + 1 /\ StoringKept(Other(b))
      /\ pc # b + 46 => StoringSp(b + 41, Other(b), sp)'
      /\ pc = b + 46 => WordIn(mem', Other(b)) = sp
  BY Zenon, <1>1, <1>2, <1>3, <1>4, StoringStep
<1>6. Saved(b, o, sp)' /\ Others /\ SP' = sp
  <2>1. Other(b) = prev_task_sp \/ b = StartSave
    BY Zenon DEF Other
  <2> QED BY Zenon, <1>1, <1>5, <2>1, StoringSaves DEF StoringKept, StoringSp
<1>7. CASE pc # b + 46
  BY Zenon, <1>1, <1>5, <1>6, <1>7 DEF StoringOther
<1>8. CASE pc = b + 46 /\ b = StartSave
  <2>1. SaveWorld(b, o, sp, mem', left', task_sp_adr', active') /\ Frame(mem', left', o, sp)
    BY Zenon, <1>6 DEF Saved, Site
  <2>2. o = Scheduler /\ sp = scheduler_sp /\ BootWorld(mem', left', task_sp_adr', active')
    BY Zenon, <1>8, <2>1, SitesAre DEF SaveWorld, SwitchAt
  <2>3. WordIn(mem', scheduler_task_sp) = scheduler_sp
    BY Zenon, <1>5, <1>8, <2>2 DEF Other
  <2>4. PassWorld(mem', left', task_sp_adr', active', scheduler_sp)
    BY Zenon, <2>1, <2>2, <2>3 DEF PassWorld, BootWorld
  <2>5. pc' = StartAt + 67 /\ StartAt + 67 \notin (StartAt + 70 + 1)..(StartAt + 70 + 4)
    BY SMT, <1>5, <1>8, Places DEF StartSave
  <2>6. SpInSetMt(StartAt + 70, sp)'
    BY Zenon, <1>6, <2>5 DEF SpInSetMt
  <2> QED BY Zenon, <1>6, <1>8, <2>2, <2>4, <2>5, <2>6 DEF InPass
<1>9. CASE pc = b + 46 /\ b # StartSave
  <2>1. b \in SwitchAt
    BY Zenon, <1>1, <1>2, <1>9 DEF SwitchAt, Sites
  <2>2. pc' = b + 47 /\ b + 47 \in (b + 47)..(b + 51) /\ b + 47 \notin (b + 47 + 1)..(b + 47 + 4)
    BY SMT, <1>2, <1>5, <1>9
  <2>3. WordIn(mem', prev_task_sp) = sp
    BY Zenon, <1>5, <1>9 DEF Other
  <2> QED BY Zenon, <1>6, <1>9, <2>1, <2>2, <2>3 DEF Disabling, Left, SpInSetMt
<1> QED BY Zenon, <1>6, <1>7, <1>8, <1>9

-----------------------------------------------------------------------------
(* Whom the switch goes to *)

\* What Left says of the words and the registers.
LEMMA LeftIs ==
    ASSUME NEW b, NEW o, NEW sp, Left(b, o, sp)
    PROVE  /\ b \in SwitchAt /\ b \in Int /\ o \in Owners /\ sp \in Contexts(o) /\ sp \in Int /\ sp \in Stack(o)
           /\ Saved(b, o, sp) /\ R[1] = 0 /\ sreg < 128
           /\ SaveWorld(b, o, sp, mem, left, task_sp_adr, active)
           /\ Runs(b, CONTEXT_SWTICH)
<1>1. b \in SwitchAt /\ Saved(b, o, sp)
  BY Zenon DEF Left
<1>2. b \in Sites /\ b # StartSave
  BY Zenon, <1>1, SitesAre DEF Sites, SwitchAt
<1>3. b \in Int /\ o \in Owners /\ sp \in Contexts(o) /\ sp \in Int /\ sp \in Stack(o) /\ R[1] = 0
      /\ FlagLow(b) /\ SaveWorld(b, o, sp, mem, left, task_sp_adr, active)
  BY Zenon, <1>1, SavedIs
<1> QED BY Zenon, <1>1, <1>2, <1>3, SiteRuns DEF FlagLow

\* What a step leaves of that: it may write task_sp.
LEMMA LeftStays ==
    ASSUME NEW b, NEW o, NEW sp, Left(b, o, sp), StacksKept(mem, mem', o, sp), left' = left, Others,
           sreg' < 128 <=> sreg < 128, R'[1] = R[1],
           \A w \in Words \ {task_sp} : WordKept(mem, mem', w)
    PROVE  Left(b, o, sp)'
<1>1. b \in SwitchAt /\ Saved(b, o, sp) /\ WordIn(mem, prev_task_sp) = sp
  BY Zenon DEF Left
<1>2. WordKept(mem, mem', scheduler_task_sp) /\ WordKept(mem, mem', next_task_sp) /\ WordKept(mem, mem', prev_task_sp)
  BY Zenon, WordsUnlike
<1>3. Saved(b, o, sp)'
  BY Zenon, <1>1, <1>2, SavedKept
<1>4. WordIn(mem', prev_task_sp) = sp
  BY Zenon, <1>1, <1>2, WordInKept
<1> QED BY Zenon, <1>1, <1>3, <1>4 DEF Left

LEMMA LeftSame ==
    ASSUME NEW b, NEW o, NEW sp, Left(b, o, sp), mem' = mem, left' = left, Others,
           sreg' = sreg, \A k \in 0..31 : k # 16 /\ k # 17 /\ k # 18 /\ k # 26 /\ k # 27 /\ k # 30 /\ k # 31 => R'[k] = R[k]
    PROVE  Left(b, o, sp)'
<1>1. R'[1] = R[1]
  <2>1. 1 \in 0..31 /\ 1 # 16 /\ 1 # 17 /\ 1 # 18 /\ 1 # 26 /\ 1 # 27 /\ 1 # 30 /\ 1 # 31
    BY SMT
  <2> QED BY Zenon, <2>1
<1>2. StacksKept(mem, mem', o, sp) /\ \A w \in Words \ {task_sp} : WordKept(mem, mem', w)
  BY Zenon, SameKept DEF WordsKept
<1> QED BY Zenon, <1>1, <1>2, LeftStays

\* SCILENT_DISABLE_MT.
LEMMA DisablingStep ==
    ASSUME TypeInv, Execute, NEW b, NEW o, NEW sp, Disabling(b, o, sp)
    PROVE  /\ Others
           /\ IF pc = b + 51 THEN Selecting(b, o, sp)' ELSE Disabling(b, o, sp)'
<1>1. pc \in (b + 47)..(b + 51) /\ SpInSetMt(b + 47, sp) /\ Left(b, o, sp)
  BY Zenon DEF Disabling
<1>2. b \in Int /\ o \in Owners /\ sp \in Stack(o) /\ sp \in Int /\ Runs(b, CONTEXT_SWTICH)
  BY Zenon, <1>1, LeftIs
<1>3. b + 47 \in Int /\ b + 47 + 4 = b + 51
  BY SMT, <1>2
<1>4. Runs(b + 47, SetMt("andi")) /\ "andi" \in {"ori", "andi"}
  BY Zenon, <1>2, SwitchParts DEF SCILENT_DISABLE_MT
<1>5. pc' = pc + 1 /\ SpInSetMt(b + 47, sp)' /\ MtKept(o, sp)
  BY Zenon, <1>1, <1>2, <1>3, <1>4, SetMtStep
<1>6. Left(b, o, sp)' /\ Others
  <2>1. StacksKept(mem, mem', o, sp) /\ left' = left /\ Others /\ (sreg' < 128 <=> sreg < 128) /\ WordsKept(mem, mem')
    BY Zenon, <1>5 DEF MtKept
  <2>2. R'[1] = R[1]
    BY Zenon, <1>5, NotOne DEF MtKept
  <2> QED BY Zenon, <1>1, <2>1, <2>2, LeftStays DEF WordsKept
<1>7. CASE pc = b + 51
  <2>1. pc' = b + 52 /\ SP' = sp
    BY SMT, <1>2, <1>5, <1>7 DEF SpInSetMt
  <2> QED BY SMT, <1>2, <1>6, <1>7, <2>1 DEF Selecting
<1>8. CASE pc # b + 51
  <2>1. pc' \in (b + 47)..(b + 51)
    BY SMT, <1>1, <1>2, <1>5, <1>8
  <2> QED BY Zenon, <1>5, <1>6, <1>8, <2>1 DEF Disabling
<1> QED BY Zenon, <1>6, <1>7, <1>8

\* The instructions of the selection.
LEMMA SelectIs ==
    ASSUME TypeInv, NEW b, NEW o, NEW sp, Selecting(b, o, sp)
    PROVE  /\ b \in Int /\ R \in RegisterTypes /\ mem \in Memory /\ sreg \in Byte
           /\ At(b + 52, <<"ldi", 26, lo8(next_task_sp)>>)
           /\ At(b + 53, <<"ldi", 26 + 1, hi8(next_task_sp)>>)
           /\ At(b + 54, <<"ld", 16, 26, 1>>) /\ At(b + 55, <<"ld", 17, 26, 0>>)
           /\ At(b + 56, <<"mov", 18, 16>>) /\ At(b + 57, <<"or", 18, 17>>)
           /\ At(b + 58, <<"cpse", 18, 1>>) /\ At(b + 59, <<"rjmp", 4>>)
           /\ At(b + 60, <<"ldi", 30, lo8(scheduler_task_sp)>>)
           /\ At(b + 61, <<"ldi", 30 + 1, hi8(scheduler_task_sp)>>)
           /\ At(b + 62, <<"ld", 16, 30, 1>>) /\ At(b + 63, <<"ld", 17, 30, 0>>)
           /\ At(b + 64, <<"ldi", 30, lo8(task_sp)>>) /\ At(b + 65, <<"ldi", 30 + 1, hi8(task_sp)>>)
           /\ At(b + 66, <<"st", 16, 30, 1>>) /\ At(b + 67, <<"st", 17, 30, 0>>)
           /\ At(b + 68, <<"st", 1, 26, 0>>)
<1>1. b \in Int /\ Runs(b, CONTEXT_SWTICH)
  BY Zenon, LeftIs DEF Selecting
<1>2. Runs(b + 52, SELECT_SCHEDULED_TASK_OR_SCHEDULER) /\ b + 52 \in Int
  <2>1. b + 52 \in Int
    BY SMT, <1>1
  <2> QED BY Zenon, <1>1, <2>1, SwitchParts
<1>3. /\ At(b + 52, <<"ldi", 26, lo8(next_task_sp)>>)
      /\ At(b + 52 + 1, <<"ldi", 27, hi8(next_task_sp)>>)
      /\ At(b + 52 + 2, <<"ld", 16, 26, 1>>) /\ At(b + 52 + 3, <<"ld", 17, 26, 0>>)
      /\ At(b + 52 + 4, <<"mov", 18, 16>>) /\ At(b + 52 + 5, <<"or", 18, 17>>)
      /\ At(b + 52 + 6, <<"cpse", 18, 1>>) /\ At(b + 52 + 7, <<"rjmp", 4>>)
      /\ At(b + 52 + 8, <<"ldi", 30, lo8(scheduler_task_sp)>>)
      /\ At(b + 52 + 9, <<"ldi", 31, hi8(scheduler_task_sp)>>)
      /\ At(b + 52 + 10, <<"ld", 16, 30, 1>>) /\ At(b + 52 + 11, <<"ld", 17, 30, 0>>)
      /\ At(b + 52 + 12, <<"ldi", 30, lo8(task_sp)>>) /\ At(b + 52 + 13, <<"ldi", 31, hi8(task_sp)>>)
      /\ At(b + 52 + 14, <<"st", 16, 30, 1>>) /\ At(b + 52 + 15, <<"st", 17, 30, 0>>)
      /\ At(b + 52 + 16, <<"st", 1, 26, 0>>)
  BY Zenon, <1>2, SelectCode
<1>4. /\ b + 52 + 1 = b + 53 /\ b + 52 + 2 = b + 54 /\ b + 52 + 3 = b + 55 /\ b + 52 + 4 = b + 56
      /\ b + 52 + 5 = b + 57 /\ b + 52 + 6 = b + 58 /\ b + 52 + 7 = b + 59 /\ b + 52 + 8 = b + 60
      /\ b + 52 + 9 = b + 61 /\ b + 52 + 10 = b + 62 /\ b + 52 + 11 = b + 63 /\ b + 52 + 12 = b + 64
      /\ b + 52 + 13 = b + 65 /\ b + 52 + 14 = b + 66 /\ b + 52 + 15 = b + 67 /\ b + 52 + 16 = b + 68
  BY SMT, <1>1
<1>5. 27 = 26 + 1 /\ 31 = 30 + 1
  OBVIOUS
<1>6. At(b + 53, <<"ldi", 26 + 1, hi8(next_task_sp)>>) /\ At(b + 61, <<"ldi", 30 + 1, hi8(scheduler_task_sp)>>)
      /\ At(b + 65, <<"ldi", 30 + 1, hi8(task_sp)>>)
  BY SMT, <1>3, <1>4, <1>5
<1>7. R \in RegisterTypes /\ mem \in Memory /\ sreg \in Byte
  BY Zenon DEF TypeInv, MachineType
<1>8. /\ At(b + 54, <<"ld", 16, 26, 1>>) /\ At(b + 55, <<"ld", 17, 26, 0>>)
      /\ At(b + 56, <<"mov", 18, 16>>) /\ At(b + 57, <<"or", 18, 17>>)
      /\ At(b + 58, <<"cpse", 18, 1>>) /\ At(b + 59, <<"rjmp", 4>>)
      /\ At(b + 60, <<"ldi", 30, lo8(scheduler_task_sp)>>)
  BY SMT, <1>3, <1>4
<1>9. /\ At(b + 62, <<"ld", 16, 30, 1>>) /\ At(b + 63, <<"ld", 17, 30, 0>>)
      /\ At(b + 64, <<"ldi", 30, lo8(task_sp)>>)
      /\ At(b + 66, <<"st", 16, 30, 1>>) /\ At(b + 67, <<"st", 17, 30, 0>>)
      /\ At(b + 68, <<"st", 1, 26, 0>>)
  BY SMT, <1>3, <1>4
<1> QED BY Zenon, <1>1, <1>3, <1>6, <1>7, <1>8, <1>9

\* The words it reads and writes.
LEMMA NextPlaces ==
    /\ next_task_sp \in Addresses /\ next_task_sp + 1 \in Addresses /\ next_task_sp \in Words
    /\ scheduler_task_sp \in Addresses /\ scheduler_task_sp + 1 \in Addresses /\ scheduler_task_sp \in Words
    /\ task_sp \in Addresses /\ task_sp + 1 \in Addresses /\ task_sp \in Words
    /\ next_task_sp + 1 + 0 = next_task_sp + 1 /\ scheduler_task_sp + 1 + 0 = scheduler_task_sp + 1
    /\ task_sp + 1 + 0 = task_sp + 1
<1>1. next_task_sp + 1 + 0 = next_task_sp + 1 /\ scheduler_task_sp + 1 + 0 = scheduler_task_sp + 1
      /\ task_sp + 1 + 0 = task_sp + 1
  BY SMT DEF next_task_sp, scheduler_task_sp, task_sp
<1> QED BY Zenon, <1>1, WordsUnlike, WordAddresses

\* A word is zero if its bytes are.
LEMMA OrZero == \A x, y \in Byte : Or(x, y) = 0 <=> x = 0 /\ y = 0
<1> SUFFICES ASSUME NEW x \in Byte, NEW y \in Byte PROVE Or(x, y) = 0 <=> x = 0 /\ y = 0
  OBVIOUS
<1>1. \A w \in {1, 2, 4, 8, 16, 32, 64, 128} : Either(x, y, w) = 0 \/ Either(x, y, w) = w
  BY SMT DEF Either
<1>2. Or(x, y) = 0 => \A w \in {1, 2, 4, 8, 16, 32, 64, 128} : Either(x, y, w) = 0
  BY SMT, <1>1 DEF Or
<1>3. \A v \in Byte : (\A w \in {1, 2, 4, 8, 16, 32, 64, 128} : Bit(v, w) # 1) => v = 0
  BY SMT DEF Byte, Bit
<1>4. (\A w \in {1, 2, 4, 8, 16, 32, 64, 128} : Either(x, y, w) = 0) => x = 0 /\ y = 0
  <2>1. ASSUME \A w \in {1, 2, 4, 8, 16, 32, 64, 128} : Either(x, y, w) = 0
        PROVE  \A w \in {1, 2, 4, 8, 16, 32, 64, 128} : Bit(x, w) # 1 /\ Bit(y, w) # 1
    BY SMT, <2>1 DEF Either
  <2> QED BY Zenon, <1>3, <2>1
<1>5. Or(0, 0) = 0
  BY SMT DEF Or, Either, Bit
<1> QED BY Zenon, <1>2, <1>4, <1>5

LEMMA ZeroWord == \A m \in Memory : \A w \in Words : WordIn(m, w) = 0 <=> m[w] = 0 /\ m[w + 1] = 0
<1> SUFFICES ASSUME NEW m \in Memory, NEW w \in Words PROVE WordIn(m, w) = 0 <=> m[w] = 0 /\ m[w + 1] = 0
  OBVIOUS
<1>1. m[w] \in Byte /\ m[w + 1] \in Byte
  BY Zenon, WordAddresses DEF Memory
<1>2. \A x, y \in Byte : x + 256 * y = 0 <=> x = 0 /\ y = 0
  BY SMT DEF Byte
<1> QED BY SMT, <1>1, <1>2 DEF WordIn

\* The scheduler is left for the task it chose; a task for the scheduler.
LEMMA WhoIsNext ==
    ASSUME NEW b, NEW o, NEW sp, Left(b, o, sp)
    PROVE  /\ o = Scheduler => WordIn(mem, next_task_sp) = task_sp_adr[active] /\ WordIn(mem, next_task_sp) # 0
                                /\ ChosenWorld(mem, left, task_sp_adr, active, sp + context)
           /\ o # Scheduler => WordIn(mem, next_task_sp) = 0 /\ WordIn(mem, scheduler_task_sp) = scheduler_sp
                                /\ o = active /\ TaskWorld(mem, left, task_sp_adr, o)
<1>1. b \in SwitchAt /\ SaveWorld(b, o, sp, mem, left, task_sp_adr, active) /\ b # SpawnSave /\ b # StartSave
  BY Zenon, LeftIs, SitesAre DEF SwitchAt
<1>2. CASE o = active /\ TaskWorld(mem, left, task_sp_adr, o)
  BY Zenon, <1>2, TasksAre DEF TaskWorld, Started
<1>3. CASE o = Scheduler /\ ChosenWorld(mem, left, task_sp_adr, active, sp + context)
  BY Zenon, <1>3 DEF ChosenWorld
<1> QED BY Zenon, <1>1, <1>2, <1>3 DEF SaveWorld

\* The steps up to the choice.
LEMMA SelectingFirst ==
    ASSUME TypeInv, Execute, NEW b, NEW o, NEW sp, Selecting(b, o, sp), pc \in (b + 52)..(b + 56)
    PROVE  Others /\ Selecting(b, o, sp)'
<1>1. /\ b \in Int /\ R \in RegisterTypes
      /\ At(b + 52, <<"ldi", 26, lo8(next_task_sp)>>)
      /\ At(b + 53, <<"ldi", 26 + 1, hi8(next_task_sp)>>)
      /\ At(b + 54, <<"ld", 16, 26, 1>>) /\ At(b + 55, <<"ld", 17, 26, 0>>)
      /\ At(b + 56, <<"mov", 18, 16>>)
  BY Zenon, SelectIs
<1>2. Left(b, o, sp) /\ SP = sp
  BY Zenon DEF Selecting
<1>3. 26 \in Pointers /\ 26 \in 0..31 /\ 16 \in 0..31 /\ 17 \in 0..31 /\ 0 \in {0, 1} /\ 1 \in {0, 1}
  BY SMT DEF Pointers
<1>4. CASE pc = b + 52
  <2>1. /\ R'[26] = lo8(next_task_sp) /\ \A k \in 0..31 : k # 26 => R'[k] = R[k]
        /\ pc' = pc + 1 /\ SP' = SP /\ mem' = mem /\ sreg' = sreg /\ Others /\ left' = left
    BY SMT, <1>1, <1>3, <1>4, LdiLow
  <2>2. Left(b, o, sp)'
    BY Zenon, <1>2, <2>1, LeftSame
  <2>3. pc' = b + 53
    BY SMT, <1>1, <1>4, <2>1
  <2> QED BY SMT, <1>1, <1>2, <2>1, <2>2, <2>3 DEF Selecting
<1>5. CASE pc = b + 53
  <2>0. R[26] = lo8(next_task_sp)
    BY Zenon, <1>5 DEF Selecting
  <2>1. /\ PointsTo(R', 26, next_task_sp) /\ \A k \in 0..31 : k # 26 /\ k # 26 + 1 => R'[k] = R[k]
        /\ pc' = pc + 1 /\ SP' = SP /\ mem' = mem /\ sreg' = sreg /\ Others /\ left' = left
    BY Zenon, <1>1, <1>3, <1>5, <2>0, NextPlaces, LdiHigh
  <2>2. Left(b, o, sp)'
    BY Zenon, <1>2, <2>1, Literals, LeftSame
  <2>3. pc' = b + 54
    BY SMT, <1>1, <1>5, <2>1
  <2> QED BY SMT, <1>1, <1>2, <2>1, <2>2, <2>3 DEF Selecting
<1>6. CASE pc = b + 54
  <2>0. PointsTo(R, 26, next_task_sp) /\ At(pc, <<"ld", 16, 26, 1>>) /\ 16 # 26 /\ 16 # 26 + 1
    BY Zenon, <1>1, <1>6, Unlike DEF Selecting
  <2>00. /\ At(pc, <<"ld", 16, 26, 1>>) /\ 1 \in {0, 1} /\ 26 \in Pointers /\ 16 \in 0..31 /\ 16 # 26 /\ 16 # 26 + 1
         /\ Pointer(26) = next_task_sp /\ next_task_sp \in Addresses
    BY Zenon, <1>3, <2>0, NextPlaces DEF PointsTo, Pointer
  <2>1. /\ R'[16] = mem[next_task_sp] /\ PointsTo(R', 26, next_task_sp + 1)
        /\ \A k \in 0..31 : k # 16 /\ k # 26 /\ k # 26 + 1 => R'[k] = R[k]
        /\ pc' = pc + 1 /\ SP' = SP /\ mem' = mem /\ sreg' = sreg /\ Others /\ left' = left
    BY ZenonT(60), <2>00, LdTo
  <2>2. Left(b, o, sp)'
    BY Zenon, <1>2, <2>1, Literals, LeftSame
  <2>3. pc' = b + 55
    BY SMT, <1>1, <1>6, <2>1
  <2> QED BY SMT, <1>1, <1>2, <2>1, <2>2, <2>3 DEF Selecting
<1>7. CASE pc = b + 55
  <2>0. PointsTo(R, 26, next_task_sp + 1) /\ R[16] = mem[next_task_sp]
    BY SMT, <1>1, <1>7 DEF Selecting
  <2>01. At(pc, <<"ld", 17, 26, 0>>) /\ 17 # 26 /\ 17 # 26 + 1
    BY Zenon, <1>1, <1>7, Unlike
  <2>00. /\ At(pc, <<"ld", 17, 26, 0>>) /\ 0 \in {0, 1} /\ 26 \in Pointers /\ 17 \in 0..31 /\ 17 # 26 /\ 17 # 26 + 1
         /\ Pointer(26) = next_task_sp + 1 /\ next_task_sp + 1 \in Addresses
    BY Zenon, <1>3, <2>0, <2>01, NextPlaces DEF PointsTo, Pointer
  <2>1. /\ R'[17] = mem[next_task_sp + 1] /\ PointsTo(R', 26, next_task_sp + 1 + 0)
        /\ \A k \in 0..31 : k # 17 /\ k # 26 /\ k # 26 + 1 => R'[k] = R[k]
        /\ pc' = pc + 1 /\ SP' = SP /\ mem' = mem /\ sreg' = sreg /\ Others /\ left' = left
    BY ZenonT(60), <2>00, LdTo
  <2>2. Left(b, o, sp)'
    BY Zenon, <1>2, <2>1, Literals, LeftSame
  <2>3. pc' = b + 56 /\ R'[16] = R[16]
    BY SMT, <1>1, <1>7, <2>1
  <2>4. PointsTo(R', 26, next_task_sp + 1)
    BY Zenon, <2>1, NextPlaces
  <2> QED BY SMT, <1>1, <1>2, <2>0, <2>1, <2>2, <2>3, <2>4 DEF Selecting
<1>8. CASE pc = b + 56
  <2>0. PointsTo(R, 26, next_task_sp + 1) /\ R[16] = mem[next_task_sp] /\ R[17] = mem[next_task_sp + 1]
    BY SMT, <1>1, <1>8 DEF Selecting
  <2>1. /\ R' = [R EXCEPT ![18] = R[16]]
        /\ pc' = pc + 1 /\ SP' = SP /\ mem' = mem /\ sreg' = sreg /\ Others /\ left' = left
    BY Zenon, <1>1, <1>8, MovStep
  <2>2. R'[18] = R[16] /\ \A k \in 0..31 : k # 18 => R'[k] = R[k]
    BY SMT, <1>1, <2>1 DEF RegisterTypes
  <2>3. Left(b, o, sp)'
    BY Zenon, <1>2, <2>1, <2>2, LeftSame
  <2>4. pc' = b + 57 /\ R'[16] = R[16] /\ R'[17] = R[17] /\ PointsTo(R', 26, next_task_sp + 1)
    BY SMT, <1>1, <1>8, <2>0, <2>1, <2>2 DEF PointsTo
  <2> QED BY SMT, <1>1, <1>2, <2>0, <2>1, <2>2, <2>3, <2>4 DEF Selecting
<1>9. pc = b + 52 \/ pc = b + 53 \/ pc = b + 54 \/ pc = b + 55 \/ pc = b + 56
  BY SMT, <1>1
<1> QED BY Zenon, <1>4, <1>5, <1>6, <1>7, <1>8, <1>9

KeepsBut(d, p) == \A k \in 0..31 : k # d /\ k # p /\ k # p + 1 => R'[k] = R[k]
LEMMA LdStay ==
    ASSUME TypeInv, Execute, NEW d \in 0..31, NEW p \in Pointers, d # p, d # p + 1,
           At(pc, <<"ld", d, p, 0>>), NEW a \in Addresses, Pointer(p) = a
    PROVE  /\ R'[d] = mem[a] /\ KeepsBut(d, p)
           /\ pc' = pc + 1 /\ SP' = SP /\ mem' = mem /\ sreg' = sreg
           /\ Others /\ left' = left
<1>1. 0 \in {0, 1}
  OBVIOUS
<1> QED BY Zenon, <1>1, LdTo DEF KeepsBut

\* The choice: the scheduler is gone to where no task was chosen.
LEMMA SelectingChoice ==
    ASSUME TypeInv, Execute, NEW b, NEW o, NEW sp, Selecting(b, o, sp), pc \in (b + 57)..(b + 59)
    PROVE  Others /\ Selecting(b, o, sp)'
<1>1. /\ b \in Int /\ R \in RegisterTypes /\ mem \in Memory /\ sreg \in Byte
      /\ At(b + 57, <<"or", 18, 17>>) /\ At(b + 58, <<"cpse", 18, 1>>) /\ At(b + 59, <<"rjmp", 4>>)
  BY Zenon, SelectIs
<1>2. Left(b, o, sp) /\ SP = sp
  BY Zenon DEF Selecting
<1>3. PointsTo(R, 26, next_task_sp + 1) /\ R[16] = mem[next_task_sp] /\ R[17] = mem[next_task_sp + 1]
  BY SMT, <1>1 DEF Selecting
<1>4. CASE pc = b + 57
  <2>0. R[18] = R[16]
    BY Zenon, <1>4 DEF Selecting
  <2>1. /\ R' = [R EXCEPT ![18] = Or(R[18], R[17])] /\ sreg' = LogicFlags(Or(R[18], R[17]))
        /\ pc' = pc + 1 /\ SP' = SP /\ mem' = mem /\ Others /\ left' = left
    BY Zenon, <1>1, <1>4, OrStep
  <2>2. R'[18] = Or(R[18], R[17]) /\ \A k \in 0..31 : k # 18 => R'[k] = R[k]
    BY SMT, <1>1, <2>1 DEF RegisterTypes
  <2>3. Left(b, o, sp)'
    <3>1. sreg' < 128 <=> sreg < 128
      BY Zenon, <1>1, <2>1, LogicFlagsKeep
    <3>2. R'[1] = R[1]
      BY SMT, <2>2
    <3>3. StacksKept(mem, mem', o, sp) /\ \A w \in Words \ {task_sp} : WordKept(mem, mem', w)
      BY Zenon, <2>1, SameKept DEF WordsKept
    <3> QED BY Zenon, <1>2, <2>1, <3>1, <3>2, <3>3, LeftStays
  <2>4. pc' = b + 58 /\ R'[16] = R[16] /\ R'[17] = R[17] /\ PointsTo(R', 26, next_task_sp + 1)
    BY SMT, <1>1, <1>3, <1>4, <2>1, <2>2 DEF PointsTo
  <2>5. R'[18] = 0 <=> WordIn(mem', next_task_sp) = 0
    <3>1. mem[next_task_sp] \in Byte /\ mem[next_task_sp + 1] \in Byte
      BY Zenon, <1>1, NextPlaces DEF Memory
    <3>2. Or(mem[next_task_sp], mem[next_task_sp + 1]) = 0 <=> mem[next_task_sp] = 0 /\ mem[next_task_sp + 1] = 0
      BY Zenon, <3>1, OrZero
    <3>3. R'[18] = Or(mem[next_task_sp], mem[next_task_sp + 1])
      BY Zenon, <1>3, <2>0, <2>2
    <3> QED BY Zenon, <1>1, <2>1, <3>2, <3>3, NextPlaces, ZeroWord
  <2> QED BY SMT, <1>1, <1>2, <1>3, <2>1, <2>3, <2>4, <2>5 DEF Selecting
<1>5. CASE pc = b + 58
  <2>0. R[18] = 0 <=> WordIn(mem, next_task_sp) = 0
    BY SMT, <1>5 DEF Selecting
  <2>1. /\ pc' = IF R[18] = R[1] THEN pc + 2 ELSE pc + 1
        /\ SP' = SP /\ mem' = mem /\ R' = R /\ sreg' = sreg /\ Others /\ left' = left
    BY Zenon, <1>1, <1>5, CpseStep
  <2>2. Left(b, o, sp)' /\ R[1] = 0
    BY Zenon, <1>2, <2>1, LeftSame, LeftIs
  <2>3. R[18] = 0 <=> o # Scheduler
    BY SMT, <1>2, <2>0, WhoIsNext
  <2>4. CASE o # Scheduler
    <3>1. pc' = b + 60
      BY SMT, <1>1, <1>5, <2>1, <2>2, <2>3, <2>4
    <3> QED BY SMT, <1>1, <1>2, <1>3, <2>1, <2>2, <2>4, <3>1 DEF Selecting
  <2>5. CASE o = Scheduler
    <3>1. pc' = b + 59
      BY SMT, <1>1, <1>5, <2>1, <2>2, <2>3, <2>5
    <3> QED BY SMT, <1>1, <1>2, <1>3, <2>1, <2>2, <2>5, <3>1 DEF Selecting
  <2> QED BY Zenon, <2>4, <2>5
<1>6. CASE pc = b + 59
  <2>0. o = Scheduler
    BY Zenon, <1>6 DEF Selecting
  <2>1. /\ pc' = pc + 1 + 4
        /\ SP' = SP /\ mem' = mem /\ R' = R /\ sreg' = sreg /\ Others /\ left' = left
    BY Zenon, <1>1, <1>6, RjmpStep
  <2>2. Left(b, o, sp)'
    BY Zenon, <1>2, <2>1, LeftSame
  <2>3. pc' = b + 64
    BY SMT, <1>1, <1>6, <2>1
  <2>4. R[16] + 256 * R[17] = WordIn(mem, next_task_sp)
    BY Zenon, <1>3 DEF WordIn
  <2>5. R'[16] + 256 * R'[17] = target(o)'
    BY Zenon, <1>2, <2>0, <2>1, <2>4, WhoIsNext DEF target, Others
  <2> QED BY SMT, <1>1, <1>2, <1>3, <2>0, <2>1, <2>2, <2>3, <2>5 DEF Selecting
<1>7. pc = b + 57 \/ pc = b + 58 \/ pc = b + 59
  BY SMT, <1>1
<1> QED BY Zenon, <1>4, <1>5, <1>6, <1>7

\* Where no task was chosen, the scheduler's stack pointer is loaded.
LEMMA SelectingScheduler ==
    ASSUME TypeInv, Execute, NEW b, NEW o, NEW sp, Selecting(b, o, sp), pc \in (b + 60)..(b + 63)
    PROVE  Others /\ Selecting(b, o, sp)'
<1>1. /\ b \in Int /\ R \in RegisterTypes
      /\ At(b + 60, <<"ldi", 30, lo8(scheduler_task_sp)>>)
      /\ At(b + 61, <<"ldi", 30 + 1, hi8(scheduler_task_sp)>>)
      /\ At(b + 62, <<"ld", 16, 30, 1>>) /\ At(b + 63, <<"ld", 17, 30, 0>>)
  BY Zenon, SelectIs
<1>2. Left(b, o, sp) /\ SP = sp
  BY Zenon DEF Selecting
<1>3. o # Scheduler /\ PointsTo(R, 26, next_task_sp + 1)
  BY SMT, <1>1 DEF Selecting
<1>4. CASE pc = b + 60
  <2>0. At(pc, <<"ldi", 30, lo8(scheduler_task_sp)>>) /\ 30 \in 0..31
    BY Zenon, <1>1, <1>4, Literals
  <2>1. /\ R'[30] = lo8(scheduler_task_sp) /\ \A k \in 0..31 : k # 30 => R'[k] = R[k]
        /\ pc' = pc + 1 /\ SP' = SP /\ mem' = mem /\ sreg' = sreg /\ Others /\ left' = left
    BY Zenon, <2>0, LdiLow
  <2>2. Left(b, o, sp)'
    BY Zenon, <1>2, <2>1, LeftSame
  <2>3. pc' = b + 61 /\ PointsTo(R', 26, next_task_sp + 1)
    BY SMT, <1>1, <1>3, <1>4, <2>1 DEF PointsTo
  <2> QED BY SMT, <1>1, <1>2, <1>3, <2>1, <2>2, <2>3 DEF Selecting
<1>5. CASE pc = b + 61
  <2>0. R[30] = lo8(scheduler_task_sp) /\ At(pc, <<"ldi", 30 + 1, hi8(scheduler_task_sp)>>) /\ 30 \in Pointers
    BY Zenon, <1>1, <1>5, Literals DEF Selecting
  <2>1. /\ PointsTo(R', 30, scheduler_task_sp) /\ \A k \in 0..31 : k # 30 /\ k # 30 + 1 => R'[k] = R[k]
        /\ pc' = pc + 1 /\ SP' = SP /\ mem' = mem /\ sreg' = sreg /\ Others /\ left' = left
    BY Zenon, <2>0, NextPlaces, LdiHigh
  <2>2. Left(b, o, sp)'
    BY Zenon, <1>2, <2>1, Literals, LeftSame
  <2>3. pc' = b + 62 /\ PointsTo(R', 26, next_task_sp + 1)
    BY SMT, <1>1, <1>3, <1>5, <2>1 DEF PointsTo
  <2> QED BY SMT, <1>1, <1>2, <1>3, <2>1, <2>2, <2>3 DEF Selecting
<1>6. CASE pc = b + 62
  <2>0. PointsTo(R, 30, scheduler_task_sp)
    BY Zenon, <1>6 DEF Selecting
  <2> DEFINE a == scheduler_task_sp
  <2>00. /\ At(pc, <<"ld", 16, 30, 1>>) /\ 1 \in {0, 1} /\ 30 \in Pointers /\ 16 \in 0..31 /\ 16 # 30 /\ 16 # 30 + 1
         /\ Pointer(30) = a /\ a \in Addresses
    BY Zenon, <1>1, <1>6, <2>0, Literals, Unlike, NextPlaces DEF PointsTo, Pointer
  <2> HIDE DEF a
  <2>1. /\ R'[16] = mem[a] /\ PointsTo(R', 30, a + 1)
        /\ \A k \in 0..31 : k # 16 /\ k # 30 /\ k # 30 + 1 => R'[k] = R[k]
        /\ pc' = pc + 1 /\ SP' = SP /\ mem' = mem /\ sreg' = sreg /\ Others /\ left' = left
    BY ZenonT(60), <2>00, LdTo
  <2>2. Left(b, o, sp)'
    BY Zenon, <1>2, <2>1, Literals, LeftSame
  <2>3. pc' = b + 63 /\ PointsTo(R', 26, next_task_sp + 1)
    BY SMT, <1>1, <1>3, <1>6, <2>1 DEF PointsTo
  <2> QED BY SMT, <1>1, <1>2, <1>3, <2>1, <2>2, <2>3 DEF Selecting, a
<1>7. CASE pc = b + 63
  <2>0. PointsTo(R, 30, scheduler_task_sp + 1) /\ R[16] = mem[scheduler_task_sp]
    BY Zenon, <1>7 DEF Selecting
  <2> DEFINE a == scheduler_task_sp + 1
  <2>00. /\ At(pc, <<"ld", 17, 30, 0>>) /\ 0 \in {0, 1} /\ 30 \in Pointers /\ 17 \in 0..31 /\ 17 # 30 /\ 17 # 30 + 1
         /\ Pointer(30) = a /\ a \in Addresses
    BY Zenon, <1>1, <1>7, <2>0, Literals, Unlike, NextPlaces DEF PointsTo, Pointer
  <2> HIDE DEF a
  <2>1. /\ R'[17] = mem[a] /\ KeepsBut(17, 30)
        /\ pc' = pc + 1 /\ SP' = SP /\ mem' = mem /\ sreg' = sreg /\ Others /\ left' = left
    BY Zenon, <2>00, LdStay
  <2>2. Left(b, o, sp)'
    BY Zenon, <1>2, <2>1, Literals, LeftSame DEF KeepsBut
  <2>3. pc' = b + 64 /\ PointsTo(R', 26, next_task_sp + 1) /\ R'[16] = R[16]
    BY SMT, <1>1, <1>3, <1>7, <2>1 DEF PointsTo, KeepsBut
  <2>4. R'[16] + 256 * R'[17] = WordIn(mem, scheduler_task_sp)
    BY Zenon, <2>0, <2>1, <2>3 DEF WordIn, a
  <2>5. R'[16] + 256 * R'[17] = target(o)'
    BY SMT, <1>2, <1>3, <2>4, WhoIsNext DEF target
  <2> QED BY SMT, <1>1, <1>2, <1>3, <2>1, <2>2, <2>3, <2>5 DEF Selecting
<1>8. pc = b + 60 \/ pc = b + 61 \/ pc = b + 62 \/ pc = b + 63
  BY SMT, <1>1
<1> QED BY Zenon, <1>4, <1>5, <1>6, <1>7, <1>8

\* The stack pointer to load is written to task_sp.
LEMMA SelectingStore ==
    ASSUME TypeInv, Execute, NEW b, NEW o, NEW sp, Selecting(b, o, sp), pc \in (b + 64)..(b + 67)
    PROVE  Others /\ Selecting(b, o, sp)'
<1>1. /\ b \in Int /\ R \in RegisterTypes /\ mem \in Memory
      /\ At(b + 64, <<"ldi", 30, lo8(task_sp)>>) /\ At(b + 65, <<"ldi", 30 + 1, hi8(task_sp)>>)
      /\ At(b + 66, <<"st", 16, 30, 1>>) /\ At(b + 67, <<"st", 17, 30, 0>>)
  BY Zenon, SelectIs
<1>2. Left(b, o, sp) /\ SP = sp
  BY Zenon DEF Selecting
<1>3. PointsTo(R, 26, next_task_sp + 1)
  BY SMT, <1>1 DEF Selecting
<1>4. CASE pc = b + 64
  <2>0. At(pc, <<"ldi", 30, lo8(task_sp)>>) /\ 30 \in 0..31
    BY Zenon, <1>1, <1>4, Literals
  <2>1. /\ R'[30] = lo8(task_sp) /\ \A k \in 0..31 : k # 30 => R'[k] = R[k]
        /\ pc' = pc + 1 /\ SP' = SP /\ mem' = mem /\ sreg' = sreg /\ Others /\ left' = left
    BY Zenon, <2>0, LdiLow
  <2>2. Left(b, o, sp)'
    BY Zenon, <1>2, <2>1, LeftSame
  <2>3. pc' = b + 65 /\ PointsTo(R', 26, next_task_sp + 1) /\ R'[16] = R[16] /\ R'[17] = R[17]
    BY SMT, <1>1, <1>3, <1>4, <2>1 DEF PointsTo
  <2>4. R[16] + 256 * R[17] = target(o)
    BY SMT, <1>1, <1>4 DEF Selecting
  <2>5. R'[16] + 256 * R'[17] = target(o)'
    BY Zenon, <2>1, <2>3, <2>4 DEF target, Others
  <2> QED BY SMT, <1>1, <1>2, <1>3, <2>1, <2>2, <2>3, <2>5 DEF Selecting
<1>5. CASE pc = b + 65
  <2>0. R[30] = lo8(task_sp) /\ At(pc, <<"ldi", 30 + 1, hi8(task_sp)>>) /\ 30 \in Pointers
    BY Zenon, <1>1, <1>5, Literals DEF Selecting
  <2>1. /\ PointsTo(R', 30, task_sp) /\ \A k \in 0..31 : k # 30 /\ k # 30 + 1 => R'[k] = R[k]
        /\ pc' = pc + 1 /\ SP' = SP /\ mem' = mem /\ sreg' = sreg /\ Others /\ left' = left
    BY Zenon, <2>0, NextPlaces, LdiHigh
  <2>2. Left(b, o, sp)'
    BY Zenon, <1>2, <2>1, Literals, LeftSame
  <2>3. pc' = b + 66 /\ PointsTo(R', 26, next_task_sp + 1) /\ R'[16] = R[16] /\ R'[17] = R[17]
    BY SMT, <1>1, <1>3, <1>5, <2>1 DEF PointsTo
  <2>4. R[16] + 256 * R[17] = target(o)
    BY SMT, <1>1, <1>5 DEF Selecting
  <2>5. R'[16] + 256 * R'[17] = target(o)'
    BY Zenon, <2>1, <2>3, <2>4 DEF target, Others
  <2> QED BY SMT, <1>1, <1>2, <1>3, <2>1, <2>2, <2>3, <2>5 DEF Selecting
<1>6. CASE pc = b + 66
  <2>0. PointsTo(R, 30, task_sp) /\ R[16] + 256 * R[17] = target(o)
    BY SMT, <1>1, <1>6 DEF Selecting
  <2>00. /\ At(pc, <<"st", 16, 30, 1>>) /\ 1 \in {0, 1} /\ 30 \in Pointers /\ 16 \in 0..31
         /\ Pointer(30) = task_sp /\ task_sp \in Addresses
    BY Zenon, <1>1, <1>6, <2>0, Literals, NextPlaces DEF PointsTo, Pointer
  <2>1. /\ Wrote(task_sp, R[16]) /\ PointsTo(R', 30, task_sp + 1)
        /\ \A k \in 0..31 : k # 30 /\ k # 30 + 1 => R'[k] = R[k]
        /\ pc' = pc + 1 /\ SP' = SP /\ sreg' = sreg /\ Others /\ left' = left
    BY Zenon, <2>00, StTo
  <2>2. Left(b, o, sp)'
    <3>1. \A p, e : StacksKept(mem, mem', p, e)
      BY Zenon, <1>1, <2>1, NextPlaces, WordStore DEF Wrote
    <3>2. \A w \in Words \ {task_sp} : WordKept(mem, mem', w)
      BY Zenon, <1>1, <2>1, NextPlaces, WordStore DEF Wrote
    <3>3. R'[1] = R[1] /\ (sreg' < 128 <=> sreg < 128)
      BY SMT, <2>1
    <3> QED BY Zenon, <1>2, <2>1, <3>1, <3>2, <3>3, LeftStays
  <2>3. pc' = b + 67 /\ PointsTo(R', 26, next_task_sp + 1) /\ R'[17] = R[17]
    BY SMT, <1>1, <1>3, <1>6, <2>1 DEF PointsTo
  <2>4. mem'[task_sp] = R[16]
    BY SMT, <1>1, <2>1, NextPlaces DEF Wrote, Memory
  <2>5. mem'[task_sp] + 256 * R'[17] = target(o)'
    BY Zenon, <2>0, <2>1, <2>3, <2>4 DEF target, Others
  <2> QED BY SMT, <1>1, <1>2, <1>3, <2>1, <2>2, <2>3, <2>5 DEF Selecting
<1>7. CASE pc = b + 67
  <2>0. PointsTo(R, 30, task_sp + 1) /\ mem[task_sp] + 256 * R[17] = target(o)
    BY SMT, <1>1, <1>7 DEF Selecting
  <2>00. /\ At(pc, <<"st", 17, 30, 0>>) /\ 0 \in {0, 1} /\ 30 \in Pointers /\ 17 \in 0..31
         /\ Pointer(30) = task_sp + 1 /\ task_sp + 1 \in Addresses
    BY Zenon, <1>1, <1>7, <2>0, Literals, NextPlaces DEF PointsTo, Pointer
  <2>1. /\ Wrote(task_sp + 1, R[17])
        /\ \A k \in 0..31 : k # 30 /\ k # 30 + 1 => R'[k] = R[k]
        /\ pc' = pc + 1 /\ SP' = SP /\ sreg' = sreg /\ Others /\ left' = left
    BY Zenon, <2>00, StTo
  <2>2. Left(b, o, sp)'
    <3>1. \A p, e : StacksKept(mem, mem', p, e)
      BY Zenon, <1>1, <2>1, NextPlaces, WordStore DEF Wrote
    <3>2. \A w \in Words \ {task_sp} : WordKept(mem, mem', w)
      BY Zenon, <1>1, <2>1, NextPlaces, WordStore DEF Wrote
    <3>3. R'[1] = R[1] /\ (sreg' < 128 <=> sreg < 128)
      BY SMT, <2>1
    <3> QED BY Zenon, <1>2, <2>1, <3>1, <3>2, <3>3, LeftStays
  <2>3. pc' = b + 68 /\ PointsTo(R', 26, next_task_sp + 1)
    BY SMT, <1>1, <1>3, <1>7, <2>1 DEF PointsTo
  <2>4. mem'[task_sp + 1] = R[17] /\ mem'[task_sp] = mem[task_sp]
    BY SMT, <1>1, <2>1, NextPlaces DEF Wrote, Memory, task_sp
  <2>5. WordIn(mem', task_sp) = target(o)'
    BY Zenon, <2>0, <2>1, <2>4 DEF target, Others, WordIn
  <2> QED BY SMT, <1>1, <1>2, <1>3, <2>1, <2>2, <2>3, <2>5 DEF Selecting
<1>8. pc = b + 64 \/ pc = b + 65 \/ pc = b + 66 \/ pc = b + 67
  BY SMT, <1>1
<1> QED BY Zenon, <1>4, <1>5, <1>6, <1>7, <1>8

-----------------------------------------------------------------------------
(* The context that is gone on with *)

\* A context to go on with survives what is written elsewhere.
LEMMA ResumableKept ==
    ASSUME NEW o \in Owners, NEW sp, Resumable(o, sp), \A p, e : StacksKept(mem, mem', p, e),
           WordKept(mem, mem', scheduler_task_sp), WordKept(mem, mem', prev_task_sp), WordKept(mem, mem', task_sp),
           left' = left, Others, sreg' = sreg
    PROVE  Resumable(o, sp)'
<1>1. /\ WordIn(mem, task_sp) = sp /\ ResumeWorld(mem, left, task_sp_adr, active, o, sp)
      /\ Frame(mem, left, o, sp) /\ sreg < 128
  BY Zenon DEF Resumable
<1>2. sp \in Contexts(o)
  BY Zenon, <1>1 DEF Frame
<1>3. sp \in Int /\ sp =< sp
  BY Zenon, <1>2, ContextBounds, SameInt
<1>4. Kept(mem, mem', left, left, o, sp)
  BY Zenon DEF Kept
<1>5. Frame(mem', left, o, sp)
  BY Zenon, <1>1, <1>3, <1>4, FrameKeptBy
<1>6. ResumeWorld(mem', left, task_sp_adr, active, o, sp)
  BY Zenon, <1>1, <1>3, ResumeWorldKept
<1>7. WordIn(mem', task_sp) = sp
  BY Zenon, <1>1, WordInKept
<1> QED BY Zenon, <1>1, <1>5, <1>6, <1>7 DEF Resumable, Others

\* The choice can be gone on with: after the scheduler, the chosen task; after a task, the scheduler.
LEMMA TargetReady ==
    ASSUME NEW b, NEW o, NEW sp, Left(b, o, sp)
    PROVE  \E p \in Owners : \E q \in Contexts(p) :
              q = target(o) /\ Frame(mem, left, p, q) /\ ResumeWorld(mem, left, task_sp_adr, active, p, q)
<1>1. Frame(mem, left, o, sp) /\ WordIn(mem, prev_task_sp) = sp /\ o \in Owners /\ sp \in Contexts(o) /\ sp \in Int
  BY Zenon, LeftIs DEF Left, Saved
<1>2. CASE o = Scheduler
  <2>1. ChosenWorld(mem, left, task_sp_adr, active, sp + context)
    BY Zenon, <1>2, WhoIsNext
  <2>2. /\ WordIn(mem, scheduler_task_sp) = scheduler_sp
        /\ active \in Tasks /\ task_sp_adr[active] # 0 /\ Frames(mem, left, task_sp_adr, Scheduler)
        /\ sp + context = scheduler_sp \/ sp + context = Top(Scheduler)
        /\ sp + context = scheduler_sp => Frame(mem, left, Scheduler, scheduler_sp)
    BY Zenon, <2>1 DEF ChosenWorld
  <2>3. sp + context = Top(Scheduler) => sp = scheduler_sp
    BY SMT, <1>1, Geometry DEF scheduler_sp, context, Owners
  <2>4. Frame(mem, left, Scheduler, scheduler_sp)
    BY Zenon, <1>1, <1>2, <2>2, <2>3
  <2>5. active \in Owners /\ active # Scheduler /\ Frame(mem, left, active, task_sp_adr[active])
    BY Zenon, <2>2, TasksAre DEF Frames
  <2>6. Frames(mem, left, task_sp_adr, active)
    BY Zenon, <2>2, TasksAre DEF Frames
  <2>7. task_sp_adr[active] \in Contexts(active)
    BY Zenon, <2>5 DEF Frame
  <2>8. ResumeWorld(mem, left, task_sp_adr, active, active, task_sp_adr[active])
    BY Zenon, <2>2, <2>4, <2>6 DEF ResumeWorld
  <2> QED BY Zenon, <1>2, <2>5, <2>7, <2>8 DEF target
<1>3. CASE o # Scheduler
  <2>1. o = active /\ TaskWorld(mem, left, task_sp_adr, o)
    BY SMT, <1>3, WhoIsNext
  <2>2. /\ o \in Tasks /\ Frames(mem, left, task_sp_adr, o) /\ WordIn(mem, scheduler_task_sp) = scheduler_sp
        /\ Frame(mem, left, Scheduler, scheduler_sp)
    BY Zenon, <2>1 DEF TaskWorld, Started
  <2>3. scheduler_sp \in Contexts(Scheduler) /\ Scheduler \in Owners
    BY Zenon, <2>2, TasksAre DEF Frame
  <2>4. ResumeWorld(mem, left, task_sp_adr, active, Scheduler, scheduler_sp)
    BY Zenon, <1>1, <2>1, <2>2 DEF ResumeWorld
  <2> QED BY Zenon, <1>3, <2>2, <2>3, <2>4 DEF target
<1> QED BY Zenon, <1>2, <1>3

LEMMA StStay ==
    ASSUME TypeInv, Execute, NEW d \in 0..31, NEW p \in Pointers,
           At(pc, <<"st", d, p, 0>>), NEW a \in Addresses, Pointer(p) = a
    PROVE  /\ Wrote(a, R[d]) /\ PointsTo(R', p, a)
           /\ \A k \in 0..31 : k # p /\ k # p + 1 => R'[k] = R[k]
           /\ pc' = pc + 1 /\ SP' = SP /\ sreg' = sreg
           /\ Others /\ left' = left
<1>1. 0 \in {0, 1}
  OBVIOUS
<1>2. a + 0 = a
  BY SMT, AfterAddress
<1> QED BY Zenon, <1>1, <1>2, StTo

\* next_task_sp is cleared.
LEMMA SelectingLast ==
    ASSUME TypeInv, Execute, NEW b, NEW o, NEW sp, Selecting(b, o, sp), pc = b + 68
    PROVE  Others /\ \E p \in Owners : \E q \in Contexts(p) : Clearing(b, p, q)'
<1>1. b \in Int /\ R \in RegisterTypes /\ mem \in Memory /\ At(pc, <<"st", 1, 26, 0>>)
  BY Zenon, SelectIs
<1>2. Left(b, o, sp) /\ R[1] = 0 /\ sreg < 128
  BY Zenon, LeftIs DEF Selecting
<1>3. PointsTo(R, 26, next_task_sp + 1) /\ WordIn(mem, task_sp) = target(o)
  BY SMT, <1>1 DEF Selecting
<1> DEFINE x == next_task_sp + 1
<1>4. Pointer(26) = x /\ x \in Addresses /\ 26 \in Pointers /\ 1 \in 0..31
  BY Zenon, <1>3, NextPlaces, Literals DEF PointsTo, Pointer
<1> HIDE DEF x
<1>5. /\ Wrote(x, 0) /\ PointsTo(R', 26, x)
      /\ \A k \in 0..31 : k # 26 /\ k # 26 + 1 => R'[k] = R[k]
      /\ pc' = pc + 1 /\ SP' = SP /\ sreg' = sreg /\ Others /\ left' = left
  BY Zenon, <1>1, <1>2, <1>4, StStay
<1>6. R'[1] = 0 /\ pc' = b + 69
  BY SMT, <1>1, <1>2, <1>5
<1>7. mem'[x] = 0
  BY SMT, <1>1, <1>4, <1>5 DEF Wrote, Memory
<1>8. (\A p, e : StacksKept(mem, mem', p, e)) /\ \A w \in Words \ {next_task_sp} : WordKept(mem, mem', w)
  <2>1. mem' = [mem EXCEPT ![next_task_sp + 1] = 0]
    BY Zenon, <1>5 DEF Wrote, x
  <2> QED BY Zenon, <1>1, <2>1, NextPlaces, WordStore
<1>9. WordKept(mem, mem', scheduler_task_sp) /\ WordKept(mem, mem', prev_task_sp) /\ WordKept(mem, mem', task_sp)
  BY Zenon, <1>8, WordsUnlike
<1>10. PICK p \in Owners : \E q \in Contexts(p) :
              q = target(o) /\ Frame(mem, left, p, q) /\ ResumeWorld(mem, left, task_sp_adr, active, p, q)
  BY Zenon, <1>2, TargetReady
<1>11. PICK q \in Contexts(p) :
              q = target(o) /\ Frame(mem, left, p, q) /\ ResumeWorld(mem, left, task_sp_adr, active, p, q)
  BY Zenon, <1>10
<1>12. Resumable(p, q)
  BY Zenon, <1>2, <1>3, <1>11 DEF Resumable
<1>13. Resumable(p, q)'
  BY Zenon, <1>5, <1>8, <1>9, <1>12, ResumableKept
<1>14. Clearing(b, p, q)'
  BY Zenon, <1>5, <1>6, <1>7, <1>13 DEF Clearing, x
<1> QED BY Zenon, <1>5, <1>14

\* The whole selection.
LEMMA SelectingStep ==
    ASSUME TypeInv, Execute, NEW b, NEW o, NEW sp, Selecting(b, o, sp)
    PROVE  Others /\ (Selecting(b, o, sp)' \/ \E p \in Owners : \E q \in Contexts(p) : Clearing(b, p, q)')
<1>1. b \in Int /\ pc \in (b + 52)..(b + 68)
  BY Zenon, SelectIs DEF Selecting
<1>2. \/ pc \in (b + 52)..(b + 56) \/ pc \in (b + 57)..(b + 59) \/ pc \in (b + 60)..(b + 63)
      \/ pc \in (b + 64)..(b + 67) \/ pc = b + 68
  BY SMT, <1>1
<1> QED BY Zenon, <1>2, SelectingFirst, SelectingChoice, SelectingScheduler, SelectingStore, SelectingLast

\* What follows it.
LEMMA SwitchIs ==
    ASSUME NEW b \in SwitchAt
    PROVE  /\ b \in Int /\ Runs(b, CONTEXT_SWTICH)
           /\ At(b + 69, <<"st", 1, 26, -1>>)
           /\ At(b + 70, <<"sts", PRR1, 1>>) /\ At(b + 71, <<"sts", PRR0, 1>>)
           /\ Runs(b + 72, RESTORE_CONTEXT) /\ Runs(b + 112, SetMt("ori"))
           /\ b + 72 \in Int /\ b + 112 \in Int
<1>1. b \in Int /\ Runs(b, CONTEXT_SWTICH)
  <2>1. b \in Sites
    BY Zenon DEF Sites, SwitchAt
  <2> QED BY Zenon, <2>1, SiteRuns
<1>2. b + 52 \in Int /\ b + 70 \in Int /\ b + 72 \in Int /\ b + 112 \in Int /\ b + 52 + 17 = b + 69 /\ b + 70 + 1 = b + 71
  BY SMT, <1>1
<1>3. /\ Runs(b + 52, SELECT_SCHEDULED_TASK_OR_SCHEDULER) /\ Runs(b + 70, RESET_TIMER)
      /\ Runs(b + 72, RESTORE_CONTEXT) /\ Runs(b + 112, SetMt("ori"))
  BY Zenon, <1>1, SwitchParts DEF SCILENT_ENABLE_MT
<1>4. At(b + 52 + 17, <<"st", 1, 26, -1>>)
  BY Zenon, <1>2, <1>3, SelectCode
<1>5. At(b + 70, <<"sts", PRR1, 1>>) /\ At(b + 70 + 1, <<"sts", PRR0, 1>>)
  BY Zenon, <1>2, <1>3, ResetCode
<1>6. At(b + 69, <<"st", 1, 26, -1>>) /\ At(b + 71, <<"sts", PRR0, 1>>)
  BY SMT, <1>2, <1>4, <1>5
<1> QED BY Zenon, <1>1, <1>2, <1>3, <1>5, <1>6

\* RESET_TIMER.
LEMMA ClearingStep ==
    ASSUME TypeInv, Execute, NEW b \in SwitchAt, NEW o \in Owners, NEW sp, Clearing(b, o, sp)
    PROVE  Others /\ Restoring(b, o, sp)'
<1>1. /\ pc = b + 69 /\ PointsTo(R, 26, next_task_sp + 1) /\ R[1] = 0 /\ mem[next_task_sp + 1] = 0
      /\ Resumable(o, sp)
  BY Zenon DEF Clearing
<1>2. mem \in Memory /\ b \in Int /\ At(pc, <<"st", 1, 26, -1>>)
  BY Zenon, <1>1, SwitchIs DEF TypeInv, MachineType
<1>3. Pointer(26) + (IF -1 < 0 THEN -1 ELSE 0) = next_task_sp
  BY SMT, <1>1 DEF PointsTo, Pointer, next_task_sp
<1>4. /\ mem' = [mem EXCEPT ![next_task_sp] = R[1]]
      /\ pc' = pc + 1 /\ SP' = SP /\ sreg' = sreg /\ Others /\ left' = left
  <2>1. Pointer(26) + (IF -1 < 0 THEN -1 ELSE 0) \in Addresses
    BY Zenon, <1>3, NextPlaces
  <2>2. /\ mem' = [mem EXCEPT ![Pointer(26) + (IF -1 < 0 THEN -1 ELSE 0)] = R[1]]
        /\ pc' = pc + 1 /\ SP' = SP /\ sreg' = sreg /\ Others /\ left' = left
    BY Zenon, <1>2, <2>1, StStep
  <2> QED BY Zenon, <1>3, <2>2
<1>5. WordIn(mem', next_task_sp) = 0
  <2>1. mem'[next_task_sp] = 0 /\ mem'[next_task_sp + 1] = 0
    BY SMT, <1>1, <1>2, <1>4, NextPlaces DEF Memory, next_task_sp
  <2> QED BY SMT, <2>1 DEF WordIn
<1>6. (\A p, e : StacksKept(mem, mem', p, e)) /\ \A w \in Words \ {next_task_sp} : WordKept(mem, mem', w)
  BY Zenon, <1>2, <1>4, NextPlaces, WordStore
<1>7. WordKept(mem, mem', scheduler_task_sp) /\ WordKept(mem, mem', prev_task_sp) /\ WordKept(mem, mem', task_sp)
  BY Zenon, <1>6, WordsUnlike
<1>8. Resumable(o, sp)'
  BY Zenon, <1>1, <1>4, <1>6, <1>7, ResumableKept
<1>9. (pc \in (b + 70)..(b + 71))'
  BY SMT, <1>1, <1>2, <1>4
<1> QED BY Zenon, <1>4, <1>5, <1>8, <1>9 DEF Restoring

\* The head of RESTORE_CONTEXT.
LEMMA RestoringStep ==
    ASSUME TypeInv, Execute, NEW b \in SwitchAt, NEW o \in Owners, NEW sp, Restoring(b, o, sp)
    PROVE  Others /\ (Restoring(b, o, sp)' \/ Popping(b, o, sp)')
<1>1. /\ pc \in (b + 70)..(b + 71) \/ LoadingSp(b + 72)
      /\ WordIn(mem, next_task_sp) = 0 /\ Resumable(o, sp)
  BY Zenon DEF Restoring
<1>2. /\ mem \in Memory /\ b \in Int /\ b + 72 \in Int /\ At(b + 70, <<"sts", PRR1, 1>>) /\ At(b + 71, <<"sts", PRR0, 1>>)
      /\ Runs(b + 72, RESTORE_CONTEXT)
  BY Zenon, SwitchIs DEF TypeInv, MachineType
<1>3. CASE pc \in (b + 70)..(b + 71)
  <2>1. PICK a \in Ports : At(pc, <<"sts", a, 1>>)
    <3>1. pc = b + 70 \/ pc = b + 71
      BY SMT, <1>2, <1>3
    <3> QED BY Zenon, <1>2, <3>1 DEF Ports
  <2>2. /\ mem' = [mem EXCEPT ![a] = R[1]] /\ pc' = pc + 1 /\ sreg' = sreg /\ Others /\ left' = left
    BY Zenon, <2>1, StsStep
  <2>3. (\A p, e : StacksKept(mem, mem', p, e)) /\ WordsKept(mem, mem')
    BY Zenon, <1>2, <2>2, PortStore
  <2>4. /\ WordKept(mem, mem', scheduler_task_sp) /\ WordKept(mem, mem', prev_task_sp) /\ WordKept(mem, mem', task_sp)
        /\ WordKept(mem, mem', next_task_sp)
    BY Zenon, <2>3, WordsUnlike DEF WordsKept
  <2>5. Resumable(o, sp)' /\ WordIn(mem', next_task_sp) = 0
    BY Zenon, <1>1, <2>2, <2>3, <2>4, ResumableKept, WordInKept
  <2>6. CASE pc = b + 70
    <3>1. (pc \in (b + 70)..(b + 71))'
      BY SMT, <1>2, <2>2, <2>6
    <3> QED BY Zenon, <2>2, <2>5, <3>1 DEF Restoring
  <2>7. CASE pc = b + 71
    <3>1. pc' = b + 72
      BY SMT, <1>2, <2>2, <2>7
    <3>2. LoadingSp(b + 72)'
      BY SMT, <1>2, <3>1 DEF LoadingSp
    <3> QED BY Zenon, <2>2, <2>5, <3>2 DEF Restoring
  <2> QED BY SMT, <1>2, <1>3, <2>6, <2>7
<1>4. CASE LoadingSp(b + 72)
  <2>1. /\ pc' = pc + 1
        /\ pc # b + 72 + 5 => LoadingSp(b + 72)'
        /\ pc = b + 72 + 5 => SP' = WordIn(mem, task_sp)
        /\ Others /\ left' = left /\ sreg' = sreg /\ mem' = mem
    BY Zenon, <1>2, <1>4, LoadSpStep
  <2>2. Resumable(o, sp)' /\ WordIn(mem', next_task_sp) = 0
    BY Zenon, <1>1, <2>1 DEF Resumable, Others
  <2>3. CASE pc # b + 72 + 5
    BY Zenon, <2>1, <2>2, <2>3 DEF Restoring
  <2>4. CASE pc = b + 72 + 5
    <3>1. pc' = b + 78 /\ SP' = sp
      BY SMT, <1>1, <1>2, <2>1, <2>4 DEF Resumable
    <3>2. /\ ResumeWorld(mem', left', task_sp_adr', active', o, sp) /\ Frame(mem', left', o, sp) /\ sreg' < 128
          /\ sp \in Contexts(o)
      BY Zenon, <2>2 DEF Resumable, Frame
    <3>3. sp \in Int
      BY Zenon, <3>2, ContextBounds
    <3>4. Popping(b, o, sp)'
      BY SMT, <1>2, <2>2, <3>1, <3>2, <3>3 DEF Popping
    <3> QED BY Zenon, <2>1, <3>4
  <2> QED BY Zenon, <2>3, <2>4
<1> QED BY Zenon, <1>1, <1>3, <1>4

-----------------------------------------------------------------------------
(* RESTORE_CONTEXT *)

\* What Popping says at each pop.
LEMMA PoppingIs ==
    ASSUME NEW b \in SwitchAt, NEW o \in Owners, NEW sp, TypeInv, Popping(b, o, sp)
    PROVE  /\ sp \in Contexts(o) /\ sp \in Int /\ b \in Int /\ R \in RegisterTypes /\ sreg \in Byte
           /\ HoldsRegisters(mem, left, sp)
           /\ \A i \in 0..30 : At(b + (78 + i), <<"pop", 31 - i>>)
           /\ At(b + 109, <<"pop", 0>>) /\ At(b + 110, <<"out_sreg", 0>>) /\ At(b + 111, <<"pop", 0>>)
           /\ \A i \in 0..31 : sp + i + 1 \in Addresses
           /\ sp + 33 \in Addresses
           /\ pc \in (b + 78)..(b + 111)
           /\ SP = IF pc = b + 111 THEN sp + 32 ELSE sp + (pc - b - 78)
<1>1. Frame(mem, left, o, sp) /\ R \in RegisterTypes /\ sreg \in Byte /\ pc \in (b + 78)..(b + 111)
      /\ SP = IF pc = b + 111 THEN sp + 32 ELSE sp + (pc - b - 78)
  BY Zenon DEF TypeInv, MachineType, Popping
<1>2. HoldsRegisters(mem, left, sp) /\ sp \in Contexts(o)
  BY Zenon, <1>1 DEF Frame
<1>3. sp \in Int /\ \A k \in 0..36 : sp + k \in Addresses
  BY Zenon, <1>2, ContextBounds, ContextIn, StackAddresses
<1>4. \A i \in 0..31 : sp + i + 1 = sp + (i + 1) /\ i + 1 \in 0..36
  BY SMT, <1>3
<1>5. 33 \in 0..36
  BY SMT
<1>6. b \in Int /\ b + 72 \in Int /\ Runs(b + 72, RESTORE_CONTEXT)
  BY Zenon, SwitchIs
<1>7. /\ \A j \in 6..36 : At(b + 72 + j, <<"pop", 37 - j>>)
      /\ At(b + 72 + 37, <<"pop", 0>>) /\ At(b + 72 + 38, <<"out_sreg", 0>>) /\ At(b + 72 + 39, <<"pop", 0>>)
  BY Zenon, <1>6, RestoreCode
<1>8. \A i \in 0..30 : At(b + (78 + i), <<"pop", 31 - i>>)
  <2>1. \A i \in 0..30 : i + 6 \in 6..36 /\ b + 72 + (i + 6) = b + (78 + i) /\ 37 - (i + 6) = 31 - i
    BY SMT, <1>6
  <2> QED BY Zenon, <1>7, <2>1
<1>9. b + 72 + 37 = b + 109 /\ b + 72 + 38 = b + 110 /\ b + 72 + 39 = b + 111
  BY SMT, <1>6
<1>10. At(b + 109, <<"pop", 0>>) /\ At(b + 110, <<"out_sreg", 0>>) /\ At(b + 111, <<"pop", 0>>)
  BY Zenon, <1>7, <1>9
<1>11. (\A i \in 0..31 : sp + i + 1 \in Addresses) /\ sp + 33 \in Addresses
  BY Zenon, <1>3, <1>4, <1>5
<1>12. b \in Int /\ sp \in Int /\ sp \in Contexts(o)
  BY Zenon, <1>2, <1>3, <1>6
<1> HIDE DEF Byte, RegisterTypes, HoldsRegisters, At, Addresses, Contexts
<1> QED BY SMT, <1>1, <1>2, <1>8, <1>10, <1>11, <1>12

\* A step that only changes registers, SP and SREG leaves the saved context.
LEMMA PoppingKeeps ==
    ASSUME NEW b, NEW o, NEW sp, Popping(b, o, sp), mem' = mem, left' = left, Others
    PROVE  /\ WordIn(mem', next_task_sp) = 0
           /\ ResumeWorld(mem', left', task_sp_adr', active', o, sp)
           /\ Frame(mem', left', o, sp)
<1>1. /\ WordIn(mem, next_task_sp) = 0
      /\ ResumeWorld(mem, left, task_sp_adr, active, o, sp)
      /\ Frame(mem, left, o, sp)
  BY Zenon DEF Popping
<1> QED BY Zenon, <1>1 DEF Others

\* The registers, from 31 down to 1.
LEMMA PoppingRegister ==
    ASSUME TypeInv, Execute, NEW b \in SwitchAt, NEW o \in Owners, NEW sp, Popping(b, o, sp),
           pc \in (b + 78)..(b + 108)
    PROVE  Others /\ Popping(b, o, sp)'
<1>1. /\ sp \in Int /\ b \in Int /\ R \in RegisterTypes
      /\ HoldsRegisters(mem, left, sp)
      /\ \A i \in 0..30 : At(b + (78 + i), <<"pop", 31 - i>>)
      /\ \A i \in 0..31 : sp + i + 1 \in Addresses
      /\ SP = IF pc = b + 111 THEN sp + 32 ELSE sp + (pc - b - 78)
  BY SMT, PoppingIs
<1>2. \E i \in 0..30 : pc = b + (78 + i) /\ SP = sp + i
  <2> DEFINE i == pc - b - 78
  <2>1. i \in 0..30 /\ pc = b + (78 + i) /\ SP = sp + i
    BY SMT, <1>1
  <2> QED BY Zenon, <2>1
<1>3. PICK i \in 0..30 : pc = b + (78 + i) /\ SP = sp + i
  BY Zenon, <1>2
<1>4. At(pc, <<"pop", 31 - i>>)
  BY Zenon, <1>1, <1>3
<1>5. SP + 1 \in Addresses
  <2>1. i \in 0..31
    BY SMT
  <2> QED BY Zenon, <1>1, <1>3, <2>1
<1>6. /\ R' = [R EXCEPT ![31 - i] = mem[SP + 1]]
      /\ SP' = SP + 1 /\ pc' = pc + 1 /\ mem' = mem /\ sreg' = sreg /\ Others /\ left' = left
  BY Zenon, <1>4, <1>5, PopStep
<1>7. mem[SP + 1] = left[sp].R[31 - i]
  <2>1. 31 - i \in 1..31 /\ sp + 32 - (31 - i) = SP + 1
    BY SMT, <1>1, <1>3
  <2> QED BY Zenon, <1>1, <2>1 DEF HoldsRegisters
<1>8. R'[31 - i] = left[sp].R[31 - i] /\ \A k \in 1..31 : k # 31 - i => R'[k] = R[k]
  BY SMT, <1>1, <1>6, <1>7 DEF RegisterTypes
<1>9. \A k \in 1..31 : k >= 110 - (pc' - b) => R'[k] = left'[sp].R[k]
  <2>1. \A k \in 1..31 : k >= 110 - (pc - b) => R[k] = left[sp].R[k]
    BY Zenon DEF Popping
  <2> QED BY SMT, <1>1, <1>3, <1>6, <1>8, <2>1
<1>10. /\ WordIn(mem', next_task_sp) = 0 /\ ResumeWorld(mem', left', task_sp_adr', active', o, sp)
       /\ Frame(mem', left', o, sp)
  BY Zenon, <1>6, PoppingKeeps
<1>11. sreg < 128
  BY SMT, <1>1 DEF Popping
<1>12. /\ pc' \in (b + 78)..(b + 111) /\ pc' # b + 111 /\ pc' # b + 110 /\ SP' = sp + (pc' - b - 78)
  BY SMT, <1>1, <1>3, <1>6
<1> QED BY Zenon, <1>6, <1>9, <1>10, <1>11, <1>12 DEF Popping

\* SREG and r0.
LEMMA PoppingLast ==
    ASSUME TypeInv, Execute, NEW b \in SwitchAt, NEW o \in Owners, NEW sp, Popping(b, o, sp),
           pc \in (b + 109)..(b + 111)
    PROVE  Others /\ IF pc = b + 111 THEN Finishing(b, o, sp)' ELSE Popping(b, o, sp)'
<1>1. /\ sp \in Int /\ sp \in Contexts(o) /\ b \in Int /\ R \in RegisterTypes
      /\ HoldsRegisters(mem, left, sp)
      /\ At(b + 109, <<"pop", 0>>) /\ At(b + 110, <<"out_sreg", 0>>) /\ At(b + 111, <<"pop", 0>>)
      /\ \A i \in 0..31 : sp + i + 1 \in Addresses
      /\ sp + 33 \in Addresses
      /\ SP = IF pc = b + 111 THEN sp + 32 ELSE sp + (pc - b - 78)
  <2>1. /\ sp \in Int /\ sp \in Contexts(o) /\ b \in Int /\ R \in RegisterTypes
        /\ HoldsRegisters(mem, left, sp)
        /\ At(b + 109, <<"pop", 0>>) /\ At(b + 110, <<"out_sreg", 0>>) /\ At(b + 111, <<"pop", 0>>)
    BY SMT, PoppingIs
  <2>2. /\ \A i \in 0..31 : sp + i + 1 \in Addresses
        /\ sp + 33 \in Addresses
        /\ SP = IF pc = b + 111 THEN sp + 32 ELSE sp + (pc - b - 78)
    BY Zenon, PoppingIs
  <2> QED BY Zenon, <2>1, <2>2
<1>2. \A k \in 1..31 : R[k] = left[sp].R[k]
  <2>1. \A k \in 1..31 : k >= 110 - (pc - b) => R[k] = left[sp].R[k]
    BY Zenon DEF Popping
  <2> QED BY SMT, <1>1, <2>1
<1>3. CASE pc = b + 109
  <2>1. SP = sp + 31 /\ SP + 1 = sp + 32 /\ SP + 1 \in Addresses
    BY SMT, <1>1, <1>3
  <2>9. At(pc, <<"pop", 0>>)
    BY Zenon, <1>1, <1>3
  <2>2. /\ R' = [R EXCEPT ![0] = mem[SP + 1]]
        /\ SP' = SP + 1 /\ pc' = pc + 1 /\ mem' = mem /\ sreg' = sreg /\ Others /\ left' = left
    BY Zenon, <2>9, <2>1, PopStep
  <2>3. R'[0] = mem[SP + 1] /\ \A k \in 1..31 : R'[k] = R[k]
    BY SMT, <1>1, <2>2 DEF RegisterTypes
  <2>4. R'[0] = left[sp].sreg
    <3>1. mem[sp + 32] = left[sp].sreg
      BY Zenon, <1>1 DEF HoldsRegisters
    <3> QED BY Zenon, <2>1, <2>3, <3>1
  <2>5. /\ WordIn(mem', next_task_sp) = 0 /\ ResumeWorld(mem', left', task_sp_adr', active', o, sp)
        /\ Frame(mem', left', o, sp)
    BY Zenon, <2>2, PoppingKeeps
  <2>6. sreg < 128
    BY SMT, <1>1, <1>3 DEF Popping
  <2>7. /\ pc' = b + 110 /\ pc' \in (b + 78)..(b + 111) /\ pc' # b + 111 /\ SP' = sp + (pc' - b - 78) /\ pc # b + 111
    BY SMT, <1>1, <1>3, <2>1, <2>2
  <2>10. \A k \in 1..31 : R'[k] = left'[sp].R[k]
    BY Zenon, <1>2, <2>2, <2>3
  <2>11. sreg' < 128 /\ R'[0] = left'[sp].sreg
    BY Zenon, <2>2, <2>4, <2>6
  <2>8. Popping(b, o, sp)'
    BY SMT, <2>5, <2>7, <2>10, <2>11 DEF Popping
  <2> QED BY Zenon, <2>2, <2>7, <2>8
<1>4. CASE pc = b + 110
  <2>1. SP = sp + 32
    BY SMT, <1>1, <1>4
  <2>2. /\ sreg' = R[0]
        /\ SP' = SP /\ pc' = pc + 1 /\ mem' = mem /\ R' = R /\ Others /\ left' = left
    <3>1. At(pc, <<"out_sreg", 0>>)
      BY Zenon, <1>1, <1>4
    <3> QED BY Zenon, <3>1, OutSregStep
  <2>3. R[0] = left[sp].sreg
    BY Zenon, <1>4 DEF Popping
  <2>5. /\ WordIn(mem', next_task_sp) = 0 /\ ResumeWorld(mem', left', task_sp_adr', active', o, sp)
        /\ Frame(mem', left', o, sp)
    BY Zenon, <2>2, PoppingKeeps
  <2>7. /\ pc' = b + 111 /\ pc' \in (b + 78)..(b + 111) /\ pc' # b + 110 /\ ~(pc' < b + 111) /\ pc # b + 111
    BY SMT, <1>1, <1>4, <2>2
  <2>10. \A k \in 1..31 : R'[k] = left'[sp].R[k]
    BY Zenon, <1>2, <2>2
  <2>11. sreg' = left'[sp].sreg /\ SP' = sp + 32
    BY Zenon, <2>1, <2>2, <2>3
  <2>8. Popping(b, o, sp)'
    BY SMT, <1>1, <2>5, <2>7, <2>10, <2>11 DEF Popping
  <2> QED BY Zenon, <2>2, <2>7, <2>8
<1>5. CASE pc = b + 111
  <2>1. SP = sp + 32 /\ SP + 1 = sp + 33 /\ SP + 1 \in Addresses
    BY SMT, <1>1, <1>5
  <2>12. At(pc, <<"pop", 0>>)
    BY Zenon, <1>1, <1>5
  <2>2. /\ R' = [R EXCEPT ![0] = mem[SP + 1]]
        /\ SP' = SP + 1 /\ pc' = pc + 1 /\ mem' = mem /\ sreg' = sreg /\ Others /\ left' = left
    BY Zenon, <2>12, <2>1, PopStep
  <2>3. R'[0] = mem[SP + 1] /\ \A k \in 1..31 : R'[k] = R[k]
    BY SMT, <1>1, <2>2 DEF RegisterTypes
  <2>4. R'[0] = left[sp].R[0]
    <3>1. mem[sp + 33] = left[sp].R[0]
      BY Zenon, <1>1 DEF HoldsRegisters
    <3> QED BY Zenon, <2>1, <2>3, <3>1
  <2>5. /\ WordIn(mem', next_task_sp) = 0 /\ ResumeWorld(mem', left', task_sp_adr', active', o, sp)
        /\ Frame(mem', left', o, sp)
    BY Zenon, <2>2, PoppingKeeps
  <2>6. sreg = left[sp].sreg
    BY Zenon, <1>5 DEF Popping
  <2>7. \A k \in 0..31 : R'[k] = left'[sp].R[k]
    BY SMT, <1>2, <2>2, <2>3, <2>4
  <2>8. Popped(o, sp)'
    BY Zenon, <2>2, <2>5, <2>6, <2>7 DEF Popped, Frame, register_bytes
  <2>9. pc' = b + 112 /\ SP' = sp + 33
    BY SMT, <1>1, <1>5, <2>1, <2>2
  <2>10. Enabling(b + 112, sp + 33)' /\ (pc \in (b + 112)..(b + 116))'
    BY SMT, <1>1, <2>9 DEF Enabling, SpInSetMt
  <2>11. R'[16] = left'[sp].R[16] /\ sreg' \div 32 = left'[sp].sreg \div 32
    <3>1. 16 \in 0..31
      BY SMT
    <3> QED BY Zenon, <2>2, <2>6, <2>7, <3>1
  <2> QED BY Zenon, <1>5, <2>2, <2>8, <2>9, <2>10, <2>11 DEF Finishing
<1>6. pc = b + 109 \/ pc = b + 110 \/ pc = b + 111
  BY SMT, <1>1
<1> QED BY Zenon, <1>3, <1>4, <1>5, <1>6

\* The whole of it.
LEMMA PoppingStep ==
    ASSUME TypeInv, Execute, NEW b \in SwitchAt, NEW o \in Owners, NEW sp, Popping(b, o, sp)
    PROVE  Others /\ (Popping(b, o, sp)' \/ Finishing(b, o, sp)')
<1>1. b \in Int /\ pc \in (b + 78)..(b + 111)
  BY Zenon, SwitchIs DEF Popping
<1>2. pc \in (b + 78)..(b + 108) \/ pc \in (b + 109)..(b + 111)
  BY SMT, <1>1
<1> QED BY Zenon, <1>2, PoppingRegister, PoppingLast

-----------------------------------------------------------------------------
(* SCILENT_ENABLE_MT, and the return *)

\* SCILENT_ENABLE_MT after a restored context.
LEMMA EnablingStep ==
    ASSUME TypeInv, Execute, NEW b \in Int, Runs(b, SetMt("ori")),
           NEW o \in Owners, NEW sp \in Stack(o), Enabling(b, sp), pc # b + 5
    PROVE  /\ pc' = pc + 1 /\ Enabling(b, sp)' /\ MtKept(o, sp)
           /\ pc = b => mem'[sp] = R[16]
           /\ pc \in (b + 1)..(b + 3) => mem'[sp] = mem[sp]
           /\ pc = b + 4 => R'[16] = mem[sp]
<1>1. pc \in b..(b + 4) /\ SpInSetMt(b, sp) /\ "ori" \in {"ori", "andi"}
  BY SMT DEF Enabling
<1>2. /\ pc' = pc + 1 /\ SpInSetMt(b, sp)' /\ MtKept(o, sp)
      /\ pc = b => mem'[sp] = R[16]
      /\ pc \in (b + 1)..(b + 3) => mem'[sp] = mem[sp]
      /\ pc = b + 4 => R'[16] = mem[sp]
      /\ pc = b + 2 => Bit(R'[16], OCIE1A) = 1
      /\ pc = b + 3 => Bit(mem'[TIMSK1], OCIE1A) = Bit(R[16], OCIE1A)
      /\ pc = b + 4 => mem'[TIMSK1] = mem[TIMSK1]
  BY Zenon, <1>1, SetMtStep
<1>3. pc = b + 3 => Mt'
  <2>1. pc = b + 3 => Bit(R[16], OCIE1A) = 1
    BY Zenon DEF Enabling
  <2> QED BY Zenon, <1>2, <2>1 DEF Mt
<1>4. pc = b + 4 => Mt'
  <2>1. ASSUME pc = b + 4 PROVE Mt
    <3>1. pc \in (b + 4)..(b + 5)
      BY SMT, <2>1
    <3> QED BY Zenon, <3>1 DEF Enabling
  <2>2. Mt /\ mem'[TIMSK1] = mem[TIMSK1] => Mt'
    BY Zenon DEF Mt
  <2> QED BY Zenon, <1>2, <2>1, <2>2
<1>5. Enabling(b, sp)'
  <2>1. pc' \in b..(b + 5) /\ (pc' = b + 3 => pc = b + 2) /\ (pc' \in (b + 4)..(b + 5) => pc = b + 3 \/ pc = b + 4)
    BY SMT, <1>1, <1>2
  <2> QED BY Zenon, <1>2, <1>3, <1>4, <2>1 DEF Enabling
<1> QED BY Zenon, <1>2, <1>5

\* What it keeps.
LEMMA PoppedKept ==
    ASSUME NEW o \in Owners, NEW sp \in Contexts(o), Popped(o, sp), StacksKept(mem, mem', o, sp + 33),
           WordsKept(mem, mem'), Others, left' = left,
           \A k \in 0..31 : k # 16 => R'[k] = R[k], sreg' % 2 = sreg % 2
    PROVE  Popped(o, sp)'
<1> DEFINE e == sp + 33
<1>1. e \in Int /\ sp \in Int /\ e >= Top(o) - 81 /\ e =< e
  <2>1. sp \in Int /\ e \in Int /\ e >= Top(o) - 81
    BY Zenon, ContextBounds
  <2> HIDE DEF e
  <2> QED BY Zenon, <2>1, SameInt
<1> HIDE DEF e
<1>2. /\ WordKept(mem, mem', next_task_sp) /\ WordKept(mem, mem', scheduler_task_sp)
      /\ WordKept(mem, mem', prev_task_sp)
  BY Zenon, WordsUnlike DEF WordsKept
<1>3. StacksKept(mem, mem', o, e)
  BY Zenon DEF e
<1>4. StackKept(mem, mem', o, e)
  BY Zenon, <1>1, <1>3, OneKept
<1>5. /\ WordIn(mem, next_task_sp) = 0
      /\ ResumeWorld(mem, left, task_sp_adr, active, o, sp)
      /\ RetPoint(mem, o, e)
      /\ HoldsAbove(mem, left, o, sp)
  BY Zenon DEF Popped, e, register_bytes
<1>6. WordIn(mem', next_task_sp) = 0
  BY Zenon, <1>2, <1>5, WordInKept
<1>7. ResumeWorld(mem', left, task_sp_adr, active, o, sp)
  BY Zenon, <1>1, <1>2, <1>3, <1>5, ResumeWorldKept
<1>8. RetPoint(mem', o, e)
  BY Zenon, <1>1, <1>4, <1>5, RetPointKept
<1>9. HoldsAbove(mem', left, o, sp)
  <2>1. e =< sp + 33 /\ sp \in DOMAIN left
    BY Zenon, <1>1, <1>5 DEF HoldsAbove, e
  <2> QED BY Zenon, <1>1, <1>4, <1>5, <2>1, HoldsAboveKept
<1>10. active' = active /\ task_sp_adr' = task_sp_adr
  BY Zenon DEF Others
<1>11. (\A k \in 0..31 : k # 16 => R[k] = left[sp].R[k]) /\ sreg % 2 = left[sp].sreg % 2
  BY Zenon DEF Popped
<1>12. RetPoint(mem', o, sp + 33)
  BY Zenon, <1>8 DEF e
<1>13. (\A k \in 0..31 : k # 16 => R'[k] = left'[sp].R[k]) /\ sreg' % 2 = left'[sp].sreg % 2
  BY Zenon, <1>11
<1> QED BY Zenon, <1>6, <1>7, <1>9, <1>10, <1>12, <1>13 DEF Popped

\* It leads to the return.
LEMMA FinishingStep ==
    ASSUME TypeInv, Execute, NEW b \in SwitchAt, NEW o \in Owners, NEW sp \in Contexts(o), Finishing(b, o, sp)
    PROVE  Others /\ (Finishing(b, o, sp)' \/ Resuming(b, o, sp)')
<1> DEFINE f == b + 112
<1> DEFINE e == sp + 33
<1>1. b \in Int /\ f \in Int /\ Runs(f, SetMt("ori"))
  BY Zenon, SwitchIs
<1>2. e \in Stack(o) /\ e \in Int /\ sp \in Int
  BY Zenon, SavingPlaces, ContextBounds
<1>3. Enabling(f, e) /\ pc \in f..(b + 116) /\ Popped(o, sp) /\ sreg \div 32 = left[sp].sreg \div 32
      /\ IF pc = f THEN R[16] = left[sp].R[16] ELSE mem[e] = left[sp].R[16]
  BY Zenon DEF Finishing
<1>4. b + 116 = f + 4 /\ b + 117 = f + 5
  BY SMT, <1>1
<1> HIDE DEF f, e
<1>5. pc # f + 5 /\ pc \in f..(f + 4) /\ pc \in Int
  BY SMT, <1>1, <1>3, <1>4
<1>6. /\ pc' = pc + 1 /\ Enabling(f, e)' /\ MtKept(o, e)
      /\ pc = f => mem'[e] = R[16]
      /\ pc \in (f + 1)..(f + 3) => mem'[e] = mem[e]
      /\ pc = f + 4 => R'[16] = mem[e]
  BY Zenon, <1>1, <1>2, <1>3, <1>5, EnablingStep
<1>7. /\ StacksKept(mem, mem', o, e) /\ WordsKept(mem, mem') /\ Others /\ left' = left
      /\ \A k \in 0..31 : k # 16 => R'[k] = R[k]
      /\ sreg' % 2 = sreg % 2 /\ sreg' \div 32 = sreg \div 32
  BY Zenon, <1>6 DEF MtKept
<1>8. Popped(o, sp)'
  <2>1. StacksKept(mem, mem', o, sp + 33)
    BY Zenon, <1>7 DEF e
  <2> QED BY Zenon, <1>3, <1>7, <2>1, PoppedKept
<1>9. sreg' \div 32 = left'[sp].sreg \div 32
  BY Zenon, <1>3, <1>7
<1>10. CASE pc = f + 4
  <2>1. R'[16] = left'[sp].R[16]
    <3>1. pc # f
      BY SMT, <1>1, <1>10
    <3> QED BY Zenon, <1>3, <1>6, <1>7, <1>10, <3>1
  <2>2. pc' = b + 117 /\ pc' = f + 5
    BY SMT, <1>1, <1>4, <1>6, <1>10
  <2>3. SP' = e
    <3>1. SpInSetMt(f, e)'
      BY Zenon, <1>6 DEF Enabling
    <3> QED BY SMT, <1>1, <2>2, <3>1 DEF SpInSetMt
  <2>4. Mt'
    <3>1. pc' \in (f + 4)..(f + 5)
      BY SMT, <1>1, <2>2
    <3>2. pc' \in (f + 4)..(f + 5) => Mt'
      BY Zenon, <1>6 DEF Enabling
    <3> QED BY Zenon, <3>1, <3>2
  <2>5. (sreg' \div 32) % 4 = (left'[sp].sreg \div 32) % 4
    BY Zenon, <1>9
  <2>6. SP' = sp + 33
    BY Zenon, <2>3 DEF e
  <2>7. Resuming(b, o, sp)'
    BY Zenon, <1>8, <1>9, <2>1, <2>2, <2>4, <2>5, <2>6 DEF Resuming
  <2> QED BY Zenon, <1>7, <2>7
<1>11. CASE pc # f + 4
  <2>1. pc' \in f..(b + 116) /\ pc' # f /\ (pc = f \/ pc \in (f + 1)..(f + 3))
    BY SMT, <1>1, <1>4, <1>5, <1>6, <1>11
  <2>2. mem'[e] = left'[sp].R[16]
    <3>1. pc \in (f + 1)..(f + 3) => pc # f
      BY SMT, <1>1
    <3> QED BY Zenon, <1>3, <1>6, <1>7, <2>1, <3>1
  <2>3. Finishing(b, o, sp)'
    <3>1. /\ pc' \in (b + 112)..(b + 116) /\ Enabling(b + 112, sp + 33)' /\ pc' # b + 112
          /\ mem'[sp + 33] = left'[sp].R[16]
      BY Zenon, <1>6, <2>1, <2>2 DEF f, e
    <3> QED BY Zenon, <1>8, <1>9, <3>1 DEF Finishing
  <2> QED BY Zenon, <1>7, <2>3
<1> QED BY Zenon, <1>10, <1>11

\* The two ends of the switch.
LEMMA ReturnCode ==
    /\ At(YieldSave + 117, <<"sei">>) /\ At(YieldSave + 118, <<"ret">>) /\ At(TimerAt + 117, <<"reti">>)
    /\ YieldSave # TimerAt /\ YieldSave \in Int /\ TimerAt \in Int
<1>1. YieldAt \in Int
  BY SMT, Places
<1>2. YieldSave + 117 = YieldAt + 118 /\ YieldSave + 118 = YieldAt + 119
  BY SMT, <1>1 DEF YieldSave
<1> QED BY Zenon, <1>2, SiteCode, SitesAre

\* The I flag aside, sei and reti leave SREG.
LEMMA FlagSet ==
    ASSUME sreg \in Byte, NEW s, s = 128 + (sreg % 128) \/ (s = IF IFlag THEN sreg ELSE sreg + 128)
    PROVE  /\ s >= 128 /\ s \in Byte
           /\ s % 2 = sreg % 2 /\ (s \div 32) % 4 = (sreg \div 32) % 4
  BY SMT DEF IFlag, Byte

\* What a return address is read from.
LEMMA ReturnReads ==
    ASSUME NEW o \in Owners, NEW sp \in Contexts(o), SP = sp + 33
    PROVE  /\ (SP + 1)..(SP + 3) \subseteq Addresses /\ SP + 3 = sp + context
           /\ PcAbove(SP) = PcIn(mem, sp + 33)
<1>1. sp \in Int /\ \A k \in 0..36 : sp + k \in Addresses
  BY Zenon, ContextBounds, ContextIn, StackAddresses
<1>2. \A a \in (SP + 1)..(SP + 3) : \E k \in 0..36 : a = sp + k
  BY SMT, <1>1
<1>3. (SP + 1)..(SP + 3) \subseteq Addresses
  BY Zenon, <1>1, <1>2
<1>4. SP + 3 = sp + context
  BY SMT, <1>1 DEF context
<1>5. PcAbove(SP) = PcIn(mem, SP)
  BY SMT DEF PcAbove, PcIn, Bytes
<1> QED BY Zenon, <1>3, <1>4, <1>5

\* The last sei of k_yield.
LEMMA ResumingSei ==
    ASSUME TypeInv, Execute, NEW o \in Owners, NEW sp \in Contexts(o),
           Resuming(YieldSave, o, sp), pc = YieldSave + 117
    PROVE  Others /\ Resuming(YieldSave, o, sp)'
<1> DEFINE b == YieldSave
<1>1. At(pc, <<"sei">>) /\ b \in Int /\ sreg \in Byte
  BY Zenon, ReturnCode DEF TypeInv, MachineType
<1>2. /\ sreg' = 128 + (sreg % 128)
      /\ pc' = pc + 1 /\ SP' = SP /\ mem' = mem /\ R' = R /\ Others /\ left' = left
  BY Zenon, <1>1, SeiStep
<1>3. sreg' >= 128 /\ sreg' % 2 = sreg % 2 /\ (sreg' \div 32) % 4 = (sreg \div 32) % 4
  BY Zenon, <1>1, <1>2, FlagSet
<1>4. pc' = b + 118 /\ pc' # b + 117
  BY SMT, <1>1, <1>2
<1>5. /\ SP = sp + 33 /\ Mt
      /\ Popped(o, sp)
      /\ R[16] = left[sp].R[16]
      /\ (sreg \div 32) % 4 = (left[sp].sreg \div 32) % 4
  BY Zenon DEF Resuming
<1>6. Popped(o, sp)'
  BY Zenon, <1>2, <1>3, <1>5 DEF Popped, Others
<1>7. Mt'
  BY Zenon, <1>2, <1>5 DEF Mt
<1>8. IFlag'
  BY Zenon, <1>3 DEF IFlag
<1>9. (sreg' \div 32) % 4 = (left'[sp].sreg \div 32) % 4
  BY Zenon, <1>2, <1>3, <1>5
<1> QED BY Zenon, <1>2, <1>4, <1>5, <1>6, <1>7, <1>8, <1>9 DEF Resuming

Returns(b) == (b = YieldSave /\ pc = b + 118) \/ (b = TimerAt /\ pc = b + 117)

\* ret and reti.
LEMMA ReturnStep ==
    ASSUME TypeInv, Execute, NEW b, NEW o \in Owners, NEW sp \in Contexts(o), Resuming(b, o, sp), Returns(b)
    PROVE  /\ SP = sp + 33 /\ SP' = sp + context /\ pc' = PcIn(mem, sp + 33)
           /\ R' = R /\ mem' = mem /\ Others /\ left' = left
           /\ InterruptsOn'
           /\ sreg' % 2 = left[sp].sreg % 2 /\ (sreg' \div 32) % 4 = (left[sp].sreg \div 32) % 4
<1>1. /\ SP = sp + 33 /\ Mt /\ Popped(o, sp) /\ (sreg \div 32) % 4 = (left[sp].sreg \div 32) % 4
  BY Zenon DEF Resuming
<1>2. /\ (SP + 1)..(SP + 3) \subseteq Addresses /\ SP + 3 = sp + context
      /\ PcAbove(SP) = PcIn(mem, sp + 33)
  BY Zenon, <1>1, ReturnReads
<1>3. sreg \in Byte
  BY Zenon DEF TypeInv, MachineType
<1>4. sreg % 2 = left[sp].sreg % 2
  BY Zenon, <1>1 DEF Popped
<1>5. CASE b = YieldSave /\ pc = b + 118
  <2>1. At(pc, <<"ret">>)
    BY Zenon, <1>5, ReturnCode
  <2>2. "ret" \in {"ret", "return"}
    BY Zenon
  <2>3. /\ SP' = SP + 3 /\ pc' = PcAbove(SP) /\ R' = R /\ mem' = mem
        /\ sreg' = sreg /\ Others /\ left' = left
    BY Zenon, <1>2, <2>1, <2>2, RetStep
  <2>4. IFlag
    <3>1. pc # b + 117
      BY SMT, <1>5, ReturnCode
    <3> QED BY Zenon, <3>1 DEF Resuming
  <2>5. InterruptsOn'
    BY Zenon, <1>1, <2>3, <2>4 DEF InterruptsOn, IFlag, Mt
  <2> QED BY Zenon, <1>1, <1>2, <1>4, <2>3, <2>5
<1>6. CASE b = TimerAt /\ pc = b + 117
  <2>1. At(pc, <<"reti">>)
    BY Zenon, <1>6, ReturnCode
  <2>2. /\ SP' = SP + 3 /\ pc' = PcAbove(SP) /\ R' = R /\ mem' = mem
        /\ sreg' = IF IFlag THEN sreg ELSE sreg + 128
        /\ Others /\ left' = left
    BY Zenon, <1>2, <2>1, RetiStep
  <2>3. sreg' >= 128 /\ sreg' % 2 = sreg % 2 /\ (sreg' \div 32) % 4 = (sreg \div 32) % 4
    BY Zenon, <1>3, <2>2, FlagSet
  <2>4. InterruptsOn'
    BY Zenon, <1>1, <2>2, <2>3 DEF InterruptsOn, IFlag, Mt
  <2> QED BY Zenon, <1>1, <1>2, <1>4, <2>2, <2>3, <2>4
<1> QED BY Zenon, <1>5, <1>6 DEF Returns

\* Whoever goes on: a task in its code, at the head of k_yield or spawn_task, or where spawn_task
\* returns; or the scheduler, in its loop.
LEMMA ReturnLands ==
    ASSUME TypeInv, Execute, NEW b, NEW o \in Owners, NEW sp \in Contexts(o), Resuming(b, o, sp), Returns(b)
    PROVE  InTask' \/ InCall' \/ SpawnReturns' \/ InPass(Top(Scheduler))'
<1>1. /\ SP' = sp + context /\ pc' = PcIn(mem, sp + 33)
      /\ R' = R /\ mem' = mem /\ Others /\ left' = left
      /\ InterruptsOn'
  BY Zenon, ReturnStep
<1>2. Popped(o, sp)
  BY Zenon DEF Resuming
<1>3. /\ WordIn(mem, next_task_sp) = 0
      /\ ResumeWorld(mem, left, task_sp_adr, active, o, sp)
      /\ RetPoint(mem, o, sp + 33)
  BY Zenon, <1>2 DEF Popped, register_bytes
<1>4. /\ WordIn(mem, scheduler_task_sp) = scheduler_sp /\ active \in Tasks /\ Frames(mem, left, task_sp_adr, active)
      /\ \/ o = active /\ Frame(mem, left, Scheduler, scheduler_sp)
         \/ o = Scheduler /\ sp = scheduler_sp /\ Frame(mem, left, active, WordIn(mem, prev_task_sp))
  BY Zenon, <1>3 DEF ResumeWorld
<1>5. sp \in Int /\ sp + 33 + 3 = sp + context
  BY SMT, ContextBounds DEF context
<1>6. CASE o = active /\ Frame(mem, left, Scheduler, scheduler_sp)
  <2>1. TaskWorld(mem, left, task_sp_adr, active)
    BY Zenon, <1>3, <1>4, <1>6 DEF TaskWorld, Started
  <2>2. TaskWorld(mem, left, task_sp_adr, active)' /\ active' = active
    BY Zenon, <1>1, <2>1 DEF Others
  <2>3. TaskState(active)'
    BY Zenon, <1>1, <2>2 DEF TaskState
  <2>4. RetDirect(mem, active, sp + 33) \/ RetNested(mem, active, sp + 33)
    BY Zenon, <1>3, <1>4, <1>6, TasksAre DEF RetPoint
  <2>5. CASE RetDirect(mem, active, sp + 33)
    <3>1. SP' \in (Top(active) - MaxDepth)..Top(active) /\ pc' \in TaskCode(active)
      BY Zenon, <1>1, <1>5, <2>5 DEF RetDirect
    <3> QED BY Zenon, <2>2, <2>3, <3>1 DEF InTask
  <2>6. CASE RetNested(mem, active, sp + 33)
    <3>1. pc' \in EntryOf(active) /\ RetDirect(mem, active, SP')
      BY Zenon, <1>1, <1>5, <2>6 DEF RetNested
    <3>2. RetDirect(mem, active, SP)'
      BY Zenon, <1>1, <2>2, <3>1
    <3>3. pc' = YieldAt \/ (active = Idle /\ (pc' = SpawnAt \/ pc' = SpawnJmp))
      BY Zenon, <3>1 DEF EntryOf
    <3>4. CASE pc' = YieldAt
      BY Zenon, <2>2, <2>3, <3>2, <3>4 DEF InCall
    <3>5. CASE active = Idle /\ pc' = SpawnAt
      BY Zenon, <2>2, <2>3, <3>2, <3>5 DEF InCall
    <3>6. CASE active = Idle /\ pc' = SpawnJmp
      <4>1. RetDirect(mem, Idle, SP)' /\ TaskWorld(mem, left, task_sp_adr, Idle)' /\ active' = Idle
        BY Zenon, <2>2, <3>2, <3>6
      <4> QED BY Zenon, <1>1, <3>6, <4>1 DEF SpawnReturns
    <3> QED BY Zenon, <3>3, <3>4, <3>5, <3>6
  <2> QED BY Zenon, <2>4, <2>5, <2>6
<1>7. CASE o = Scheduler /\ sp = scheduler_sp /\ Frame(mem, left, active, WordIn(mem, prev_task_sp))
  <2>1. SP' = Top(Scheduler)
    BY SMT, <1>1, <1>7, Geometry, TasksAre DEF scheduler_sp, context
  <2>2. pc' \in {StartJmp, StartAt + 77}
    BY Zenon, <1>1, <1>3, <1>7 DEF RetPoint, RetScheduler
  <2>3. PassWorld(mem, left, task_sp_adr, active, Top(Scheduler))
    BY Zenon, <1>4, <1>7 DEF PassWorld
  <2>4. PassWorld(mem, left, task_sp_adr, active, Top(Scheduler))'
    BY Zenon, <1>1, <2>3 DEF Others
  <2>5. InPass(Top(Scheduler))'
    BY Zenon, <2>1, <2>2, <2>4 DEF InPass
  <2> QED BY Zenon, <2>5
<1> QED BY Zenon, <1>4, <1>6, <1>7

\* The return leads back to where the context was left.
LEMMA ResumingStep ==
    ASSUME TypeInv, Execute, NEW b \in SwitchAt, NEW o \in Owners, NEW sp \in Contexts(o), Resuming(b, o, sp)
    PROVE  Others /\ (Resuming(b, o, sp)' \/ InTask' \/ InCall' \/ SpawnReturns' \/ InPass(Top(Scheduler))')
<1>1. (b = YieldSave /\ pc = b + 117) \/ Returns(b)
  BY Zenon DEF Resuming, Returns, SwitchAt
<1>2. CASE b = YieldSave /\ pc = b + 117
  BY Zenon, <1>2, ResumingSei
<1>3. CASE Returns(b)
  <2>1. Others
    BY Zenon, <1>3, ReturnStep
  <2> QED BY Zenon, <1>3, <2>1, ReturnLands
<1> QED BY Zenon, <1>1, <1>2, <1>3

-----------------------------------------------------------------------------
(* start_scheduler *)

\* At the head of SAVE_CONTEXT.
LEMMA SavingStarts ==
    ASSUME NEW b, NEW o, NEW sp, Site(b, o, sp, mem, left, task_sp_adr, active)',
           pc' = b, SP' = sp + 33, b # StartSave => sreg' < 128
    PROVE  Saving(b, o, sp)'
<1>1. b \in Sites
  BY Zenon DEF Site
<1>2. b \in Int
  BY Zenon, <1>1, SiteRuns
<1>3. pc' \in b..(b + 34) /\ ~(pc' > b + 4) /\ pc' \notin (b + 1)..(b + 2) /\ pc' # b + 3 /\ pc' # b + 4
  BY SMT, <1>2
<1>4. SavingSp(b, sp)'
  BY Zenon, <1>3 DEF SavingSp
<1>5. FlagLow(b)'
  BY Zenon DEF FlagLow
<1> QED BY Zenon, <1>3, <1>4, <1>5 DEF Saving

\* The scheduler's stack and code.
LEMMA SchedulerPlaces ==
    /\ Scheduler \in Owners /\ Scheduler # Idle /\ Scheduler # Worker
    /\ Top(Scheduler) \in Int /\ Top(Scheduler) \in Stack(Scheduler) /\ scheduler_sp \in Stack(Scheduler)
    /\ scheduler_sp \in Int /\ scheduler_sp \in Contexts(Scheduler)
    /\ Top(Scheduler) - 3 + 3 = Top(Scheduler) /\ Top(Scheduler) - 3 \in Int
    /\ Top(Scheduler) - 3 + 1 \in Stack(Scheduler)
    /\ scheduler_sp + 33 = Top(Scheduler) - 3 /\ scheduler_sp # Top(Scheduler)
<1>1. Scheduler \in Owners /\ Scheduler # Idle /\ Scheduler # Worker
  BY SMT DEF Owners, Scheduler, Idle, Worker
<1>2. Top(Scheduler) \in Int /\ Stack(Scheduler) = (Top(Scheduler) - 80)..Top(Scheduler)
  BY Zenon, <1>1, Geometry
<1> QED BY SMT, <1>1, <1>2 DEF scheduler_sp, context, Contexts

\* start_scheduler's instructions.
LEMMA StartCode ==
    /\ StartAt \in Int /\ Runs(StartAt, SetMt("andi")) /\ Runs(StartAt + 70, SetMt("andi"))
    /\ Runs(StartAt + 5, SET_RETURN_POINT(StartAt + 68))
    /\ At(StartJmp, <<"jmp", StartAt + 68>>) /\ At(StartAt + 67, <<"rjmp", 1>>)
    /\ At(StartAt + 68, <<"nop">>) /\ At(StartAt + 69, <<"nop">>)
    /\ At(StartAt + 75, <<"c", "schedule">>) /\ At(StartAt + 76, <<"call", YieldAt>>)
    /\ At(StartAt + 77, <<"jmp", StartAt + 67>>)
    /\ StartAt + 5 + 1 \in PcRange /\ StartAt + 5 + 13 \in PcRange /\ StartAt + 76 + 1 \in PcRange
<1>1. StartAt \in Int
  BY SMT, Places
<1>2. StartAt + 5 + 13 = StartJmp /\ StartAt + 67 + 1 = StartAt + 68 /\ StartAt + 67 + 2 = StartAt + 69
      /\ StartAt + 75 + 1 = StartAt + 76 /\ StartAt + 75 + 2 = StartAt + 77
      /\ StartAt + 5 \in Int /\ StartAt + 67 \in Int /\ StartAt + 75 \in Int
  BY SMT, <1>1 DEF StartJmp
<1>3. /\ Runs(StartAt, SetMt("andi")) /\ Runs(StartAt + 70, SetMt("andi"))
      /\ Runs(StartAt + 5, SET_RETURN_POINT(StartAt + 68))
      /\ Runs(StartAt + 67, << <<"rjmp", 1>>, <<"nop">>, <<"nop">> >>)
      /\ Runs(StartAt + 75, << <<"c", "schedule">>, <<"call", YieldAt>>, <<"jmp", StartAt + 67>> >>)
  BY Zenon, StartParts DEF SCILENT_DISABLE_MT
<1>4. At(StartAt + 5 + 13, <<"jmp", StartAt + 68>>)
  BY Zenon, <1>2, <1>3, ReturnPointCode
<1>5. At(StartAt + 67, <<"rjmp", 1>>) /\ At(StartAt + 67 + 1, <<"nop">>) /\ At(StartAt + 67 + 2, <<"nop">>)
  BY Zenon, <1>2, <1>3, ThreeCode
<1>6. At(StartAt + 75, <<"c", "schedule">>) /\ At(StartAt + 75 + 1, <<"call", YieldAt>>)
      /\ At(StartAt + 75 + 2, <<"jmp", StartAt + 67>>)
  BY SMT, <1>2, <1>3, ThreeCode
<1>7. StartAt + 5 + 1 \in PcRange /\ StartAt + 5 + 13 \in PcRange /\ StartAt + 76 + 1 \in PcRange
  <2>1. StartAt + 5 + 1 \in 0..(FlashWords + 9) /\ StartAt + 5 + 13 \in 0..(FlashWords + 9)
        /\ StartAt + 76 + 1 \in 0..(FlashWords + 9)
    BY SMT, Places, FlashInt
  <2> QED BY Zenon, <2>1, FlashPcs
<1> QED BY Zenon, <1>1, <1>2, <1>3, <1>4, <1>5, <1>6, <1>7

\* It masks the timer.
LEMMA BootingStep ==
    ASSUME TypeInv, Execute, Booting
    PROVE  Others /\ (Booting' \/ StartReturnPoint')
<1> DEFINE b == StartAt
<1> DEFINE sp == Top(Scheduler)
<1>1. /\ b \in Int /\ Runs(b, SetMt("andi")) /\ Scheduler \in Owners /\ sp \in Stack(Scheduler) /\ sp \in Int
      /\ "andi" \in {"ori", "andi"}
  BY Zenon, StartCode, SchedulerPlaces
<1>2. BootWorld(mem, left, task_sp_adr, active) /\ pc \in b..(b + 4) /\ SpInSetMt(b, sp)
  BY Zenon DEF Booting
<1>3. pc' = pc + 1 /\ SpInSetMt(b, sp)' /\ MtKept(Scheduler, sp)
  BY Zenon, <1>1, <1>2, SetMtStep
<1>4. BootWorld(mem, left, task_sp_adr, active)' /\ Others
  <2>1. Kept(mem, mem', left, left', Scheduler, sp) /\ Others
    BY Zenon, <1>3 DEF MtKept, Kept
  <2>2. BootWorld(mem', left', task_sp_adr, active)
    BY Zenon, <1>1, <1>2, <2>1, BootWorldKept
  <2> QED BY Zenon, <2>1, <2>2 DEF Others
<1>5. CASE pc = b + 4
  <2>1. pc' = b + 5 /\ SP' = sp /\ sp = sp - 3 + 3
    BY SMT, <1>1, <1>3, <1>5 DEF SpInSetMt
  <2>2. Returning(b + 5, sp - 3)'
    BY SMT, <1>1, <2>1 DEF Returning
  <2> QED BY Zenon, <1>4, <2>2 DEF StartReturnPoint
<1>6. CASE pc # b + 4
  <2>1. pc' \in b..(b + 4)
    BY SMT, <1>1, <1>2, <1>3, <1>6
  <2> QED BY Zenon, <1>3, <1>4, <2>1 DEF Booting
<1> QED BY Zenon, <1>5, <1>6

\* It makes its return point.
LEMMA StartReturnPointStep ==
    ASSUME TypeInv, Execute, StartReturnPoint
    PROVE  Others /\ (StartReturnPoint' \/ Saving(StartSave, Scheduler, scheduler_sp)')
<1> DEFINE b == StartAt + 5
<1> DEFINE e == Top(Scheduler) - 3
<1>1. /\ b \in Int /\ Runs(b, SET_RETURN_POINT(StartAt + 68)) /\ b + 1 \in PcRange /\ b + 13 \in PcRange
      /\ Scheduler \in Owners /\ e \in Int /\ e + 1 \in Stack(Scheduler) /\ e + 3 \in Stack(Scheduler)
      /\ e + 3 = Top(Scheduler) /\ scheduler_sp + 33 = e /\ e + 3 \in Int
  <2>1. StartAt \in Int => b \in Int
    BY SMT
  <2> QED BY Zenon, <2>1, StartCode, SchedulerPlaces
<1>2. b + 13 = StartJmp /\ b + 15 = StartSave
  BY SMT, StartCode DEF StartJmp, StartSave
<1>3. BootWorld(mem, left, task_sp_adr, active) /\ Returning(b, e)
  BY Zenon DEF StartReturnPoint
<1> HIDE DEF b, e
<1>4. /\ pc # b + 14 => Returning(b, e)'
      /\ pc = b + 14 => pc' = b + 15 /\ SP' = e /\ PcIn(mem', e) = b + 13
      /\ ReturningKept(Scheduler, e)
  BY Zenon, <1>1, <1>3, ReturningStep
<1>5. BootWorld(mem, left, task_sp_adr, active)' /\ Others
  <2>1. Kept(mem, mem', left, left', Scheduler, e + 3) /\ Others
    BY Zenon, <1>4 DEF ReturningKept, Kept
  <2>2. BootWorld(mem', left', task_sp_adr, active)
    BY Zenon, <1>1, <1>3, <2>1, BootWorldKept
  <2> QED BY Zenon, <2>1, <2>2 DEF Others
<1>6. CASE pc = b + 14
  <2> DEFINE sp == scheduler_sp
  <2>1. pc' = StartSave /\ SP' = sp + 33 /\ PcIn(mem', sp + 33) = StartJmp /\ sp + 33 = Top(Scheduler) - 3
    BY Zenon, <1>1, <1>2, <1>4, <1>6 DEF e
  <2>2. RetPoint(mem', Scheduler, sp + 33)
    BY Zenon, <2>1 DEF RetPoint, RetScheduler
  <2>3. SaveWorld(StartSave, Scheduler, sp, mem, left, task_sp_adr, active)'
    BY Zenon, <1>5, <2>1 DEF SaveWorld
  <2>4. StartSave \in Sites /\ sp \in Contexts(Scheduler)
    BY Zenon, SchedulerPlaces DEF Sites
  <2>5. Site(StartSave, Scheduler, sp, mem, left, task_sp_adr, active)'
    BY Zenon, <1>1, <2>2, <2>3, <2>4 DEF Site
  <2>6. Saving(StartSave, Scheduler, sp)'
    BY Zenon, <2>1, <2>5, SavingStarts
  <2> QED BY Zenon, <1>5, <2>6
<1>7. CASE pc # b + 14
  <2>1. Returning(StartAt + 5, Top(Scheduler) - 3)'
    BY Zenon, <1>4, <1>7 DEF b, e
  <2> QED BY Zenon, <1>5, <2>1 DEF StartReturnPoint
<1> QED BY Zenon, <1>6, <1>7

\* Its call of k_yield.
LEMMA SchedulerCallsStep ==
    ASSUME TypeInv, Execute, NEW sp \in Contexts(Scheduler), SchedulerCalls(sp)
    PROVE  Others /\ Saving(YieldSave, Scheduler, sp)'
<1>1. At(pc, <<"cli">>) /\ SP = sp + 33 /\ pc = YieldAt /\ Site(YieldSave, Scheduler, sp, mem, left, task_sp_adr, active)
  BY Zenon, SiteCode DEF SchedulerCalls
<1>2. /\ sreg' = sreg % 128
      /\ pc' = pc + 1 /\ SP' = SP /\ mem' = mem /\ R' = R /\ Others /\ left' = left
  BY Zenon, <1>1, CliStep
<1>3. sreg' < 128
  BY SMT, <1>2 DEF TypeInv, MachineType, Byte
<1>4. pc' = YieldSave
  BY Zenon, <1>1, <1>2 DEF YieldSave
<1>5. Site(YieldSave, Scheduler, sp, mem, left, task_sp_adr, active)'
  BY Zenon, <1>1, <1>2 DEF Others
<1> QED BY Zenon, <1>1, <1>2, <1>3, <1>4, <1>5, SavingStarts

\* With a task chosen, it calls k_yield.
LEMMA ChosenStep ==
    ASSUME TypeInv, Execute, Chosen
    PROVE  Others /\ \E sp \in Contexts(Scheduler) : SchedulerCalls(sp)'
<1>1. pc = StartAt + 76 /\ ChosenWorld(mem, left, task_sp_adr, active, SP) /\ mem \in Memory
  BY Zenon DEF Chosen, TypeInv, MachineType
<1>2. SP \in {scheduler_sp, Top(Scheduler)}
  BY Zenon, <1>1 DEF ChosenWorld
<1>3. Stack(Scheduler) = (Top(Scheduler) - 80)..Top(Scheduler) /\ Top(Scheduler) \in Int
      /\ Stack(Scheduler) \subseteq Addresses
  BY Zenon, SchedulerPlaces, Geometry, StackAddresses
<1>4. PICK sp \in Contexts(Scheduler) :
         /\ SP \in Int /\ SP \in Stack(Scheduler) /\ SP - 2 \in Stack(Scheduler)
         /\ SP - 3 = sp + 33 /\ sp + context = SP
         /\ sp + 33 \in {Top(Scheduler) - 3, Top(Scheduler) - 39}
         /\ \A x \in (SP - 2)..SP : x \in Stack(Scheduler)
  <2> DEFINE q == SP - context
  <2>1. /\ SP \in Int /\ SP \in Stack(Scheduler) /\ SP - 2 \in Stack(Scheduler)
        /\ SP - 3 = q + 33 /\ q + context = SP
        /\ q + 33 \in {Top(Scheduler) - 3, Top(Scheduler) - 39}
        /\ \A x \in (SP - 2)..SP : x \in Stack(Scheduler)
    BY SMT, <1>2, <1>3 DEF scheduler_sp, context
  <2>2. q \in Contexts(Scheduler)
    BY SMT, <1>2, <1>3 DEF scheduler_sp, context, Contexts
  <2> HIDE DEF q
  <2> QED BY Zenon, <2>1, <2>2
<1>6. (SP - 2)..SP \subseteq Addresses /\ SP =< SP
  BY Zenon, <1>3, <1>4, SameInt
<1>7. At(pc, <<"call", YieldAt>>) /\ StartAt + 76 + 1 \in PcRange /\ StartAt + 76 + 1 = StartAt + 77
  <2>1. StartAt + 76 + 1 = StartAt + 77
    BY SMT, StartCode
  <2> QED BY Zenon, <1>1, <2>1, StartCode
<1>8. /\ mem' = WithPc(mem, pc + 1)
      /\ SP' = SP - 3 /\ pc' = YieldAt /\ R' = R /\ sreg' = sreg
      /\ Others /\ left' = left
  BY Zenon, <1>6, <1>7, CallStep
<1>9. /\ StacksKept(mem, mem', Scheduler, SP) /\ WordsKept(mem, mem')
      /\ PcIn(mem', SP - 3) = StartAt + 77
  <2>1. pc + 1 = StartAt + 77 /\ pc + 1 \in PcRange
    BY Zenon, <1>1, <1>7
  <2> QED BY Zenon, <1>1, <1>4, <1>8, <2>1, SchedulerPlaces, PcStore
<1>10. Kept(mem, mem', left, left', Scheduler, SP) /\ WordKept(mem, mem', scheduler_task_sp)
       /\ WordKept(mem, mem', next_task_sp)
  BY Zenon, <1>8, <1>9, WordsUnlike DEF Kept, WordsKept
<1>11. ChosenWorld(mem', left', task_sp_adr, active, SP)
  BY Zenon, <1>1, <1>4, <1>6, <1>8, <1>10, ChosenWorldKept
<1>12. ChosenWorld(mem, left, task_sp_adr, active, sp + context)'
  <2>1. ChosenWorld(mem', left', task_sp_adr', active', SP)
    BY Zenon, <1>8, <1>11 DEF Others
  <2> QED BY Zenon, <1>4, <2>1
<1>13. PcIn(mem', sp + 33) = StartAt + 77
  BY Zenon, <1>4, <1>9
<1>14. RetPoint(mem', Scheduler, sp + 33)
  BY Zenon, <1>4, <1>13 DEF RetPoint, RetScheduler
<1>15. SaveWorld(YieldSave, Scheduler, sp, mem, left, task_sp_adr, active)'
  BY Zenon, <1>12, <1>13 DEF SaveWorld
<1>16. Site(YieldSave, Scheduler, sp, mem, left, task_sp_adr, active)'
  BY Zenon, <1>14, <1>15, SchedulerPlaces DEF Site, Sites
<1>17. SchedulerCalls(sp)'
  BY Zenon, <1>4, <1>8, <1>16 DEF SchedulerCalls
<1> QED BY Zenon, <1>8, <1>17

-----------------------------------------------------------------------------
(* The C code *)

\* What C code leaves of memory when a is the stack pointer.
LEMMA ScribbledKeeps ==
    ASSUME NEW m \in Memory, NEW o \in Owners, NEW a \in Stack(o)
    PROVE  StacksKept(m, Scribbled(m, a), o, a) /\ WordsKept(m, Scribbled(m, a))
<1> DEFINE n == Scribbled(m, a)
<1>1. Owner(a) = o /\ a \in Int
  <2>1. Top(o) \in Int /\ Stack(o) = (Top(o) - 80)..Top(o)
    BY Zenon, Geometry
  <2>2. a \in (Top(o) - 200)..Top(o) /\ a \in Int
    BY SMT, <2>1
  <2> QED BY Zenon, <2>2, OwnerIs
<1>2. \A x \in Addresses : (x \notin Stack(o) \/ ~(x =< a)) => n[x] = m[x]
  BY Zenon, <1>1 DEF Scribbled
<1>3. ASSUME NEW t \in Owners, NEW x \in Stack(t), t = o => x > a PROVE n[x] = m[x]
  <2>1. x \in Addresses
    BY Zenon, StackAddresses
  <2>2. CASE t = o
    <3>1. x \in Int
      BY SMT, Geometry
    <3>2. ~(x =< a)
      BY SMT, <1>1, <1>3, <2>2, <3>1
    <3> QED BY Zenon, <1>2, <2>1, <3>2
  <2>3. CASE t # o
    <3>1. x \notin Stack(o)
      BY Zenon, <2>3, StacksApart
    <3> QED BY Zenon, <1>2, <2>1, <3>1
  <2> QED BY Zenon, <2>2, <2>3
<1>4. \A w \in Words : n[w] = m[w] /\ n[w + 1] = m[w + 1]
  <2>1. ASSUME NEW w \in Words PROVE n[w] = m[w] /\ n[w + 1] = m[w + 1]
    <3>1. w \in Addresses /\ w + 1 \in Addresses
      BY Zenon, WordAddresses
    <3>2. w \notin Stack(o) /\ w + 1 \notin Stack(o)
      BY Zenon, Disjoint
    <3> QED BY Zenon, <1>2, <3>1, <3>2
  <2> QED BY Zenon, <2>1
<1> HIDE DEF n
<1>5. StacksKept(m, n, o, a) /\ WordsKept(m, n)
  BY Zenon, <1>3, <1>4 DEF StacksKept, WordsKept, WordKept
<1> QED BY Zenon, <1>5 DEF n

\* A word of the kernel is written.
LEMMA WithWordIs ==
    ASSUME NEW m \in Memory, NEW u \in Words, NEW v \in SpRange
    PROVE  /\ \A o, e : StacksKept(m, WithWord(m, u, v), o, e)
           /\ \A w \in Words \ {u} : WordKept(m, WithWord(m, u, v), w)
           /\ WordIn(WithWord(m, u, v), u) = v
<1> DEFINE n == [m EXCEPT ![u] = lo8(v)]
<1> DEFINE q == [n EXCEPT ![u + 1] = hi8(v)]
<1>1. lo8(v) \in Byte /\ hi8(v) \in Byte /\ v = 256 * hi8(v) + lo8(v)
  BY Zenon, SpBytes DEF Byte
<1>2. n \in Memory
  BY Zenon, <1>1, StoredType
<1>3. (\A o, e : StacksKept(m, n, o, e)) /\ \A w \in Words \ {u} : WordKept(m, n, w)
  BY Zenon, WordStore
<1>4. u \in Addresses /\ u + 1 \in Addresses /\ u # u + 1
  <2>1. u \in Int
    BY SMT DEF Words, prev_task_sp, next_task_sp, scheduler_task_sp, task_sp
  <2>2. u # u + 1
    BY SMT, <2>1
  <2> QED BY Zenon, <2>2, WordAddresses
<1>5. n[u] = lo8(v)
  BY SMT, <1>4 DEF Memory
<1> HIDE DEF n
<1>6. (\A o, e : StacksKept(n, q, o, e)) /\ \A w \in Words \ {u} : WordKept(n, q, w)
  BY Zenon, <1>2, WordStore
<1>7. q[u] = lo8(v) /\ q[u + 1] = hi8(v)
  BY SMT, <1>2, <1>4, <1>5 DEF Memory
<1>8. q = WithWord(m, u, v)
  BY Zenon DEF n, WithWord
<1> HIDE DEF q
<1>9. WordIn(q, u) = v
  <2>1. lo8(v) \in Int /\ hi8(v) \in Int
    BY SMT, <1>1 DEF Byte
  <2> QED BY SMT, <1>1, <1>7, <2>1 DEF WordIn
<1>10. \A o, e : StacksKept(m, q, o, e)
  BY Zenon, <1>3, <1>6, KeptTwice
<1>11. \A w \in Words \ {u} : WordKept(m, q, w)
  BY Zenon, <1>3, <1>6 DEF WordKept
<1> QED BY Zenon, <1>8, <1>9, <1>10, <1>11

\* C code and its four functions.
LEMMA CStep ==
    ASSUME Execute, NEW f, At(pc, <<"c", f>>)
    PROVE  C /\ ocf' = ocf /\ left' = left /\ Code[pc][2] = f
<1>1. InCode /\ Code[pc] = <<"c", f>> /\ Op = "c" /\ Accessed(<<"c", f>>) = {} /\ Code[pc][2] = f
  BY SMT DEF At, InCode, Op, Accessed
<1>2. ~SavesAt(pc)
  BY SMT, <1>1 DEF SavesAt
<1>3. ~(PushPop \/ Arithmetic \/ Jump \/ InOut \/ InterruptFlag \/ LoadStore)
  BY SMT, <1>1 DEF PushPop, Arithmetic, Jump, InOut, InterruptFlag, LoadStore, Op
<1> QED BY Zenon, <1>1, <1>2, <1>3 DEF Execute

LEMMA ScheduleStep ==
    ASSUME Execute, At(pc, <<"c", "schedule">>)
    PROVE  schedule /\ ocf' = ocf /\ left' = left
<1>1. C /\ ocf' = ocf /\ left' = left /\ Code[pc][2] = "schedule"
  BY Zenon, CStep
<1>2. schedule
  BY SMT, <1>1 DEF C
<1> QED BY Zenon, <1>1, <1>2

LEMMA CreateStep ==
    ASSUME Execute, At(pc, <<"c", "create">>)
    PROVE  create /\ ocf' = ocf /\ left' = left
<1>1. C /\ ocf' = ocf /\ left' = left /\ Code[pc][2] = "create"
  BY Zenon, CStep
<1>2. create
  BY SMT, <1>1 DEF C
<1> QED BY Zenon, <1>1, <1>2

LEMMA AdoptStep ==
    ASSUME Execute, At(pc, <<"c", "adopt">>)
    PROVE  adopt /\ ocf' = ocf /\ left' = left
<1>1. C /\ ocf' = ocf /\ left' = left /\ Code[pc][2] = "adopt"
  BY Zenon, CStep
<1>2. adopt
  BY SMT, <1>1 DEF C
<1> QED BY Zenon, <1>1, <1>2

LEMMA FnStep ==
    ASSUME Execute, At(pc, <<"c", "fn">>)
    PROVE  fn /\ ocf' = ocf /\ left' = left
<1>1. C /\ ocf' = ocf /\ left' = left /\ Code[pc][2] = "fn"
  BY Zenon, CStep
<1>2. fn
  BY SMT, <1>1 DEF C
<1> QED BY Zenon, <1>1, <1>2

\* The pass of the scheduler: the context of the task it finds, stored, is one of that task's.
LEMMA StoredFrames ==
    ASSUME NEW m, NEW l, NEW s \in [Owners -> SpRange], NEW a \in Owners, NEW x,
           Frames(m, l, s, a), Frame(m, l, a, x)
    PROVE  Frames(m, l, [s EXCEPT ![a] = x], Scheduler)
<1> SUFFICES ASSUME NEW t \in Tasks \ {Scheduler}, [s EXCEPT ![a] = x][t] # 0
             PROVE  Frame(m, l, t, [s EXCEPT ![a] = x][t])
  BY Zenon DEF Frames
<1>1. t \in Owners /\ t \in Tasks
  BY Zenon, TasksAre
<1>2. CASE t = a
  BY Zenon, <1>1, <1>2
<1>3. CASE t # a
  <2>1. [s EXCEPT ![a] = x][t] = s[t]
    BY Zenon, <1>1, <1>3
  <2> QED BY Zenon, <1>1, <1>3, <2>1 DEF Frames
<1> QED BY Zenon, <1>2, <1>3

\* Whom the pass finds as the last to run, the stack pointer of its context, and the others'.
LEMMA PassFinds ==
    ASSUME TypeInv, NEW sp, PassWorld(mem, left, task_sp_adr, active, sp)
    PROVE  LET x == Word(IF active = Scheduler THEN scheduler_task_sp ELSE prev_task_sp)
           IN  /\ Frame(mem, left, active, x) /\ Frames(mem, left, task_sp_adr, active)
               /\ assert_task_pointer_integrity(active, x)
<1> DEFINE w == IF active = Scheduler THEN scheduler_task_sp ELSE prev_task_sp
<1> DEFINE x == Word(w)
<1>1. x = WordIn(mem, w)
  BY Zenon DEF Word, WordIn
<1>2. active \in Owners
  BY Zenon DEF TypeInv, KernelType
<1>3. Frame(mem, left, active, x) /\ Frames(mem, left, task_sp_adr, active)
  <2>1. CASE active = Scheduler
    <3>1. active \notin Tasks
      BY Zenon, <2>1, TasksAre
    <3>2. WordIn(mem, w) = scheduler_sp
      BY Zenon, <2>1 DEF PassWorld
    <3> QED BY Zenon, <1>1, <2>1, <3>1, <3>2 DEF PassWorld
  <2>2. CASE active # Scheduler
    <3>1. WordIn(mem, w) = WordIn(mem, prev_task_sp)
      BY Zenon, <2>2
    <3> QED BY Zenon, <1>1, <2>2, <3>1 DEF PassWorld
  <2> QED BY Zenon, <2>1, <2>2
<1> HIDE DEF x
<1>4. x \in Contexts(active)
  BY Zenon, <1>3 DEF Frame
<1>5. x \in (Top(active) - 200)..Top(active) /\ x - 36 \in (Top(active) - 200)..Top(active)
  <2>1. Top(active) \in Int
    BY Zenon, <1>2, Geometry
  <2> QED BY SMT, <1>4, <2>1 DEF Contexts, context
<1>6. Owner(x) = active /\ Owner(x - 36) = active
  BY Zenon, <1>2, <1>5, OwnerIs
<1> QED BY Zenon, <1>3, <1>6 DEF x, assert_task_pointer_integrity

LEMMA SchedulePass ==
    ASSUME TypeInv, Execute, NEW sp \in {scheduler_sp, Top(Scheduler)},
           PassWorld(mem, left, task_sp_adr, active, sp), pc = StartAt + 75, SP = sp
    PROVE  ocf' = ocf /\ (pc' = Malformed \/ Chosen')
<1> DEFINE x == Word(IF active = Scheduler THEN scheduler_task_sp ELSE prev_task_sp)
<1> DEFINE stored == [task_sp_adr EXCEPT ![active] = x]
<1>1. schedule /\ ocf' = ocf /\ left' = left
  BY Zenon, StartCode, ScheduleStep
<1>2. /\ Frame(mem, left, active, x) /\ Frames(mem, left, task_sp_adr, active)
      /\ assert_task_pointer_integrity(active, x)
  BY Zenon, PassFinds
<1>3. /\ mem \in Memory /\ active \in Owners /\ task_sp_adr \in [Owners -> SpRange]
      /\ x \in SpRange /\ SP \in Stack(Scheduler) /\ SP \in Int
  <2>1. mem \in Memory /\ active \in Owners /\ task_sp_adr \in [Owners -> SpRange]
    BY Zenon DEF TypeInv, MachineType, KernelType
  <2>2. x \in SpRange
    BY Zenon, <2>1, WordSp, WordsUnlike
  <2> QED BY Zenon, <2>1, <2>2, SchedulerPlaces
<1>4. Frames(mem, left, stored, Scheduler) /\ stored \in [Owners -> SpRange]
  <2> HIDE DEF x
  <2>1. Frames(mem, left, stored, Scheduler)
    BY Zenon, <1>2, <1>3, StoredFrames
  <2> QED BY Zenon, <1>3, <2>1
<1>5. CASE ~assert_stack_pointer_points_to_valid_return_address(x)
  BY Zenon, <1>1, <1>2, <1>5 DEF schedule, Go
<1>6. ASSUME NEW next \in {o \in {Idle, Worker} : stored[o] # 0},
             task_sp_adr' = stored, active' = next,
             mem' = WithWord(Scribbled(mem, SP), next_task_sp, stored[next]),
             pc' = pc + 1, SP' = SP
      PROVE  Chosen'
  <2> DEFINE n == Scribbled(mem, SP)
  <2> HIDE DEF x, stored
  <2>1. next \in Tasks /\ next \in Owners /\ stored[next] # 0
    BY Zenon, TasksAre DEF Tasks
  <2>2. stored[next] \in SpRange
    BY Zenon, <1>4, <2>1
  <2>3. n \in Memory /\ StacksKept(mem, n, Scheduler, SP) /\ WordsKept(mem, n)
    BY Zenon, <1>3, ScribbledType, ScribbledKeeps, SchedulerPlaces
  <2> HIDE DEF n
  <2>4. mem' = WithWord(n, next_task_sp, stored[next])
    BY Zenon, <1>6 DEF n
  <2>5. /\ StacksKept(n, mem', Scheduler, SP) /\ WordKept(n, mem', scheduler_task_sp)
        /\ WordIn(mem', next_task_sp) = stored[next]
    <3>1. scheduler_task_sp \in Words \ {next_task_sp} /\ next_task_sp \in Words
      BY Zenon, WordsUnlike
    <3> QED BY Zenon, <2>2, <2>3, <2>4, <3>1, WithWordIs
  <2>6. Kept(mem, mem', left, left, Scheduler, SP)
    BY Zenon, <2>3, <2>5, KeptTwice DEF Kept
  <2>7. WordIn(mem', scheduler_task_sp) = scheduler_sp
    <3>1. WordKept(mem, n, scheduler_task_sp)
      BY Zenon, <2>3, WordsUnlike DEF WordsKept
    <3>2. WordIn(mem, scheduler_task_sp) = scheduler_sp
      BY Zenon DEF PassWorld
    <3>3. WordIn(n, scheduler_task_sp) = scheduler_sp
      BY Zenon, <3>1, <3>2, WordInKept
    <3>4. WordIn(mem', scheduler_task_sp) = WordIn(n, scheduler_task_sp)
      BY Zenon, <2>5, WordInKept
    <3> QED BY Zenon, <3>3, <3>4
  <2>8. Frames(mem', left, stored, Scheduler)
    BY Zenon, <1>3, <1>4, <2>6, FramesKept, SchedulerPlaces
  <2>9. SP = scheduler_sp => Frame(mem', left, Scheduler, scheduler_sp)
    <3>1. SUFFICES ASSUME SP = scheduler_sp PROVE Frame(mem', left, Scheduler, scheduler_sp)
      OBVIOUS
    <3>2. Frame(mem, left, Scheduler, scheduler_sp)
      BY Zenon, <3>1, SchedulerPlaces DEF PassWorld
    <3>3. Below(Scheduler, SP, left, left)
      BY Zenon, <1>3, <3>1, SameInt DEF Below
    <3> QED BY Zenon, <1>3, <2>6, <3>2, <3>3, SchedulerKept, SchedulerPlaces
  <2>10. ChosenWorld(mem', left, stored, next, SP)
    BY Zenon, <2>1, <2>5, <2>7, <2>8, <2>9 DEF ChosenWorld
  <2>11. ChosenWorld(mem, left, task_sp_adr, active, SP)'
    BY Zenon, <1>1, <1>6, <2>10
  <2>12. pc' = StartAt + 76
    BY SMT, <1>6, StartCode
  <2> QED BY Zenon, <2>11, <2>12 DEF Chosen
<1>7. CASE assert_stack_pointer_points_to_valid_return_address(x)
  <2>1. \E next \in {o \in {Idle, Worker} : stored[o] # 0} :
           /\ task_sp_adr' = stored /\ active' = next
           /\ mem' = WithWord(Scribbled(mem, SP), next_task_sp, stored[next])
           /\ pc' = pc + 1 /\ SP' = SP
    BY Zenon, <1>1, <1>2, <1>7 DEF schedule, Next1, Go
  <2> QED BY Zenon, <1>1, <1>6, <2>1
<1> QED BY Zenon, <1>1, <1>5, <1>7

\* A pass, from the masking of the timer on.
LEMMA InPassStep ==
    ASSUME TypeInv, Execute, NEW sp \in {scheduler_sp, Top(Scheduler)}, InPass(sp)
    PROVE  ocf' = ocf /\ (pc' = Malformed \/ Chosen' \/ InPass(sp)')
<1> DEFINE b == StartAt + 70
<1>1. /\ PassWorld(mem, left, task_sp_adr, active, sp)
      /\ \/ pc \in {StartAt + 67, StartAt + 69} \cup b..(StartAt + 75) /\ SpInSetMt(b, sp)
         \/ pc \in {StartJmp, StartAt + 68, StartAt + 77} /\ sp = Top(Scheduler) /\ SP = sp
  BY Zenon DEF InPass
<1>2. StartAt \in Int /\ b \in Int /\ StartJmp = StartAt + 18
  BY SMT, StartCode DEF StartJmp
<1>3. sp \in Stack(Scheduler) /\ sp \in Int
  BY Zenon, SchedulerPlaces
<1>4. ASSUME pc \in {StartAt + 67, StartAt + 68, StartAt + 69, StartAt + 77, StartJmp}
      PROVE  ocf' = ocf /\ InPass(sp)'
  <2>1. SP = sp
    BY SMT, <1>1, <1>2, <1>4 DEF SpInSetMt
  <2>2. /\ pc' = IF pc \in {StartAt + 67, StartAt + 68} THEN StartAt + 69
                 ELSE IF pc = StartAt + 69 THEN b
                 ELSE IF pc = StartAt + 77 THEN StartAt + 67 ELSE StartAt + 68
        /\ SP' = SP /\ mem' = mem /\ Others /\ left' = left
    <3>1. CASE pc = StartAt + 67
      <4>1. At(pc, <<"rjmp", 1>>)
        BY Zenon, <3>1, StartCode
      <4>2. pc' = pc + 1 + 1 /\ SP' = SP /\ mem' = mem /\ Others /\ left' = left
        BY Zenon, <4>1, RjmpStep
      <4> QED BY SMT, <1>2, <3>1, <4>2
    <3>2. CASE pc = StartAt + 68
      <4>1. At(pc, <<"nop">>)
        BY Zenon, <3>2, StartCode
      <4>2. pc' = pc + 1 /\ SP' = SP /\ mem' = mem /\ Others /\ left' = left
        BY Zenon, <4>1, NopStep
      <4> QED BY SMT, <1>2, <3>2, <4>2
    <3>3. CASE pc = StartAt + 69
      <4>1. At(pc, <<"nop">>)
        BY Zenon, <3>3, StartCode
      <4>2. pc' = pc + 1 /\ SP' = SP /\ mem' = mem /\ Others /\ left' = left
        BY Zenon, <4>1, NopStep
      <4> QED BY SMT, <1>2, <3>3, <4>2
    <3>4. CASE pc = StartAt + 77
      <4>1. At(pc, <<"jmp", StartAt + 67>>)
        BY Zenon, <3>4, StartCode
      <4>2. pc' = StartAt + 67 /\ SP' = SP /\ mem' = mem /\ Others /\ left' = left
        BY Zenon, <4>1, JmpStep
      <4> QED BY SMT, <1>2, <3>4, <4>2
    <3>5. CASE pc = StartJmp
      <4>1. At(pc, <<"jmp", StartAt + 68>>)
        BY Zenon, <3>5, StartCode
      <4>2. pc' = StartAt + 68 /\ SP' = SP /\ mem' = mem /\ Others /\ left' = left
        BY Zenon, <4>1, JmpStep
      <4> QED BY SMT, <1>2, <3>5, <4>2
    <3> QED BY Zenon, <1>4, <3>1, <3>2, <3>3, <3>4, <3>5
  <2>3. PassWorld(mem, left, task_sp_adr, active, sp)' /\ ocf' = ocf
    BY Zenon, <1>1, <2>2 DEF Others
  <2>4. \/ pc' \in {StartAt + 67, StartAt + 69} \cup b..(StartAt + 75) /\ SpInSetMt(b, sp)'
        \/ pc' = StartAt + 68 /\ sp = Top(Scheduler) /\ SP' = sp
    BY SMT, <1>1, <1>2, <1>4, <2>1, <2>2 DEF SpInSetMt
  <2> QED BY Zenon, <2>3, <2>4 DEF InPass
<1>5. ASSUME pc \in b..(b + 4) PROVE ocf' = ocf /\ InPass(sp)'
  <2>1. /\ Runs(b, SetMt("andi")) /\ Scheduler \in Owners /\ "andi" \in {"ori", "andi"}
    BY Zenon, StartCode, SchedulerPlaces
  <2>2. SpInSetMt(b, sp)
    BY SMT, <1>1, <1>2, <1>5
  <2>3. pc' = pc + 1 /\ SpInSetMt(b, sp)' /\ MtKept(Scheduler, sp)
    BY Zenon, <1>2, <1>3, <1>5, <2>1, <2>2, SetMtStep
  <2>4. StacksKept(mem, mem', Scheduler, sp) /\ WordsKept(mem, mem') /\ Others /\ left' = left
    BY Zenon, <2>3 DEF MtKept
  <2>5. WordKept(mem, mem', scheduler_task_sp) /\ WordKept(mem, mem', prev_task_sp) /\ sp =< sp
    BY Zenon, <1>3, <2>4, WordsUnlike, SameInt DEF WordsKept
  <2>6. PassWorld(mem', left, task_sp_adr, active, sp)
    BY Zenon, <1>1, <1>3, <2>4, <2>5, PassWorldKept
  <2>7. PassWorld(mem, left, task_sp_adr, active, sp)' /\ ocf' = ocf
    BY Zenon, <2>4, <2>6 DEF Others
  <2>8. pc' \in b..(StartAt + 75)
    BY SMT, <1>2, <1>5, <2>3
  <2> QED BY Zenon, <2>3, <2>7, <2>8 DEF InPass
<1>6. ASSUME pc = StartAt + 75 PROVE ocf' = ocf /\ (pc' = Malformed \/ Chosen')
  <2>1. SP = sp
    BY SMT, <1>1, <1>2, <1>6 DEF SpInSetMt
  <2> QED BY Zenon, <1>1, <1>6, <2>1, SchedulePass
<1>7. \/ pc \in {StartAt + 67, StartAt + 68, StartAt + 69, StartAt + 77, StartJmp}
      \/ pc \in b..(b + 4) \/ pc = StartAt + 75
  BY SMT, <1>1, <1>2
<1> QED BY Zenon, <1>4, <1>5, <1>6, <1>7

-----------------------------------------------------------------------------
(* spawn_task, up to SAVE_CONTEXT *)

\* The first task's stack and code.
LEMMA IdlePlaces ==
    /\ Idle \in Owners /\ Idle # Scheduler /\ Idle \in Tasks /\ Worker \in Owners /\ Worker \in Tasks
    /\ Worker # Scheduler /\ Worker # Idle
    /\ Top(Idle) \in Int /\ Stack(Idle) = (Top(Idle) - 80)..Top(Idle) /\ Stack(Idle) \subseteq Addresses
<1>1. Idle \in Owners /\ Idle # Scheduler /\ Idle \in Tasks /\ Worker \in Owners /\ Worker \in Tasks
      /\ Worker # Scheduler /\ Worker # Idle
  BY SMT DEF Owners, Tasks, Idle, Scheduler, Worker
<1> QED BY Zenon, <1>1, Geometry, StackAddresses

\* spawn_task's instructions.
LEMMA SpawnCode ==
    /\ SpawnAt \in Int /\ Runs(SpawnAt + 1, SetMt("andi")) /\ At(SpawnAt, <<"cli">>)
    /\ At(SpawnAt + 6, <<"c", "create">>)
    /\ Runs(SpawnAt + 7, SET_RETURN_POINT(SpawnAt + 77))
    /\ At(SpawnJmp, <<"jmp", SpawnAt + 77>>)
    /\ At(SpawnAt + 63, <<"c", "adopt">>) /\ Runs(SpawnAt + 64, SET_SP)
    /\ Runs(SpawnAt + 70, SetMt("ori"))
    /\ At(SpawnAt + 75, <<"sei">>) /\ At(SpawnAt + 76, <<"c", "fn">>) /\ At(SpawnAt + 77, <<"return">>)
    /\ SpawnAt + 7 + 1 \in PcRange /\ SpawnAt + 7 + 13 \in PcRange
<1>1. SpawnAt \in Int
  BY SMT, Places
<1>2. SpawnAt + 7 + 13 = SpawnJmp /\ SpawnAt + 75 + 1 = SpawnAt + 76 /\ SpawnAt + 75 + 2 = SpawnAt + 77
      /\ SpawnAt + 7 \in Int /\ SpawnAt + 6 \in Int /\ SpawnAt + 63 \in Int /\ SpawnAt + 75 \in Int
  BY SMT, <1>1 DEF SpawnJmp
<1>3. /\ Runs(SpawnAt + 1, SetMt("andi")) /\ Runs(SpawnAt + 70, SetMt("ori")) /\ Runs(SpawnAt, << <<"cli">> >>)
      /\ Runs(SpawnAt + 6, << <<"c", "create">> >>) /\ Runs(SpawnAt + 63, << <<"c", "adopt">> >>)
      /\ Runs(SpawnAt + 7, SET_RETURN_POINT(SpawnAt + 77)) /\ Runs(SpawnAt + 64, SET_SP)
      /\ Runs(SpawnAt + 75, << <<"sei">>, <<"c", "fn">>, <<"return">> >>)
  BY Zenon, SpawnParts DEF SCILENT_DISABLE_MT, SCILENT_ENABLE_MT
<1>4. At(SpawnAt + 7 + 13, <<"jmp", SpawnAt + 77>>)
  BY Zenon, <1>2, <1>3, ReturnPointCode
<1>5. At(SpawnAt, <<"cli">>) /\ At(SpawnAt + 6, <<"c", "create">>) /\ At(SpawnAt + 63, <<"c", "adopt">>)
  BY Zenon, <1>1, <1>2, <1>3, OneCode
<1>6. At(SpawnAt + 75, <<"sei">>) /\ At(SpawnAt + 75 + 1, <<"c", "fn">>) /\ At(SpawnAt + 75 + 2, <<"return">>)
  BY Zenon, <1>2, <1>3, ThreeCode
<1>7. SpawnAt + 7 + 1 \in PcRange /\ SpawnAt + 7 + 13 \in PcRange
  <2>1. SpawnAt + 7 + 1 \in 0..(FlashWords + 9) /\ SpawnAt + 7 + 13 \in 0..(FlashWords + 9)
    BY SMT, Places, FlashInt
  <2> QED BY Zenon, <2>1, FlashPcs
<1> QED BY Zenon, <1>1, <1>2, <1>3, <1>4, <1>5, <1>6, <1>7

\* It makes the new task,
LEMMA SpawnEntersStep ==
    ASSUME TypeInv, Execute, NEW e \in (Top(Idle) - MaxDepth - 3)..(Top(Idle) - 3), SpawnEnters(e)
    PROVE  /\ ocf' = ocf
           /\ \/ SpawnEnters(e)'
              \/ \E f \in (Top(Idle) - MaxDepth - 6)..(Top(Idle) - 6) : SpawnReturnPoint(f)'
<1> DEFINE b == SpawnAt + 1
<1>1. /\ pc \in (SpawnAt + 1)..(SpawnAt + 6)
      /\ active = Idle /\ sreg < 128
      /\ TaskWorld(mem, left, task_sp_adr, Idle) \/ FirstWorld(mem, task_sp_adr, Idle)
      /\ SpInSetMt(b, e) /\ RetDirect(mem, Idle, e)
  BY Zenon DEF SpawnEnters
<1>2. e \in Int /\ e \in Stack(Idle) /\ b \in Int /\ e =< e
  <2>1. Top(Idle) \in Int /\ Stack(Idle) = (Top(Idle) - 80)..Top(Idle) /\ SpawnAt \in Int
    BY Zenon, IdlePlaces, SpawnCode
  <2> QED BY SMT, <2>1 DEF MaxDepth
<1>3. ASSUME pc \in b..(b + 4) PROVE ocf' = ocf /\ SpawnEnters(e)'
  <2>1. pc' = pc + 1 /\ SpInSetMt(b, e)' /\ MtKept(Idle, e)
    <3>1. "andi" \in {"ori", "andi"}
      BY Zenon
    <3> QED BY Zenon, <1>1, <1>2, <1>3, <3>1, SpawnCode, IdlePlaces, SetMtStep
  <2>2. /\ StacksKept(mem, mem', Idle, e) /\ WordsKept(mem, mem') /\ Others /\ left' = left
        /\ sreg' < 128 <=> sreg < 128
    BY Zenon, <2>1 DEF MtKept
  <2>3. Kept(mem, mem', left, left', Idle, e) /\ StackKept(mem, mem', Idle, e)
    BY Zenon, <1>2, <2>2, OneKept, IdlePlaces DEF Kept
  <2>4. WordKept(mem, mem', scheduler_task_sp) /\ WordKept(mem, mem', next_task_sp)
    BY Zenon, <2>2, WordsUnlike DEF WordsKept
  <2>5. TaskWorld(mem', left', task_sp_adr, Idle) \/ FirstWorld(mem', task_sp_adr, Idle)
    BY Zenon, <1>1, <1>2, <2>3, <2>4, TaskWorldKept, FirstWorldKept, IdlePlaces
  <2>6. RetDirect(mem', Idle, e)
    BY Zenon, <1>1, <1>2, <2>3, RetDirectKept, IdlePlaces
  <2>7. pc' \in (SpawnAt + 1)..(SpawnAt + 6)
    BY SMT, <1>3, <2>1, SpawnCode
  <2> QED BY Zenon, <1>1, <2>1, <2>2, <2>5, <2>6, <2>7 DEF SpawnEnters, Others
<1>4. ASSUME pc = SpawnAt + 6
      PROVE  ocf' = ocf /\ \E f \in (Top(Idle) - MaxDepth - 6)..(Top(Idle) - 6) : SpawnReturnPoint(f)'
  <2> DEFINE f == e - 3
  <2>1. create /\ ocf' = ocf /\ left' = left
    BY Zenon, <1>4, SpawnCode, CreateStep
  <2>2. /\ active' = IF Word(scheduler_task_sp) = 0 THEN Scheduler ELSE Worker
        /\ pc' = pc + 1 /\ sreg' = sreg /\ SP' = SP /\ mem' = mem /\ task_sp_adr' = task_sp_adr
    BY Zenon, <2>1 DEF create, Next1, Go
  <2>3. SP = e /\ f + 3 = e /\ pc' = SpawnAt + 7 /\ f \in (Top(Idle) - MaxDepth - 6)..(Top(Idle) - 6)
    <3>1. Top(Idle) \in Int /\ SpawnAt \in Int
      BY Zenon, IdlePlaces, SpawnCode
    <3>2. SP = e
      BY SMT, <1>1, <1>4, <3>1 DEF SpInSetMt
    <3> QED BY SMT, <1>2, <1>4, <2>2, <3>1, <3>2 DEF MaxDepth
  <2>4. Word(scheduler_task_sp) = WordIn(mem, scheduler_task_sp)
    BY Zenon DEF Word, WordIn
  <2>5. SpawnWorld(mem, left, task_sp_adr, active')
    <3>1. CASE TaskWorld(mem, left, task_sp_adr, Idle)
      <4>1. WordIn(mem, scheduler_task_sp) = scheduler_sp
        BY Zenon, <3>1 DEF TaskWorld, Started
      <4>2. scheduler_sp # 0
        BY SMT, TopIs, SchedulerPlaces DEF scheduler_sp, context, Scheduler
      <4> QED BY Zenon, <2>2, <2>4, <3>1, <4>1, <4>2 DEF SpawnWorld
    <3>2. CASE FirstWorld(mem, task_sp_adr, Idle)
      BY Zenon, <2>2, <2>4, <3>2 DEF SpawnWorld, FirstWorld, NotStarted
    <3> QED BY Zenon, <1>1, <3>1, <3>2
  <2>6. Returning(SpawnAt + 7, f)'
    BY SMT, <2>2, <2>3, SpawnCode DEF Returning
  <2>7. SpawnReturnPoint(f)'
    <3>1. SpawnWorld(mem, left, task_sp_adr, active)'
      BY Zenon, <2>1, <2>2, <2>5
    <3>2. RetDirect(mem', Idle, f + 3)
      BY Zenon, <1>1, <2>2, <2>3
    <3>3. sreg' < 128
      BY Zenon, <1>1, <2>2
    <3> QED BY Zenon, <2>6, <3>1, <3>2, <3>3 DEF SpawnReturnPoint
  <2> HIDE DEF f
  <2> QED BY Zenon, <2>1, <2>3, <2>7
<1>5. pc \in b..(b + 4) \/ pc = SpawnAt + 6
  BY SMT, <1>1, SpawnCode
<1> QED BY Zenon, <1>3, <1>4, <1>5

\* and its own return point.
LEMMA SpawnReturnPointStep ==
    ASSUME TypeInv, Execute, NEW e \in (Top(Idle) - MaxDepth - 6)..(Top(Idle) - 6), SpawnReturnPoint(e)
    PROVE  /\ ocf' = ocf
           /\ SpawnReturnPoint(e)' \/ \E sp \in Contexts(Idle) : Saving(SpawnSave, Idle, sp)'
<1> DEFINE b == SpawnAt + 7
<1> DEFINE d == e + 3
<1>1. /\ b \in Int /\ Runs(b, SET_RETURN_POINT(SpawnAt + 77)) /\ b + 1 \in PcRange /\ b + 13 \in PcRange
  <2>1. SpawnAt \in Int => b \in Int
    BY SMT
  <2> QED BY Zenon, <2>1, SpawnCode
<1>2. e \in Int /\ e + 1 \in Stack(Idle) /\ e + 3 \in Stack(Idle) /\ d \in Int /\ d =< d
  BY SMT, IdlePlaces DEF MaxDepth
<1>3. b + 13 = SpawnJmp /\ b + 15 = SpawnSave
  BY SMT, SpawnCode DEF SpawnJmp, SpawnSave
<1>4. SpawnWorld(mem, left, task_sp_adr, active) /\ sreg < 128 /\ Returning(b, e) /\ RetDirect(mem, Idle, d)
  BY Zenon DEF SpawnReturnPoint
<1> HIDE DEF b
<1>5. /\ pc # b + 14 => Returning(b, e)'
      /\ pc = b + 14 => pc' = b + 15 /\ SP' = e /\ PcIn(mem', e) = b + 13
      /\ ReturningKept(Idle, e)
  BY Zenon, <1>1, <1>2, <1>4, IdlePlaces, ReturningStep
<1> HIDE DEF d
<1>6. /\ StacksKept(mem, mem', Idle, d) /\ WordsKept(mem, mem') /\ Others /\ left' = left
      /\ sreg' < 128 <=> sreg < 128
  BY Zenon, <1>5 DEF ReturningKept, d
<1>7. Kept(mem, mem', left, left', Idle, d) /\ StackKept(mem, mem', Idle, d)
  BY Zenon, <1>2, <1>6, OneKept, IdlePlaces DEF Kept
<1>8. WordKept(mem, mem', scheduler_task_sp) /\ WordKept(mem, mem', next_task_sp)
  BY Zenon, <1>6, WordsUnlike DEF WordsKept
<1>9. SpawnWorld(mem, left, task_sp_adr, active)'
  <2>1. SpawnWorld(mem', left', task_sp_adr, active)
    BY Zenon, <1>2, <1>4, <1>7, <1>8, SpawnWorldKept
  <2> QED BY Zenon, <1>6, <2>1 DEF Others
<1>10. RetDirect(mem', Idle, d)
  BY Zenon, <1>2, <1>4, <1>7, RetDirectKept, IdlePlaces
<1>11. ocf' = ocf
  BY Zenon, <1>6 DEF Others
<1>12. CASE pc # b + 14
  <2>1. Returning(SpawnAt + 7, e)'
    BY Zenon, <1>5, <1>12 DEF b
  <2>2. RetDirect(mem', Idle, e + 3)
    BY Zenon, <1>10 DEF d
  <2> QED BY Zenon, <1>4, <1>6, <1>9, <1>11, <2>1, <2>2 DEF SpawnReturnPoint
<1>13. CASE pc = b + 14
  <2> DEFINE sp == e - 33
  <2>1. sp + 33 = e /\ sp + 33 + 3 = d /\ sp \in Contexts(Idle)
    BY SMT, <1>2, IdlePlaces DEF MaxDepth, Contexts, context, d
  <2> HIDE DEF sp
  <2>2. pc' = SpawnSave /\ SP' = sp + 33 /\ PcIn(mem', sp + 33) = SpawnJmp
    BY Zenon, <1>3, <1>5, <1>13, <2>1
  <2>3. RetNested(mem', Idle, sp + 33)
    BY Zenon, <1>10, <2>1, <2>2 DEF RetNested, EntryOf
  <2>4. RetPoint(mem', Idle, sp + 33)
    BY Zenon, <2>3, IdlePlaces DEF RetPoint
  <2>5. SaveWorld(SpawnSave, Idle, sp, mem, left, task_sp_adr, active)'
    BY Zenon, <1>9, <2>2 DEF SaveWorld
  <2>6. SpawnSave \in Sites
    BY Zenon DEF Sites
  <2>7. Site(SpawnSave, Idle, sp, mem, left, task_sp_adr, active)'
    BY Zenon, <2>1, <2>4, <2>5, <2>6, IdlePlaces DEF Site
  <2>8. Saving(SpawnSave, Idle, sp)'
    BY Zenon, <1>4, <1>6, <2>2, <2>7, SavingStarts
  <2> QED BY Zenon, <1>11, <2>1, <2>8
<1> QED BY Zenon, <1>12, <1>13

-----------------------------------------------------------------------------
(* spawn_task, from the change of the current task on *)

\* The world in which the new task starts: what left is stored, the new task is current.
LEMMA AdoptingWorld ==
    ASSUME NEW m \in Memory, NEW l, NEW s \in [Owners -> SpRange], NEW a, NEW sp, NEW v \in SpRange,
           SpawnWorld(m, l, s, a), Frame(m, l, Idle, sp)
    PROVE  StartWorld(WithWord(m, task_sp, v), l, [s EXCEPT ![Idle] = sp], a)
<1> DEFINE n == WithWord(m, task_sp, v)
<1> DEFINE z == [s EXCEPT ![Idle] = sp]
<1>1. /\ StacksKept(m, n, Scheduler, scheduler_sp)
      /\ WordKept(m, n, scheduler_task_sp) /\ WordKept(m, n, next_task_sp)
  <2>1. scheduler_task_sp \in Words \ {task_sp} /\ next_task_sp \in Words \ {task_sp} /\ task_sp \in Words
    BY Zenon, WordsUnlike
  <2> QED BY Zenon, <2>1, WithWordIs
<1> HIDE DEF n, z
<1>2. Kept(m, n, l, l, Scheduler, scheduler_sp)
  BY Zenon, <1>1 DEF Kept
<1>3. ASSUME Frames(m, l, s, Idle) PROVE Frames(n, l, z, Scheduler)
  <2>1. Frames(m, l, z, Scheduler)
    BY Zenon, <1>3, StoredFrames, IdlePlaces DEF z
  <2> QED BY Zenon, <1>2, <2>1, FramesKept, SchedulerPlaces
<1>4. CASE a = Worker /\ TaskWorld(m, l, s, Idle)
  <2>1. /\ Frames(m, l, s, Idle) /\ WordIn(m, scheduler_task_sp) = scheduler_sp
        /\ Frame(m, l, Scheduler, scheduler_sp) /\ WordIn(m, next_task_sp) = 0
    BY Zenon, <1>4 DEF TaskWorld, Started
  <2>2. WordIn(n, scheduler_task_sp) = scheduler_sp /\ WordIn(n, next_task_sp) = 0
    BY Zenon, <1>1, <2>1, WordInKept
  <2>3. Frame(n, l, Scheduler, scheduler_sp)
    <3>1. Below(Scheduler, scheduler_sp, l, l)
      BY Zenon, SchedulerPlaces, SameInt DEF Below
    <3> QED BY Zenon, <1>2, <2>1, <3>1, SchedulerKept, SchedulerPlaces
  <2>4. Frames(n, l, z, Worker)
    BY Zenon, <1>3, <2>1, TasksAre DEF Frames
  <2>5. TaskWorld(n, l, z, Worker)
    BY Zenon, <2>2, <2>3, <2>4, IdlePlaces DEF TaskWorld, Started
  <2> QED BY Zenon, <1>4, <2>5 DEF StartWorld, n, z
<1>5. CASE a = Scheduler /\ FirstWorld(m, s, Idle)
  <2>1. Frames(m, l, s, Idle)
    BY Zenon, <1>5 DEF FirstWorld, NotStarted, Frames
  <2>2. BootWorld(n, l, z, a)
    BY Zenon, <1>3, <1>5, <2>1 DEF BootWorld
  <2> QED BY Zenon, <2>2 DEF StartWorld, n, z
<1> QED BY Zenon, <1>4, <1>5 DEF SpawnWorld

\* The new task becomes current.
LEMMA AdoptingStep ==
    ASSUME TypeInv, Execute, NEW sp \in Contexts(Idle), Adopting(sp)
    PROVE  ocf' = ocf /\ Starting'
<1>1. pc = SpawnAt + 63 /\ SP = sp /\ WordIn(mem, task_sp) = sp /\ Saved(SpawnSave, Idle, sp)
  BY Zenon DEF Adopting
<1>2. adopt /\ ocf' = ocf /\ left' = left
  BY Zenon, <1>1, SpawnCode, AdoptStep
<1>3. /\ task_sp_adr' = [task_sp_adr EXCEPT ![Owner(SP)] = Word(task_sp)]
      /\ mem' = WithWord(mem, task_sp, Top(active))
      /\ pc' = pc + 1 /\ R' = R /\ sreg' = sreg /\ SP' = SP /\ active' = active
  BY Zenon, <1>2 DEF adopt, Next1, Go, Top
<1>4. Owner(SP) = Idle /\ Word(task_sp) = sp
  <2>1. Top(Idle) \in Int
    BY Zenon, IdlePlaces
  <2>2. sp \in (Top(Idle) - 200)..Top(Idle)
    BY SMT, <2>1 DEF Contexts, context
  <2>3. Owner(sp) = Idle
    BY SMT, <2>2, OwnerIs, IdlePlaces
  <2> QED BY Zenon, <1>1, <2>3 DEF Word, WordIn
<1>5. SpawnWorld(mem, left, task_sp_adr, active) /\ Frame(mem, left, Idle, sp) /\ sreg < 128
  <2>1. SaveWorld(SpawnSave, Idle, sp, mem, left, task_sp_adr, active) /\ Frame(mem, left, Idle, sp)
    BY Zenon, <1>1 DEF Saved, Site
  <2>2. SpawnSave # StartSave /\ SpawnSave \notin SwitchAt /\ SpawnSave # YieldSave
    BY Zenon, SitesAre DEF SwitchAt
  <2> QED BY Zenon, <1>1, <2>1, <2>2 DEF SaveWorld, Saved, FlagLow
<1>6. mem \in Memory /\ task_sp_adr \in [Owners -> SpRange] /\ active \in Owners /\ Top(active) \in SpRange
  <2>1. mem \in Memory /\ task_sp_adr \in [Owners -> SpRange] /\ active \in Owners
    BY Zenon DEF TypeInv, MachineType, KernelType
  <2> QED BY Zenon, <2>1, TopSp DEF Top
<1>7. task_sp_adr' = [task_sp_adr EXCEPT ![Idle] = sp]
  BY Zenon, <1>3, <1>4
<1>8. StartWorld(mem, left, task_sp_adr, active)'
  <2>1. StartWorld(mem', left, task_sp_adr', active)
    <3> DEFINE n == WithWord(mem, task_sp, Top(active))
    <3> DEFINE z == [task_sp_adr EXCEPT ![Idle] = sp]
    <3>1. mem' = n /\ task_sp_adr' = z
      BY Zenon, <1>3, <1>7
    <3>2. StartWorld(n, left, z, active)
      BY Zenon, <1>5, <1>6, AdoptingWorld
    <3> HIDE DEF n, z
    <3> QED BY Zenon, <3>1, <3>2
  <2> QED BY Zenon, <1>2, <1>3, <2>1
<1>9. WordIn(mem', task_sp) = Top(active')
  BY Zenon, <1>3, <1>6, WithWordIs, WordsUnlike
<1>10. SettingSp(SpawnAt + 64)'
  <2>1. pc' = SpawnAt + 64 /\ SpawnAt \in Int
    BY SMT, <1>1, <1>3, SpawnCode
  <2> QED BY SMT, <2>1 DEF SettingSp
<1> QED BY Zenon, <1>2, <1>3, <1>5, <1>8, <1>9, <1>10 DEF Starting

\* Within Starting, a step keeps the world.
LEMMA StartWorldKept ==
    ASSUME NEW t, t = active, NEW e \in Int, Kept(mem, mem', left, left', t, e), WordsKept(mem, mem'), Others,
           StartWorld(mem, left, task_sp_adr, active)
    PROVE  StartWorld(mem, left, task_sp_adr, active)'
<1>1. WordKept(mem, mem', scheduler_task_sp) /\ WordKept(mem, mem', next_task_sp)
  BY Zenon, WordsUnlike DEF WordsKept
<1>2. CASE active = Worker /\ TaskWorld(mem, left, task_sp_adr, Worker)
  <2>1. TaskWorld(mem', left', task_sp_adr, Worker)
    BY Zenon, <1>1, <1>2, TaskWorldKept, IdlePlaces
  <2> QED BY Zenon, <1>2, <2>1 DEF StartWorld, Others
<1>3. CASE BootWorld(mem, left, task_sp_adr, active)
  <2>1. active = Scheduler
    BY Zenon, <1>3 DEF BootWorld
  <2>2. BootWorld(mem', left', task_sp_adr, active)
    BY Zenon, <1>3, <2>1, BootWorldKept
  <2> QED BY Zenon, <2>2 DEF StartWorld, Others
<1> QED BY Zenon, <1>2, <1>3 DEF StartWorld

\* The top of a stack.
LEMMA TopPlaces ==
    \A o \in Owners : Top(o) \in Stack(o) /\ Top(o) \in Int /\ Top(o) \in (Top(o) - MaxDepth)..Top(o)
<1> SUFFICES ASSUME NEW o \in Owners
             PROVE  Top(o) \in Stack(o) /\ Top(o) \in Int /\ Top(o) \in (Top(o) - MaxDepth)..Top(o)
  OBVIOUS
<1>1. Top(o) \in Int /\ Stack(o) = (Top(o) - 80)..Top(o)
  BY Zenon, Geometry
<1> QED BY SMT, <1>1 DEF MaxDepth

\* SET_SP,
LEMMA StartingSp ==
    ASSUME TypeInv, Execute, StartWorld(mem, left, task_sp_adr, active), SettingSp(SpawnAt + 64),
           WordIn(mem, task_sp) = Top(active), sreg < 128
    PROVE  ocf' = ocf /\ Starting'
<1> DEFINE b == SpawnAt + 64
<1>1. SpawnAt \in Int /\ Runs(b, SET_SP) /\ active \in Owners
  BY Zenon, SpawnCode DEF TypeInv, KernelType
<1>2. b \in Int /\ b + 5 = SpawnAt + 69
  BY SMT, <1>1
<1>3. /\ pc' = pc + 1
      /\ pc # b + 5 => SettingSp(b)'
      /\ pc = b + 5 => SP' = WordIn(mem, task_sp)
      /\ Others /\ left' = left /\ sreg' = sreg /\ mem' = mem
  BY Zenon, <1>1, <1>2, SetSpStep
<1>4. StartWorld(mem, left, task_sp_adr, active)' /\ sreg' < 128 /\ ocf' = ocf /\ active' = active
      /\ WordIn(mem', task_sp) = Top(active')
  BY Zenon, <1>3 DEF Others
<1>5. CASE pc = b + 5
  <2>1. pc' = SpawnAt + 70 /\ SP' = Top(active)
    BY SMT, <1>1, <1>3, <1>5
  <2>2. Enabling(SpawnAt + 70, Top(active))'
    <3>1. SP' = Top(active')
      BY Zenon, <1>4, <2>1
    <3> QED BY SMT, <1>1, <2>1, <3>1 DEF Enabling, SpInSetMt
  <2> QED BY Zenon, <1>4, <2>2 DEF Starting
<1>6. CASE pc # b + 5
  BY Zenon, <1>3, <1>4, <1>6 DEF Starting
<1> QED BY Zenon, <1>5, <1>6

\* SCILENT_ENABLE_MT and sei,
LEMMA StartingMt ==
    ASSUME TypeInv, Execute, StartWorld(mem, left, task_sp_adr, active),
           Enabling(SpawnAt + 70, Top(active)), sreg < 128
    PROVE  ocf' = ocf /\ Starting'
<1>1. PICK t \in Owners : t = active
  BY Zenon DEF TypeInv, KernelType
<1> DEFINE b == SpawnAt + 70
<1>2. SpawnAt \in Int /\ Runs(b, SetMt("ori")) /\ sreg \in Byte
  BY Zenon, SpawnCode DEF TypeInv, MachineType
<1>3. b \in Int /\ b + 5 = SpawnAt + 75
  BY SMT, <1>2
<1>4. Top(t) \in Stack(t) /\ Top(t) \in Int
  BY Zenon, TopPlaces
<1>5. Enabling(b, Top(t))
  BY Zenon, <1>1
<1> HIDE DEF b
<1>6. CASE pc # b + 5
  <2>1. Enabling(b, Top(t))' /\ MtKept(t, Top(t))
    BY Zenon, <1>2, <1>3, <1>4, <1>5, <1>6, EnablingStep
  <2>2. Kept(mem, mem', left, left', t, Top(t)) /\ WordsKept(mem, mem') /\ Others /\ (sreg' < 128 <=> sreg < 128)
    BY Zenon, <2>1 DEF MtKept, Kept
  <2>3. StartWorld(mem, left, task_sp_adr, active)'
    BY Zenon, <1>1, <1>4, <2>2, StartWorldKept
  <2>4. active' = t /\ ocf' = ocf
    BY Zenon, <1>1, <2>2 DEF Others
  <2>5. Enabling(SpawnAt + 70, Top(active))'
    BY Zenon, <2>1, <2>4 DEF b
  <2> QED BY Zenon, <2>2, <2>3, <2>4, <2>5 DEF Starting
<1>7. CASE pc = b + 5
  <2>1. At(pc, <<"sei">>)
    BY Zenon, <1>3, <1>7, SpawnCode
  <2>2. /\ sreg' = 128 + (sreg % 128)
        /\ pc' = pc + 1 /\ SP' = SP /\ mem' = mem /\ R' = R /\ Others /\ left' = left
    BY Zenon, <2>1, SeiStep
  <2>3. IFlag'
    BY Zenon, <1>2, <2>2, FlagSet DEF IFlag
  <2>4. Mt
    <3>1. pc \in (b + 4)..(b + 5)
      BY SMT, <1>3, <1>7
    <3> QED BY Zenon, <1>5, <3>1 DEF Enabling
  <2>5. InterruptsOn'
    BY Zenon, <2>2, <2>3, <2>4 DEF InterruptsOn, Mt
  <2>6. SP = Top(t)
    <3>1. SpInSetMt(b, Top(t))
      BY Zenon, <1>5 DEF Enabling
    <3> QED BY SMT, <1>3, <1>7, <3>1 DEF SpInSetMt
  <2>7. pc' = SpawnAt + 76
    BY SMT, <1>2, <1>3, <1>7, <2>2
  <2>8. StartWorld(mem, left, task_sp_adr, active)' /\ SP' = Top(active') /\ ocf' = ocf
    BY Zenon, <1>1, <2>2, <2>6 DEF Others
  <2> QED BY Zenon, <2>5, <2>7, <2>8 DEF Starting
<1> QED BY Zenon, <1>6, <1>7

\* the task's function.
LEMMA StartingFn ==
    ASSUME TypeInv, Execute, StartWorld(mem, left, task_sp_adr, active),
           pc = SpawnAt + 76, SP = Top(active), InterruptsOn
    PROVE  ocf' = ocf /\ (InTask' \/ Booting')
<1>1. fn /\ ocf' = ocf /\ left' = left
  BY Zenon, SpawnCode, FnStep
<1>2. /\ pc' = IF active = Scheduler THEN StartAt ELSE TaskAt(active)
      /\ sreg' = sreg /\ SP' = SP /\ mem' = mem /\ active' = active /\ task_sp_adr' = task_sp_adr
  BY Zenon, <1>1 DEF fn, Go, kernel
<1>3. CASE active = Worker /\ TaskWorld(mem, left, task_sp_adr, Worker)
  <2>1. pc' \in TaskCode(Worker)
    <3>1. pc' = TaskAt(Worker)
      BY Zenon, <1>2, <1>3, IdlePlaces
    <3>2. TaskAt(Worker) = TaskAt(Worker) + 2 * 0
      BY SMT, Places DEF TaskAt
    <3> QED BY Zenon, <3>1, <3>2 DEF TaskCode, CallSites
  <2>2. TaskState(Worker)'
    <3>1. InterruptsOn'
      BY Zenon, <1>2 DEF InterruptsOn, IFlag, Mt
    <3>2. TaskWorld(mem, left, task_sp_adr, Worker)'
      BY Zenon, <1>1, <1>2, <1>3
    <3> QED BY Zenon, <1>2, <1>3, <3>1, <3>2 DEF TaskState
  <2>3. SP' \in (Top(Worker) - MaxDepth)..Top(Worker)
    BY Zenon, <1>2, <1>3, TopPlaces, IdlePlaces
  <2>4. active' = Worker
    BY Zenon, <1>2, <1>3
  <2> QED BY Zenon, <1>1, <2>1, <2>2, <2>3, <2>4 DEF InTask
<1>4. CASE BootWorld(mem, left, task_sp_adr, active)
  <2>1. active = Scheduler
    BY Zenon, <1>4 DEF BootWorld
  <2>2. pc' = StartAt /\ SP' = Top(Scheduler)
    BY Zenon, <1>2, <2>1
  <2>3. pc' \in StartAt..(StartAt + 4) /\ SpInSetMt(StartAt, Top(Scheduler))'
    BY SMT, <2>2, StartCode DEF SpInSetMt
  <2>4. BootWorld(mem, left, task_sp_adr, active)'
    BY Zenon, <1>1, <1>2, <1>4
  <2> QED BY Zenon, <1>1, <2>3, <2>4 DEF Booting
<1> QED BY Zenon, <1>3, <1>4 DEF StartWorld

\* The new task's first steps.
LEMMA StartingStep ==
    ASSUME TypeInv, Execute, Starting
    PROVE  ocf' = ocf /\ (Starting' \/ InTask' \/ Booting')
BY Zenon, StartingSp, StartingMt, StartingFn DEF Starting

\* A return address into a task's code.
LEMMA RetDirectIs ==
    ASSUME NEW o \in Owners, NEW sp \in Int, RetDirect(mem, o, sp), SP = sp
    PROVE  /\ (SP + 1)..(SP + 3) \subseteq Addresses /\ PcAbove(SP) \in TaskCode(o)
           /\ SP + 3 \in (Top(o) - MaxDepth)..Top(o)
<1>1. sp + 3 \in (Top(o) - MaxDepth)..Top(o) /\ PcIn(mem, sp) \in TaskCode(o)
  BY Zenon DEF RetDirect
<1>2. Top(o) \in Int /\ Stack(o) = (Top(o) - 80)..Top(o) /\ Stack(o) \subseteq Addresses
  BY Zenon, Geometry, StackAddresses
<1>3. \A a \in (SP + 1)..(SP + 3) : a \in Stack(o)
  BY SMT, <1>1, <1>2 DEF MaxDepth
<1>4. PcAbove(SP) = PcIn(mem, SP)
  BY SMT DEF PcAbove, PcIn, Bytes
<1> QED BY Zenon, <1>1, <1>2, <1>3, <1>4

\* The return of spawn_task to the task that called it.
LEMMA SpawnReturnsStep ==
    ASSUME TypeInv, Execute, SpawnReturns
    PROVE  ocf' = ocf /\ (SpawnReturns' \/ InTask')
<1>1. /\ pc \in {SpawnJmp, SpawnAt + 77} /\ active = Idle
      /\ RetDirect(mem, Idle, SP) /\ TaskWorld(mem, left, task_sp_adr, Idle) /\ InterruptsOn
  BY Zenon DEF SpawnReturns
<1>2. SP \in Int
  BY Zenon, SpBytes, StackedSp DEF TypeInv, MachineType
<1>3. CASE pc = SpawnJmp
  <2>1. At(pc, <<"jmp", SpawnAt + 77>>)
    BY Zenon, <1>3, SpawnCode
  <2>2. pc' = SpawnAt + 77 /\ SP' = SP /\ mem' = mem /\ R' = R /\ sreg' = sreg /\ Others /\ left' = left
    BY Zenon, <2>1, JmpStep
  <2>3. InterruptsOn'
    BY Zenon, <1>1, <2>2 DEF InterruptsOn, IFlag, Mt
  <2> QED BY Zenon, <1>1, <2>2, <2>3 DEF SpawnReturns, Others
<1>4. CASE pc = SpawnAt + 77
  <2>1. At(pc, <<"return">>) /\ "return" \in {"ret", "return"}
    BY Zenon, <1>4, SpawnCode
  <2>2. /\ (SP + 1)..(SP + 3) \subseteq Addresses /\ PcAbove(SP) \in TaskCode(Idle)
        /\ SP + 3 \in (Top(Idle) - MaxDepth)..Top(Idle)
    BY Zenon, <1>1, <1>2, RetDirectIs, IdlePlaces
  <2>3. /\ SP' = SP + 3 /\ pc' = PcAbove(SP) /\ R' = R /\ mem' = mem
        /\ sreg' = sreg /\ Others /\ left' = left
    BY Zenon, <2>1, <2>2, RetStep
  <2>4. InterruptsOn'
    BY Zenon, <1>1, <2>3 DEF InterruptsOn, IFlag, Mt
  <2>5. TaskState(Idle)' /\ active' = Idle
    BY Zenon, <1>1, <2>3, <2>4 DEF TaskState, Others
  <2> QED BY Zenon, <2>2, <2>3, <2>5 DEF InTask, Others
<1> QED BY Zenon, <1>1, <1>3, <1>4

-----------------------------------------------------------------------------
(* Task code, and the calls and interrupts that leave it *)

\* Task code and the kernel's are apart.
LEMMA TaskCodeApart ==
    /\ \A a \in DOMAIN Code : a \notin AllTaskCode /\ a > 0 /\ a \in Int
    /\ \A a \in AllTaskCode : a > 0 /\ a \in Int /\ a \notin DOMAIN Code
    /\ \A o \in Tasks : TaskCode(o) \subseteq AllTaskCode
    /\ \A o \in Tasks : CallSites(o) \subseteq TaskCode(o) /\ \A a \in CallSites(o) : a + 1 \in TaskCode(o)
<1>1. \A o \in Tasks : TaskCode(o) \subseteq AllTaskCode
  BY Zenon DEF AllTaskCode, Tasks
<1>2. \A o \in Tasks : CallSites(o) \subseteq TaskCode(o) /\ \A a \in CallSites(o) : a + 1 \in TaskCode(o)
  BY Zenon DEF TaskCode
<1>3. \A p \in Patterns \cup {0} : p \in 0..40
  BY SMT, PatternsAssumption DEF MaxDepth
<1>4. ASSUME NEW o, NEW a \in TaskCode(o) PROVE a \in TaskAt(o)..(TaskAt(o) + 81)
  <2>1. \E p \in Patterns \cup {0} : a = TaskAt(o) + 2 * p \/ a = TaskAt(o) + 2 * p + 1
    BY Zenon DEF TaskCode, CallSites
  <2>2. TaskAt(o) \in Int
    BY SMT, Places DEF TaskAt
  <2> QED BY SMT, <1>3, <2>1, <2>2
<1>5. \A a \in AllTaskCode : a \in IdleAt..(IdleAt + 81) \/ a \in WorkerAt..(WorkerAt + 81)
  BY Zenon, <1>4 DEF AllTaskCode, TaskAt
<1>6. ASSUME NEW a \in DOMAIN Code PROVE a \notin AllTaskCode
  <2>1. a \notin IdleAt..(IdleAt + 81) /\ a \notin WorkerAt..(WorkerAt + 81)
    BY SMT, Layout, CodeIs DEF Apart
  <2> QED BY Zenon, <1>5, <2>1
<1>7. \A a \in DOMAIN Code : a > 0 /\ a \in Int
  BY SMT, Places, CodeIs
<1>8. \A a \in AllTaskCode : a > 0 /\ a \in Int
  BY SMT, <1>5, Places
<1> QED BY Zenon, <1>1, <1>2, <1>6, <1>7, <1>8

\* sei is never just before a function: an interrupt can strike at its first instruction.
LEMMA BeforeEntry ==
    ASSUME NEW a \in {SpawnAt, YieldAt}, a - 1 \in DOMAIN Code
    PROVE  Code[a - 1][1] # "sei"
<1>1. a - 1 = SpawnAt + 77 \/ a - 1 = StartAt + 77 \/ a - 1 = YieldAt + 119 \/ a - 1 = TimerAt + 117
  BY SMT, Layout, CodeIs DEF Apart
<1>2. At(SpawnAt + 77, <<"return">>) /\ At(StartAt + 77, <<"jmp", StartAt + 67>>)
      /\ At(YieldAt + 119, <<"ret">>) /\ At(TimerAt + 117, <<"reti">>)
  BY Zenon, SpawnCode, StartCode, SiteCode
<1> QED BY SMT, <1>1, <1>2 DEF At

\* What a return address pushed by task code, or by the interrupt of it, leaves.
LEMMA EnterTask ==
    ASSUME TypeInv, TaskState(active), NEW t \in Tasks, t = active, NEW a, NEW return \in PcRange, Enter(a, return),
           SP \in Int, SP - 2 \in Stack(t), SP \in Stack(t), UNCHANGED <<kernel, left>>
    PROVE  /\ pc' = a /\ SP' = SP - 3 /\ PcIn(mem', SP - 3) = return
           /\ StackKept(mem, mem', t, SP)
           /\ mem'[TIMSK1] = mem[TIMSK1]
           /\ TaskWorld(mem, left, task_sp_adr, t) => TaskWorld(mem, left, task_sp_adr, t)'
           /\ FirstWorld(mem, task_sp_adr, t) => FirstWorld(mem, task_sp_adr, t)'
<1>1. mem \in Memory /\ t \in Owners
  BY Zenon, TasksAre DEF TypeInv, MachineType
<1>2. Top(t) \in Int /\ Stack(t) = (Top(t) - 80)..Top(t) /\ Stack(t) \subseteq Addresses
  BY Zenon, <1>1, Geometry, StackAddresses
<1>3. \A x \in (SP - 2)..SP : x \in Stack(t)
  BY SMT, <1>2
<1>4. mem' = WithPc(mem, return) /\ SP' = SP - 3 /\ pc' = a
  BY Zenon, <1>2, <1>3 DEF Enter, Go
<1>5. StacksKept(mem, mem', t, SP) /\ WordsKept(mem, mem') /\ PcIn(mem', SP - 3) = return
  BY Zenon, <1>1, <1>4, PcStore
<1>6. SP =< SP
  BY Zenon, SameInt
<1>7. Kept(mem, mem', left, left', t, SP) /\ StackKept(mem, mem', t, SP)
  BY Zenon, <1>1, <1>5, <1>6, OneKept DEF Kept
<1>8. WordKept(mem, mem', scheduler_task_sp) /\ WordKept(mem, mem', next_task_sp)
  BY Zenon, <1>5, WordsUnlike DEF WordsKept
<1>9. mem'[TIMSK1] = mem[TIMSK1]
  <2>1. TIMSK1 \in Addresses /\ TIMSK1 \notin Stack(t)
    BY Zenon, <1>1, TimerAddresses, Disjoint DEF Ports
  <2>2. SP - 1 \in Stack(t)
    BY SMT, <1>2
  <2>3. TIMSK1 # SP /\ TIMSK1 # SP - 1 /\ TIMSK1 # SP - 2
    BY Zenon, <2>1, <2>2
  <2> QED BY SMT, <1>1, <1>4, <2>1, <2>3 DEF WithPc, Memory
<1>10. task_sp_adr' = task_sp_adr /\ active' = active /\ left' = left
  BY Zenon DEF kernel
<1>11. TaskWorld(mem, left, task_sp_adr, t) => TaskWorld(mem', left', task_sp_adr, t)
  BY Zenon, <1>1, <1>7, <1>8, TaskWorldKept
<1>12. FirstWorld(mem, task_sp_adr, t) => FirstWorld(mem', task_sp_adr, t)
  BY Zenon, <1>8, FirstWorldKept
<1> QED BY Zenon, <1>4, <1>5, <1>7, <1>9, <1>10, <1>11, <1>12

\* What TaskState says of the interrupts.
LEMMA TaskStateIs ==
    ASSUME TaskState(active)
    PROVE  /\ active \in Tasks /\ active \in Owners
           /\ TaskWorld(mem, left, task_sp_adr, active) => WordIn(mem, scheduler_task_sp) # 0
           /\ FirstWorld(mem, task_sp_adr, active) => WordIn(mem, scheduler_task_sp) = 0
<1>1. active \in Tasks
  BY Zenon, IdlePlaces DEF TaskState, TaskWorld, FirstWorld
<1>2. scheduler_sp # 0
  BY SMT, TopIs, SchedulerPlaces DEF scheduler_sp, context, Scheduler
<1> QED BY Zenon, <1>1, <1>2, TasksAre DEF TaskWorld, Started, FirstWorld, NotStarted

\* Where SP is in task code, and at the first instruction of a function it called.
LEMMA TaskSp ==
    ASSUME NEW t \in Owners, NEW e \in Int
    PROVE  /\ e \in (Top(t) - MaxDepth)..Top(t) =>
                 /\ e \in Stack(t) /\ e - 2 \in Stack(t) /\ e - 36 \in Contexts(t)
           /\ e + 3 \in (Top(t) - MaxDepth)..Top(t) =>
                 /\ e \in Stack(t) /\ e - 2 \in Stack(t) /\ e - 33 \in Contexts(t) /\ e - 36 \in Contexts(t)
<1>1. Top(t) \in Int /\ Stack(t) = (Top(t) - 80)..Top(t)
  BY Zenon, Geometry
<1> QED BY SMT, <1>1 DEF MaxDepth, Contexts, context

LEMMA SpIsInt == ASSUME TypeInv PROVE SP \in Int
BY Zenon, SpBytes, StackedSp DEF TypeInv, MachineType

\* The timer's interrupt of a task, in its code or in a call's first instruction.
LEMMA InterruptSaves ==
    ASSUME TypeInv, TimerISR, TaskState(active), NEW t \in Tasks, t = active,
           SP \in Stack(t), SP - 2 \in Stack(t), SP - 36 \in Contexts(t), pc \in PcRange,
           \/ pc \in TaskCode(t) /\ SP \in (Top(t) - MaxDepth)..Top(t)
           \/ pc \in EntryOf(t) /\ RetDirect(mem, t, SP)
    PROVE  ocf' = FALSE /\ \E sp \in Contexts(t) : Saving(TimerAt, t, sp)'
<1>1. /\ Enter(TimerAt, pc) /\ sreg' = sreg % 128 /\ ocf' = FALSE /\ UNCHANGED <<kernel, left>>
      /\ ocf /\ SP \in Int /\ t \in Owners /\ t # Scheduler
  BY Zenon, SpIsInt, TasksAre DEF TimerISR, Irq
<1>2. TaskWorld(mem, left, task_sp_adr, t)
  BY Zenon, <1>1 DEF TaskState
<1>3. PICK sp \in Contexts(t) : sp = SP - 36
  BY Zenon
<1>4. sp + 33 = SP - 3 /\ SP - 3 + 3 = SP /\ SP =< SP
  BY SMT, <1>1, <1>3
<1>5. /\ pc' = TimerAt /\ SP' = SP - 3 /\ PcIn(mem', SP - 3) = pc
      /\ StackKept(mem, mem', t, SP)
      /\ TaskWorld(mem, left, task_sp_adr, t)'
  BY Zenon, <1>1, <1>2, EnterTask
<1>6. RetPoint(mem', t, sp + 33)
  <2>1. CASE pc \in TaskCode(t) /\ SP \in (Top(t) - MaxDepth)..Top(t)
    <3>1. RetDirect(mem', t, SP - 3)
      BY Zenon, <1>4, <1>5, <2>1 DEF RetDirect
    <3> QED BY Zenon, <1>1, <1>4, <3>1 DEF RetPoint
  <2>2. CASE pc \in EntryOf(t) /\ RetDirect(mem, t, SP)
    <3>1. RetDirect(mem', t, SP)
      BY Zenon, <1>1, <1>4, <1>5, <2>2, RetDirectKept
    <3>2. RetNested(mem', t, SP - 3)
      BY Zenon, <1>4, <1>5, <2>2, <3>1 DEF RetNested
    <3> QED BY Zenon, <1>1, <1>4, <3>2 DEF RetPoint
  <2> QED BY Zenon, <2>1, <2>2
<1>7. active' = t
  BY Zenon, <1>1 DEF kernel
<1>8. SaveWorld(TimerAt, t, sp, mem, left, task_sp_adr, active)'
  BY Zenon, <1>5, <1>7 DEF SaveWorld, SwitchAt
<1>9. Site(TimerAt, t, sp, mem, left, task_sp_adr, active)'
  BY Zenon, <1>1, <1>6, <1>8 DEF Site, Sites
<1>10. sreg' < 128
  BY SMT, <1>1 DEF TypeInv, MachineType, Byte
<1>11. SP' = sp + 33
  BY Zenon, <1>4, <1>5
<1> QED BY Zenon, <1>1, <1>5, <1>9, <1>10, <1>11, SavingStarts

\* It leads into the switch.
LEMMA TaskInterrupted ==
    ASSUME TypeInv, InTask \/ InCall, TimerISR
    PROVE  ocf' = FALSE /\ \E t \in Owners : \E sp \in Contexts(t) : Saving(TimerAt, t, sp)'
<1>1. TaskState(active)
  BY Zenon DEF InTask, InCall
<1>2. PICK t \in Tasks : t = active /\ t \in Owners
  BY Zenon, <1>1, TaskStateIs
<1>3. SP \in Int
  BY Zenon, SpIsInt
<1>4. ocf' = FALSE /\ \E sp \in Contexts(t) : Saving(TimerAt, t, sp)'
  <2>1. CASE InTask
    <3>1. pc \in TaskCode(t) /\ SP \in (Top(t) - MaxDepth)..Top(t)
      BY Zenon, <1>2, <2>1 DEF InTask
    <3>2. pc \in PcRange
      BY Zenon, <3>1, TaskPcs DEF TaskCode, CallSites
    <3>3. SP \in Stack(t) /\ SP - 2 \in Stack(t) /\ SP - 36 \in Contexts(t)
      BY Zenon, <1>2, <1>3, <3>1, TaskSp
    <3> QED BY Zenon, <1>1, <1>2, <3>1, <3>2, <3>3, InterruptSaves
  <2>2. CASE InCall
    <3>1. RetDirect(mem, t, SP) /\ pc \in EntryOf(t) /\ pc \in PcRange
      BY Zenon, <1>2, <2>2, PlacePcs DEF InCall, EntryOf
    <3>2. SP \in Stack(t) /\ SP - 2 \in Stack(t) /\ SP - 36 \in Contexts(t)
      BY Zenon, <1>2, <1>3, <3>1, TaskSp DEF RetDirect
    <3> QED BY Zenon, <1>1, <1>2, <3>1, <3>2, InterruptSaves
  <2> QED BY Zenon, <2>1, <2>2
<1> QED BY Zenon, <1>2, <1>4

\* A call of yield or spawn_task.
LEMMA CallEnters ==
    ASSUME TypeInv, InTask, NEW a, Call(a),
           (a = YieldAt /\ Word(scheduler_task_sp) # 0) \/ (a = SpawnAt /\ active = Idle)
    PROVE  InCall'
<1>1. TaskState(active) /\ SP \in Int
  BY Zenon, SpIsInt DEF InTask
<1>2. PICK t \in Tasks : t = active /\ t \in Owners
  BY Zenon, <1>1, TaskStateIs
<1>3. SP \in (Top(t) - MaxDepth)..Top(t) /\ SP - 3 + 3 = SP
  BY SMT, <1>1, <1>2 DEF InTask
<1>4. SP \in Stack(t) /\ SP - 2 \in Stack(t)
  BY Zenon, <1>1, <1>2, <1>3, TaskSp
<1>5. Call(a) /\ ((a = YieldAt /\ Word(scheduler_task_sp) # 0) \/ (a = SpawnAt /\ active = Idle))
  OBVIOUS
<1>6. pc \in CallSites(t) /\ Enter(a, pc + 1) /\ UNCHANGED <<R, sreg, ocf, kernel, left>>
  BY Zenon, <1>2, <1>5 DEF Call
<1>7. pc + 1 \in PcRange /\ pc + 1 \in TaskCode(t)
  <2>1. \A p \in Patterns \cup {0} : TaskAt(t) + 2 * p + 1 \in PcRange
    BY Zenon, TaskPcs
  <2> QED BY Zenon, <1>6, <2>1, TaskCodeApart DEF CallSites
<1>8. /\ pc' = a /\ SP' = SP - 3 /\ PcIn(mem', SP - 3) = pc + 1
      /\ mem'[TIMSK1] = mem[TIMSK1]
      /\ TaskWorld(mem, left, task_sp_adr, t) => TaskWorld(mem, left, task_sp_adr, t)'
      /\ FirstWorld(mem, task_sp_adr, t) => FirstWorld(mem, task_sp_adr, t)'
  BY Zenon, <1>1, <1>2, <1>4, <1>6, <1>7, EnterTask
<1>9. active' = t /\ ocf' = ocf /\ sreg' = sreg
  BY Zenon, <1>2, <1>6 DEF kernel
<1>10. InterruptsOn => InterruptsOn'
  BY Zenon, <1>8, <1>9 DEF InterruptsOn, IFlag, Mt
<1>11. TaskState(t)'
  BY Zenon, <1>1, <1>2, <1>8, <1>9, <1>10 DEF TaskState
<1>12. RetDirect(mem', t, SP')
  BY Zenon, <1>3, <1>7, <1>8 DEF RetDirect
<1>13. a = YieldAt => TaskWorld(mem, left, task_sp_adr, t)'
  <2>1. SUFFICES ASSUME a = YieldAt PROVE TaskWorld(mem, left, task_sp_adr, t)'
    OBVIOUS
  <2>2. a # SpawnAt
    BY SMT, <2>1, Layout DEF Apart
  <2>3. WordIn(mem, scheduler_task_sp) # 0
    BY Zenon, <1>5, <2>2 DEF Word, WordIn
  <2>4. TaskWorld(mem, left, task_sp_adr, t)
    BY Zenon, <1>1, <1>2, <2>3, TaskStateIs DEF TaskState
  <2> QED BY Zenon, <1>8, <2>4
<1> QED BY Zenon, <1>2, <1>5, <1>8, <1>9, <1>11, <1>12, <1>13 DEF InCall

\* Both lead into the kernel.
LEMMA TaskCalls ==
    ASSUME TypeInv, InTask, Yield \/ Spawn
    PROVE  InCall'
<1>1. CASE Yield
  <2>1. Call(YieldAt) /\ Word(scheduler_task_sp) # 0
    BY Zenon, <1>1 DEF Yield
  <2> QED BY Zenon, <2>1, CallEnters
<1>2. CASE Spawn
  <2>1. Call(SpawnAt) /\ active = Idle
    BY Zenon, <1>2 DEF Spawn
  <2> QED BY Zenon, <2>1, CallEnters
<1> QED BY Zenon, <1>1, <1>2

\* Task code computes.
LEMMA TaskComputes ==
    ASSUME TypeInv, LeftType, InTask, Compute
    PROVE  InTask'
<1>1. TaskState(active) /\ mem \in Memory /\ sreg \in Byte
  BY Zenon DEF InTask, TypeInv, MachineType
<1>2. PICK t \in Tasks : t = active /\ t \in Owners
  BY Zenon, <1>1, TaskStateIs
<1>3. PICK p \in Patterns :
         /\ sreg' = (sreg \div 128) * 128 + Flags[p]
         /\ SP' = Top(t) - p
         /\ mem' = [x \in Addresses |-> IF x \in Stack(t) THEN 165 + p ELSE mem[x]]
         /\ pc' = TaskAt(t) + 2 * p
  BY Zenon, <1>2 DEF Compute, Go, Top
<1>4. left' = [a \in {a \in DOMAIN left : Owner(a) # t} |-> left[a]] /\ UNCHANGED <<ocf, kernel>>
  BY Zenon, <1>2 DEF Compute
<1>5. Top(t) \in Int /\ Stack(t) = (Top(t) - 80)..Top(t)
  BY Zenon, <1>2, Geometry
<1>6. p \in 0..MaxDepth /\ Flags[p] \in 0..127
  BY SMT, PatternsAssumption
<1>7. SP' \in (Top(t) - MaxDepth)..Top(t)
  BY SMT, <1>3, <1>5, <1>6 DEF MaxDepth
<1>8. pc' \in TaskCode(t)
  BY Zenon, <1>3 DEF TaskCode, CallSites
<1>9. \A x \in Addresses : x \notin Stack(t) => mem'[x] = mem[x]
  BY Zenon, <1>3
<1>10. StacksKept(mem, mem', t, Top(t))
  <2>1. ASSUME NEW o \in Owners, NEW x \in Stack(o), o = t => x > Top(t) PROVE mem'[x] = mem[x]
    <3>1. x \in Addresses
      BY Zenon, StackAddresses
    <3>2. o # t
      BY SMT, <1>5, <2>1
    <3>3. x \notin Stack(t)
      BY Zenon, <1>2, <3>2, StacksApart
    <3> QED BY Zenon, <1>9, <3>1, <3>3
  <2> QED BY Zenon, <2>1 DEF StacksKept
<1>11. WordsKept(mem, mem')
  <2>1. ASSUME NEW w \in Words PROVE mem'[w] = mem[w] /\ mem'[w + 1] = mem[w + 1]
    <3>1. w \in Addresses /\ w + 1 \in Addresses
      BY Zenon, WordAddresses
    <3>2. w \notin Stack(t) /\ w + 1 \notin Stack(t)
      BY Zenon, <1>2, Disjoint
    <3> QED BY Zenon, <1>9, <3>1, <3>2
  <2> QED BY Zenon, <2>1 DEF WordsKept, WordKept
<1>12. mem'[TIMSK1] = mem[TIMSK1]
  BY Zenon, <1>2, <1>9, TimerAddresses, Disjoint DEF Ports
<1>13. LeftKept(left, left', t, Top(t))
  <2>1. ASSUME NEW a \in DOMAIN left, Owner(a) = t => a > Top(t) PROVE a \in DOMAIN left' /\ left'[a] = left[a]
    <3>1. a \in Int
      BY Zenon DEF LeftType
    <3>2. Owner(a) = t => ~(a > Top(t))
      BY SMT, <1>2, <3>1, TopIs DEF Owner
    <3> QED BY Zenon, <1>4, <2>1, <3>2
  <2> QED BY Zenon, <2>1 DEF LeftKept
<1>14. Kept(mem, mem', left, left', t, Top(t))
  BY Zenon, <1>10, <1>13 DEF Kept
<1>15. active' = t /\ ocf' = ocf /\ task_sp_adr' = task_sp_adr
  BY Zenon, <1>2, <1>4 DEF kernel
<1>16. InterruptsOn => InterruptsOn'
  <2>1. sreg >= 128 => sreg' >= 128
    BY SMT, <1>1, <1>3, <1>6 DEF Byte
  <2> QED BY Zenon, <1>12, <2>1 DEF InterruptsOn, IFlag, Mt
<1>17. WordKept(mem, mem', scheduler_task_sp) /\ WordKept(mem, mem', next_task_sp)
  BY Zenon, <1>11, WordsUnlike DEF WordsKept
<1>18. TaskWorld(mem, left, task_sp_adr, t) => TaskWorld(mem, left, task_sp_adr, t)'
  BY Zenon, <1>2, <1>5, <1>14, <1>15, <1>17, TaskWorldKept
<1>19. FirstWorld(mem, task_sp_adr, t) => FirstWorld(mem, task_sp_adr, t)'
  BY Zenon, <1>15, <1>17, FirstWorldKept
<1>20. TaskState(t)'
  BY Zenon, <1>1, <1>2, <1>15, <1>16, <1>18, <1>19 DEF TaskState
<1> QED BY Zenon, <1>7, <1>8, <1>15, <1>20 DEF InTask

\* The compare match while a task runs.
LEMMA TaskMatches ==
    ASSUME TypeInv, InTask, TimerMatch
    PROVE  InTask'
<1>1. TaskState(active) /\ WordIn(mem, scheduler_task_sp) # 0
  BY Zenon DEF InTask, TimerMatch, Word, WordIn
<1>2. TaskWorld(mem, left, task_sp_adr, active) /\ InterruptsOn
  BY Zenon, <1>1, TaskStateIs DEF TaskState
<1>3. UNCHANGED <<R, sreg, SP, pc, mem, kernel, left>>
  BY Zenon DEF TimerMatch
<1>4. TaskWorld(mem, left, task_sp_adr, active)' /\ InterruptsOn' /\ active' = active
  BY Zenon, <1>2, <1>3 DEF kernel, InterruptsOn, IFlag, Mt
<1> QED BY Zenon, <1>3, <1>4 DEF InTask, TaskState

\* The first instruction of k_yield and of spawn_task, cli.
LEMMA CallStarts ==
    ASSUME TypeInv, InCall, Execute
    PROVE  /\ ocf' = FALSE
           /\ \/ \E t \in Owners : \E sp \in Contexts(t) : Saving(YieldSave, t, sp)'
              \/ \E e \in (Top(Idle) - MaxDepth - 3)..(Top(Idle) - 3) : SpawnEnters(e)'
<1>1. TaskState(active) /\ SP \in Int /\ RetDirect(mem, active, SP) /\ sreg \in Byte
  BY Zenon, SpIsInt DEF InCall, TypeInv, MachineType
<1>2. PICK t \in Tasks : t = active /\ t \in Owners /\ t # Scheduler
  BY Zenon, <1>1, TaskStateIs, TasksAre
<1>3. pc = YieldAt \/ pc = SpawnAt
  BY Zenon DEF InCall
<1>4. ocf = FALSE
  <2>1. SUFFICES ASSUME InterruptsOn PROVE ocf = FALSE
    BY Zenon, <1>1 DEF TaskState
  <2>2. ~Stopped
    BY Zenon DEF Execute
  <2>3. ~(pc - 1 \in DOMAIN Code /\ Code[pc - 1][1] = "sei")
    BY Zenon, <1>3, BeforeEntry
  <2>4. ~ocf /\ ocf \in BOOLEAN
    BY Zenon, <2>1, <2>2, <2>3 DEF Execute, Irq, InterruptsOn, TypeInv, KernelType
  <2> QED BY Zenon, <2>4
<1>5. At(pc, <<"cli">>)
  BY Zenon, <1>3, SiteCode, SpawnCode
<1>6. /\ sreg' = sreg % 128
      /\ pc' = pc + 1 /\ SP' = SP /\ mem' = mem /\ R' = R /\ Others /\ left' = left
  BY Zenon, <1>5, CliStep
<1>7. sreg' < 128 /\ ocf' = FALSE /\ active' = t /\ task_sp_adr' = task_sp_adr
  <2>1. sreg' < 128
    BY SMT, <1>1, <1>6 DEF Byte
  <2> QED BY Zenon, <1>2, <1>4, <1>6, <2>1 DEF Others
<1>8. SP + 3 \in (Top(t) - MaxDepth)..Top(t) /\ RetDirect(mem, t, SP)
  BY Zenon, <1>1, <1>2 DEF RetDirect
<1>9. CASE pc = YieldAt
  <2>1. TaskWorld(mem, left, task_sp_adr, t)
    <3>1. YieldAt # SpawnAt
      BY SMT, Layout DEF Apart
    <3> QED BY Zenon, <1>2, <1>9, <3>1 DEF InCall
  <2>2. PICK sp \in Contexts(t) : sp = SP - 33
    BY Zenon, <1>1, <1>2, <1>8, TaskSp
  <2>3. sp + 33 = SP
    BY SMT, <1>1, <2>2
  <2>4. RetPoint(mem', t, sp + 33)
    BY Zenon, <1>2, <1>6, <1>8, <2>3 DEF RetPoint
  <2>5. SaveWorld(YieldSave, t, sp, mem, left, task_sp_adr, active)'
    <3>1. TaskWorld(mem, left, task_sp_adr, t)'
      BY Zenon, <1>6, <1>7, <2>1
    <3> QED BY Zenon, <1>7, <3>1 DEF SaveWorld, SwitchAt
  <2>6. Site(YieldSave, t, sp, mem, left, task_sp_adr, active)'
    BY Zenon, <1>2, <2>4, <2>5 DEF Site, Sites
  <2>7. pc' = YieldSave /\ SP' = sp + 33
    BY Zenon, <1>6, <1>9, <2>3 DEF YieldSave
  <2> QED BY Zenon, <1>2, <1>7, <2>6, <2>7, SavingStarts
<1>10. CASE pc = SpawnAt
  <2>1. t = Idle
    <3>1. YieldAt # SpawnAt
      BY SMT, Layout DEF Apart
    <3> QED BY Zenon, <1>2, <1>10, <3>1 DEF InCall
  <2>2. PICK e \in (Top(Idle) - MaxDepth - 3)..(Top(Idle) - 3) : e = SP
    <3>1. Top(Idle) \in Int
      BY Zenon, IdlePlaces
    <3>2. SP \in (Top(Idle) - MaxDepth - 3)..(Top(Idle) - 3)
      BY SMT, <1>1, <1>8, <2>1, <3>1 DEF MaxDepth
    <3> QED BY Zenon, <3>2
  <2>3. TaskWorld(mem, left, task_sp_adr, Idle)' \/ FirstWorld(mem, task_sp_adr, Idle)'
    BY Zenon, <1>1, <1>2, <1>6, <1>7, <2>1 DEF TaskState
  <2>4. pc' \in (SpawnAt + 1)..(SpawnAt + 6) /\ SpInSetMt(SpawnAt + 1, e)'
    BY SMT, <1>6, <1>10, <2>2, SpawnCode DEF SpInSetMt
  <2>5. RetDirect(mem', Idle, e)
    BY Zenon, <1>6, <1>8, <2>1, <2>2
  <2>6. SpawnEnters(e)'
    BY Zenon, <1>7, <2>1, <2>3, <2>4, <2>5 DEF SpawnEnters
  <2> QED BY Zenon, <1>7, <2>6
<1> QED BY Zenon, <1>3, <1>9, <1>10

-----------------------------------------------------------------------------
(* The inductive invariant *)
\* The contexts that are kept lie at addresses.
LEMMA LeftTypeStep ==
    ASSUME TypeInv, LeftType, [Next]_vars
    PROVE  LeftType'
<1>1. SP \in Int
  BY Zenon, SpIsInt
<1>2. CASE Execute
  <2>1. CASE left' = left
    BY Zenon, <2>1 DEF LeftType
  <2>2. CASE left' = WithSaved
    <3>1. SP - register_bytes \in Int
      BY SMT, <1>1 DEF register_bytes
    <3>2. \A a \in DOMAIN WithSaved : a \in DOMAIN left \/ a = SP - register_bytes
      BY Zenon DEF WithSaved
    <3>3. \A a \in DOMAIN WithSaved : a \in Int
      BY Zenon, <3>1, <3>2 DEF LeftType
    <3> QED BY Zenon, <2>2, <3>3 DEF LeftType
  <2> QED BY Zenon, <1>2, <2>1, <2>2 DEF Execute
<1>3. CASE Compute
  <2>1. \A a \in DOMAIN left' : a \in DOMAIN left
    BY Zenon, <1>3 DEF Compute
  <2> QED BY Zenon, <2>1 DEF LeftType
<1>4. CASE Yield \/ Spawn \/ TimerISR \/ TimerMatch \/ halt_exec \/ UNCHANGED vars
  <2>1. left' = left
    BY Zenon, <1>4 DEF Yield, Spawn, Call, TimerISR, TimerMatch, halt_exec, vars
  <2> QED BY Zenon, <2>1 DEF LeftType
<1> QED BY Zenon, <1>2, <1>3, <1>4 DEF Next

\* Where each phase of the kernel's code is.
LEMMA WhereSpawning == ASSUME Spawning PROVE pc \in SpawnAt..(SpawnAt + 77)
<1>1. SpawnAt \in Int
  BY Zenon, SpawnCode
<1>2. CASE \E e \in (Top(Idle) - MaxDepth - 3)..(Top(Idle) - 3) : SpawnEnters(e)
  <2>1. pc \in (SpawnAt + 1)..(SpawnAt + 6)
    BY Zenon, <1>2 DEF SpawnEnters
  <2> QED BY SMT, <1>1, <2>1
<1>3. CASE \E e \in (Top(Idle) - MaxDepth - 6)..(Top(Idle) - 6) : SpawnReturnPoint(e)
  <2>1. pc \in ((SpawnAt + 7)..(SpawnAt + 7 + 12)) \cup {SpawnAt + 7 + 14}
    BY Zenon, <1>3 DEF SpawnReturnPoint, Returning
  <2> QED BY SMT, <1>1, <2>1
<1>4. CASE \E sp \in Contexts(Idle) : Adopting(sp)
  <2>1. pc = SpawnAt + 63
    BY Zenon, <1>4 DEF Adopting
  <2> QED BY SMT, <1>1, <2>1
<1>5. CASE Starting
  <2>1. pc \in (SpawnAt + 64)..(SpawnAt + 64 + 5) \/ pc \in (SpawnAt + 70)..(SpawnAt + 70 + 5) \/ pc = SpawnAt + 76
    BY Zenon, <1>5 DEF Starting, SettingSp, Enabling
  <2> QED BY SMT, <1>1, <2>1
<1>6. CASE SpawnReturns
  <2>1. pc = SpawnAt + 20 \/ pc = SpawnAt + 77
    BY Zenon, <1>6 DEF SpawnReturns, SpawnJmp
  <2> QED BY SMT, <1>1, <2>1
<1> QED BY Zenon, <1>2, <1>3, <1>4, <1>5, <1>6 DEF Spawning

LEMMA WhereScheduling == ASSUME Scheduling PROVE pc \in StartAt..(StartAt + 77) \/ pc = YieldAt
<1>1. StartAt \in Int
  BY Zenon, StartCode
<1>2. CASE Booting
  <2>1. pc \in StartAt..(StartAt + 4)
    BY Zenon, <1>2 DEF Booting
  <2> QED BY SMT, <1>1, <2>1
<1>3. CASE StartReturnPoint
  <2>1. pc \in ((StartAt + 5)..(StartAt + 5 + 12)) \cup {StartAt + 5 + 14}
    BY Zenon, <1>3 DEF StartReturnPoint, Returning
  <2> QED BY SMT, <1>1, <2>1
<1>4. CASE Chosen
  <2>1. pc = StartAt + 76
    BY Zenon, <1>4 DEF Chosen
  <2> QED BY SMT, <1>1, <2>1
<1>5. CASE \E sp \in {scheduler_sp, Top(Scheduler)} : InPass(sp)
  <2>1. \/ pc \in {StartAt + 67, StartAt + 69} \cup (StartAt + 70)..(StartAt + 75)
        \/ pc \in {StartAt + 18, StartAt + 68, StartAt + 77}
    BY Zenon, <1>5 DEF InPass, StartJmp
  <2> QED BY SMT, <1>1, <2>1
<1>6. CASE \E sp \in Contexts(Scheduler) : SchedulerCalls(sp)
  BY Zenon, <1>6 DEF SchedulerCalls
<1> QED BY Zenon, <1>2, <1>3, <1>4, <1>5, <1>6 DEF Scheduling

LEMMA WhereLeaving ==
    ASSUME NEW b \in Sites, NEW o, NEW sp, Leaving(b, o, sp)
    PROVE  /\ pc \in b..(b + 68)
           /\ b = SpawnSave => pc \in b..(b + 40)
           /\ b = StartSave => pc \in b..(b + 46)
<1>1. b \in Int
  BY Zenon, SiteRuns
<1>2. b \in SwitchAt => b # SpawnSave /\ b # StartSave
  BY Zenon, SitesAre DEF SwitchAt
<1>3. CASE Saving(b, o, sp)
  <2>1. pc \in b..(b + 34)
    BY Zenon, <1>3 DEF Saving
  <2> QED BY SMT, <1>1, <2>1
<1>4. CASE StoringTaskSp(b, o, sp)
  <2>1. pc \in (b + 35)..(b + 35 + 5)
    BY Zenon, <1>4 DEF StoringTaskSp, StoringSp
  <2> QED BY SMT, <1>1, <2>1
<1>5. CASE StoringOther(b, o, sp)
  <2>1. pc \in (b + 41)..(b + 41 + 5) /\ b # SpawnSave
    BY Zenon, <1>5 DEF StoringOther, StoringSp
  <2> QED BY SMT, <1>1, <2>1
<1>6. CASE Disabling(b, o, sp)
  <2>1. pc \in (b + 47)..(b + 51) /\ b # SpawnSave /\ b # StartSave
    BY Zenon, <1>2, <1>6 DEF Disabling, Left
  <2> QED BY SMT, <1>1, <2>1
<1>7. CASE Selecting(b, o, sp)
  <2>1. pc \in (b + 52)..(b + 68) /\ b # SpawnSave /\ b # StartSave
    BY Zenon, <1>2, <1>7 DEF Selecting, Left
  <2> QED BY SMT, <1>1, <2>1
<1> QED BY Zenon, <1>3, <1>4, <1>5, <1>6, <1>7 DEF Leaving

LEMMA WhereGoingOn ==
    ASSUME NEW b \in SwitchAt, NEW o, NEW sp, GoingOn(b, o, sp)
    PROVE  pc \in (b + 69)..(b + 117) \/ pc = YieldAt + 119
<1>1. b \in Int /\ YieldAt \in Int /\ YieldSave + 118 = YieldAt + 119
  BY SMT, SwitchIs, Layout DEF YieldSave
<1>2. CASE Clearing(b, o, sp)
  <2>1. pc = b + 69
    BY Zenon, <1>2 DEF Clearing
  <2> QED BY SMT, <1>1, <2>1
<1>3. CASE Restoring(b, o, sp)
  <2>1. pc \in (b + 70)..(b + 71) \/ pc \in (b + 72)..(b + 72 + 5)
    BY Zenon, <1>3 DEF Restoring, LoadingSp
  <2> QED BY SMT, <1>1, <2>1
<1>4. CASE Popping(b, o, sp)
  <2>1. pc \in (b + 78)..(b + 111)
    BY Zenon, <1>4 DEF Popping
  <2> QED BY SMT, <1>1, <2>1
<1>5. CASE Finishing(b, o, sp)
  <2>1. pc \in (b + 112)..(b + 116)
    BY Zenon, <1>5 DEF Finishing
  <2> QED BY SMT, <1>1, <2>1
<1>6. CASE Resuming(b, o, sp)
  <2>1. pc = b + 117 \/ (b = YieldSave /\ pc = b + 118)
    BY Zenon, <1>6 DEF Resuming
  <2> QED BY SMT, <1>1, <2>1
<1> QED BY Zenon, <1>2, <1>3, <1>4, <1>5, <1>6 DEF GoingOn

\* All of it is code.
LEMMA KernelPc == ASSUME InKernel PROVE pc \in DOMAIN Code
<1>1. /\ \A a \in SpawnAt..(SpawnAt + 77) : a \in DOMAIN Code
      /\ \A a \in StartAt..(StartAt + 77) : a \in DOMAIN Code
      /\ \A a \in YieldAt..(YieldAt + 119) : a \in DOMAIN Code
      /\ \A a \in TimerAt..(TimerAt + 117) : a \in DOMAIN Code
  BY Zenon, CodeIs
<1>2. SpawnAt \in Int /\ StartAt \in Int /\ YieldAt \in Int /\ TimerAt \in Int
  BY SMT, Layout
<1>3. CASE Spawning
  BY Zenon, <1>1, <1>3, WhereSpawning
<1>4. CASE Scheduling
  <2>1. YieldAt \in YieldAt..(YieldAt + 119)
    BY SMT, <1>2
  <2> QED BY Zenon, <1>1, <1>4, <2>1, WhereScheduling
<1>5. ASSUME NEW b \in Sites, NEW o \in Owners, NEW sp \in Contexts(o), Leaving(b, o, sp) PROVE pc \in DOMAIN Code
  <2>1. /\ pc \in b..(b + 68) /\ (b = SpawnSave => pc \in b..(b + 40)) /\ (b = StartSave => pc \in b..(b + 46))
        /\ b \in {SpawnSave, StartSave, YieldSave, TimerAt}
    BY Zenon, <1>5, WhereLeaving DEF Sites
  <2>2. \/ pc \in SpawnAt..(SpawnAt + 77) \/ pc \in StartAt..(StartAt + 77) \/ pc \in YieldAt..(YieldAt + 119)
        \/ pc \in TimerAt..(TimerAt + 117)
    BY SMT, <1>2, <2>1 DEF SpawnSave, StartSave, YieldSave
  <2> QED BY SMT, <1>1, <2>2
<1>6. ASSUME NEW b \in SwitchAt, NEW o \in Owners, NEW sp \in Contexts(o), GoingOn(b, o, sp) PROVE pc \in DOMAIN Code
  <2>1. (pc \in (b + 69)..(b + 117) \/ pc = YieldAt + 119) /\ b \in {YieldSave, TimerAt}
    BY Zenon, <1>6, WhereGoingOn DEF SwitchAt
  <2>2. pc \in YieldAt..(YieldAt + 119) \/ pc \in TimerAt..(TimerAt + 117)
    BY SMT, <1>2, <2>1 DEF YieldSave
  <2> QED BY SMT, <1>1, <2>2
<1> QED BY Zenon, <1>3, <1>4, <1>5, <1>6 DEF InKernel

\* Where a step of the kernel's code may lead.
Arrived == pc = Malformed \/ InTask \/ InCall \/ InKernel
\* A switch on its way, and what it leads to.
LEMMA Leaves ==
    ASSUME NEW b \in Sites, NEW o \in Owners, NEW sp \in Contexts(o),
           Saving(b, o, sp)' \/ StoringTaskSp(b, o, sp)' \/ StoringOther(b, o, sp)'
              \/ Disabling(b, o, sp)' \/ Selecting(b, o, sp)'
    PROVE  InKernel'
<1>1. Leaving(b, o, sp)'
  BY Zenon DEF Leaving
<1> QED BY Zenon, <1>1 DEF InKernel

LEMMA GoesOn ==
    ASSUME NEW b \in SwitchAt, NEW o \in Owners, NEW sp \in Contexts(o),
           Clearing(b, o, sp)' \/ Restoring(b, o, sp)' \/ Popping(b, o, sp)'
              \/ Finishing(b, o, sp)' \/ Resuming(b, o, sp)'
    PROVE  InKernel'
<1>1. GoingOn(b, o, sp)'
  BY Zenon DEF GoingOn
<1> QED BY Zenon, <1>1 DEF InKernel

LEMMA SomeSites ==
    /\ SpawnSave \in Sites /\ StartSave \in Sites /\ YieldSave \in Sites /\ TimerAt \in Sites
    /\ YieldSave \in SwitchAt /\ TimerAt \in SwitchAt
    /\ Idle \in Owners /\ Scheduler \in Owners /\ scheduler_sp \in Contexts(Scheduler)
BY Zenon, IdlePlaces, SchedulerPlaces DEF Sites, SwitchAt

\* Every step of a phase leads to a phase.
LEMMA SpawningStep ==
    ASSUME TypeInv, Execute, Spawning
    PROVE  ocf' = ocf /\ Arrived'
<1>1. ASSUME NEW e \in (Top(Idle) - MaxDepth - 3)..(Top(Idle) - 3), SpawnEnters(e) PROVE ocf' = ocf /\ Spawning'
  <2>1. ocf' = ocf
    BY Zenon, <1>1, SpawnEntersStep
  <2>2. SpawnEnters(e)' \/ \E f \in (Top(Idle) - MaxDepth - 6)..(Top(Idle) - 6) : SpawnReturnPoint(f)'
    BY Zenon, <1>1, SpawnEntersStep
  <2> QED BY Zenon, <2>1, <2>2 DEF Spawning
<1>2. ASSUME NEW e \in (Top(Idle) - MaxDepth - 6)..(Top(Idle) - 6), SpawnReturnPoint(e) PROVE ocf' = ocf /\ InKernel'
  <2>1. ocf' = ocf
    BY Zenon, <1>2, SpawnReturnPointStep
  <2>2. SpawnReturnPoint(e)' \/ \E sp \in Contexts(Idle) : Saving(SpawnSave, Idle, sp)'
    BY Zenon, <1>2, SpawnReturnPointStep
  <2>3. CASE SpawnReturnPoint(e)'
    BY Zenon, <2>1, <2>3 DEF Spawning, InKernel
  <2>4. CASE \E sp \in Contexts(Idle) : Saving(SpawnSave, Idle, sp)'
    BY Zenon, <2>1, <2>4, Leaves, SomeSites
  <2> QED BY Zenon, <2>1, <2>2, <2>3, <2>4
<1>3. ASSUME NEW sp \in Contexts(Idle), Adopting(sp) PROVE ocf' = ocf /\ Spawning'
  BY Zenon, <1>3, AdoptingStep DEF Spawning
<1>4. CASE Starting
  BY Zenon, <1>4, StartingStep DEF Arrived, InKernel, Spawning, Scheduling
<1>5. CASE SpawnReturns
  BY Zenon, <1>5, SpawnReturnsStep DEF Arrived, InKernel, Spawning
<1>6. Spawning' => Arrived'
  BY Zenon DEF Arrived, InKernel
<1>7. InKernel' => Arrived'
  BY Zenon DEF Arrived
<1> QED BY Zenon, <1>1, <1>2, <1>3, <1>4, <1>5, <1>6, <1>7 DEF Spawning

LEMMA SchedulingStep ==
    ASSUME TypeInv, Execute, Scheduling
    PROVE  ocf' = ocf /\ Arrived'
<1>1. Scheduling' => InKernel'
  BY Zenon DEF InKernel
<1>2. InKernel' => Arrived'
  BY Zenon DEF Arrived
<1>3. CASE Booting
  BY Zenon, <1>1, <1>2, <1>3, BootingStep DEF Scheduling, Others
<1>4. CASE StartReturnPoint
  <2>1. CASE StartReturnPoint'
    BY Zenon, <1>1, <1>2, <1>4, <2>1, StartReturnPointStep DEF Scheduling, Others
  <2>2. CASE Saving(StartSave, Scheduler, scheduler_sp)'
    BY Zenon, <1>2, <1>4, <2>2, StartReturnPointStep, Leaves, SomeSites DEF Others
  <2> QED BY Zenon, <1>4, <2>1, <2>2, StartReturnPointStep
<1>5. CASE Chosen
  <2>1. Others /\ \E sp \in Contexts(Scheduler) : SchedulerCalls(sp)'
    BY Zenon, <1>5, ChosenStep
  <2> QED BY Zenon, <1>1, <1>2, <2>1 DEF Scheduling, Others
<1>6. ASSUME NEW sp \in {scheduler_sp, Top(Scheduler)}, InPass(sp) PROVE ocf' = ocf /\ Arrived'
  <2>1. ocf' = ocf /\ (pc' = Malformed \/ Chosen' \/ InPass(sp)')
    BY Zenon, <1>6, InPassStep
  <2>2. pc' = Malformed => Arrived'
    BY Zenon DEF Arrived
  <2>3. Chosen' => Scheduling'
    BY Zenon DEF Scheduling
  <2>4. InPass(sp)' => Scheduling'
    BY Zenon DEF Scheduling
  <2> QED BY Zenon, <1>1, <1>2, <2>1, <2>2, <2>3, <2>4
<1>7. ASSUME NEW sp \in Contexts(Scheduler), SchedulerCalls(sp) PROVE ocf' = ocf /\ Arrived'
  BY Zenon, <1>2, <1>7, SchedulerCallsStep, Leaves, SomeSites DEF Others
<1> QED BY Zenon, <1>3, <1>4, <1>5, <1>6, <1>7 DEF Scheduling

\* Who is left at spawn_task and at start_scheduler.
LEMMA SavedWho ==
    ASSUME NEW b, NEW o, NEW sp, Saved(b, o, sp)
    PROVE  b = SpawnSave => o = Idle
<1>1. SaveWorld(b, o, sp, mem, left, task_sp_adr, active)
  BY Zenon, SavedIs
<1>2. SpawnSave # StartSave /\ SpawnSave # YieldSave /\ SpawnSave \notin SwitchAt
  BY Zenon, SitesAre DEF SwitchAt
<1> QED BY Zenon, <1>1, <1>2 DEF SaveWorld

LEMMA LeavingStep ==
    ASSUME TypeInv, LeftType, Execute, NEW b \in Sites, NEW o \in Owners, NEW sp \in Contexts(o), Leaving(b, o, sp)
    PROVE  Others /\ InKernel'
<1>1. CASE Saving(b, o, sp)
  BY Zenon, <1>1, SavingStep, Leaves
<1>2. CASE StoringTaskSp(b, o, sp)
  <2>1. /\ Others
        /\ IF pc = b + 40 THEN IF b = SpawnSave THEN Adopting(sp)' ELSE StoringOther(b, o, sp)'
                          ELSE StoringTaskSp(b, o, sp)'
    BY Zenon, <1>2, StoringTaskSpStep
  <2>2. CASE b = SpawnSave /\ Adopting(sp)'
    <3>1. sp \in Contexts(Idle)
      BY Zenon, <1>2, <2>2, SavedWho DEF StoringTaskSp
    <3> QED BY Zenon, <2>1, <2>2, <3>1 DEF InKernel, Spawning
  <2>3. CASE StoringOther(b, o, sp)' \/ StoringTaskSp(b, o, sp)'
    BY Zenon, <2>1, <2>3, Leaves
  <2> QED BY Zenon, <2>1, <2>2, <2>3
<1>3. CASE StoringOther(b, o, sp)
  <2>1. /\ Others
        /\ IF pc = b + 46 THEN IF b = StartSave THEN sp = scheduler_sp /\ InPass(sp)' ELSE Disabling(b, o, sp)'
                          ELSE StoringOther(b, o, sp)'
    BY Zenon, <1>3, StoringOtherStep
  <2>2. CASE sp = scheduler_sp /\ InPass(sp)'
    BY Zenon, <2>1, <2>2 DEF InKernel, Scheduling
  <2>3. CASE Disabling(b, o, sp)' \/ StoringOther(b, o, sp)'
    BY Zenon, <2>1, <2>3, Leaves
  <2> QED BY Zenon, <2>1, <2>2, <2>3
<1>4. CASE Disabling(b, o, sp)
  BY Zenon, <1>4, DisablingStep, Leaves
<1>5. CASE Selecting(b, o, sp)
  <2>1. Others /\ (Selecting(b, o, sp)' \/ \E p \in Owners : \E q \in Contexts(p) : Clearing(b, p, q)')
    BY Zenon, <1>5, SelectingStep
  <2>2. b \in SwitchAt
    BY Zenon, <1>5 DEF Selecting, Left
  <2>3. CASE Selecting(b, o, sp)'
    BY Zenon, <2>1, <2>3, Leaves
  <2>4. CASE \E p \in Owners : \E q \in Contexts(p) : Clearing(b, p, q)'
    BY Zenon, <2>1, <2>2, <2>4, GoesOn
  <2> QED BY Zenon, <2>1, <2>3, <2>4
<1> QED BY Zenon, <1>1, <1>2, <1>3, <1>4, <1>5 DEF Leaving

LEMMA GoingOnStep ==
    ASSUME TypeInv, Execute, NEW b \in SwitchAt, NEW o \in Owners, NEW sp \in Contexts(o), GoingOn(b, o, sp)
    PROVE  Others /\ Arrived'
<1>1. InKernel' => Arrived'
  BY Zenon DEF Arrived
<1>2. CASE Clearing(b, o, sp)
  BY Zenon, <1>1, <1>2, ClearingStep, GoesOn
<1>3. CASE Restoring(b, o, sp)
  BY Zenon, <1>1, <1>3, RestoringStep, GoesOn
<1>4. CASE Popping(b, o, sp)
  BY Zenon, <1>1, <1>4, PoppingStep, GoesOn
<1>5. CASE Finishing(b, o, sp)
  BY Zenon, <1>1, <1>5, FinishingStep, GoesOn
<1>6. CASE Resuming(b, o, sp)
  <2>1. Others /\ (Resuming(b, o, sp)' \/ InTask' \/ InCall' \/ SpawnReturns' \/ InPass(Top(Scheduler))')
    BY Zenon, <1>6, ResumingStep
  <2>2. CASE Resuming(b, o, sp)'
    BY Zenon, <1>1, <2>1, <2>2, GoesOn
  <2>3. CASE InTask' \/ InCall'
    BY Zenon, <2>1, <2>3 DEF Arrived
  <2>4. CASE SpawnReturns'
    BY Zenon, <1>1, <2>1, <2>4 DEF InKernel, Spawning
  <2>5. CASE InPass(Top(Scheduler))'
    BY Zenon, <1>1, <2>1, <2>5 DEF InKernel, Scheduling
  <2> QED BY Zenon, <2>1, <2>2, <2>3, <2>4, <2>5
<1> QED BY Zenon, <1>2, <1>3, <1>4, <1>5, <1>6 DEF GoingOn

\* So does every instruction of the kernel.
LEMMA KernelStep ==
    ASSUME TypeInv, LeftType, Execute, InKernel
    PROVE  ocf' = ocf /\ Arrived'
<1>1. ASSUME NEW b \in Sites, NEW o \in Owners, NEW sp \in Contexts(o), Leaving(b, o, sp) PROVE ocf' = ocf /\ Arrived'
  BY Zenon, <1>1, LeavingStep DEF Arrived, Others
<1>2. ASSUME NEW b \in SwitchAt, NEW o \in Owners, NEW sp \in Contexts(o), GoingOn(b, o, sp) PROVE ocf' = ocf /\ Arrived'
  BY Zenon, <1>2, GoingOnStep DEF Others
<1> QED BY Zenon, <1>1, <1>2, SpawningStep, SchedulingStep DEF InKernel

\* A step that changes nothing leaves each phase.
LEMMA SameTask ==
    ASSUME UNCHANGED vars
    PROVE  /\ InTask => InTask'
           /\ InCall => InCall'
<1>1. R' = R /\ sreg' = sreg /\ SP' = SP /\ pc' = pc /\ mem' = mem /\ ocf' = ocf /\ active' = active
      /\ task_sp_adr' = task_sp_adr /\ left' = left
  BY Zenon DEF vars, machine, kernel
<1> QED BY Zenon, <1>1 DEF InTask, InCall, TaskState, InterruptsOn, IFlag, Mt

LEMMA SameSpawning == ASSUME UNCHANGED vars, Spawning PROVE Spawning'
<1>1. R' = R /\ sreg' = sreg /\ SP' = SP /\ pc' = pc /\ mem' = mem /\ active' = active
      /\ task_sp_adr' = task_sp_adr /\ left' = left
  BY Zenon DEF vars, machine, kernel
<1>2. ASSUME NEW b, NEW e, SpInSetMt(b, e) PROVE SpInSetMt(b, e)'
  BY Zenon, <1>1, <1>2 DEF SpInSetMt
<1>3. ASSUME NEW b, NEW o, NEW sp, Saved(b, o, sp) PROVE Saved(b, o, sp)'
  BY Zenon, <1>1, <1>3 DEF Saved, FlagLow
<1>4. CASE \E e \in (Top(Idle) - MaxDepth - 3)..(Top(Idle) - 3) : SpawnEnters(e)
  BY Zenon, <1>1, <1>2, <1>4 DEF Spawning, SpawnEnters
<1>5. CASE \E e \in (Top(Idle) - MaxDepth - 6)..(Top(Idle) - 6) : SpawnReturnPoint(e)
  BY SMT, <1>1, <1>5 DEF Spawning, SpawnReturnPoint, Returning
<1>6. CASE \E sp \in Contexts(Idle) : Adopting(sp)
  BY Zenon, <1>1, <1>3, <1>6 DEF Spawning, Adopting
<1>7. CASE Starting
  BY Zenon, <1>1, <1>2, <1>7 DEF Spawning, Starting, SettingSp, Enabling, InterruptsOn, IFlag, Mt
<1>8. CASE SpawnReturns
  BY Zenon, <1>1, <1>8 DEF Spawning, SpawnReturns, InterruptsOn, IFlag, Mt
<1> QED BY Zenon, <1>4, <1>5, <1>6, <1>7, <1>8 DEF Spawning

LEMMA SameScheduling == ASSUME UNCHANGED vars, Scheduling PROVE Scheduling'
<1>1. R' = R /\ sreg' = sreg /\ SP' = SP /\ pc' = pc /\ mem' = mem /\ active' = active
      /\ task_sp_adr' = task_sp_adr /\ left' = left
  BY Zenon DEF vars, machine, kernel
<1>2. ASSUME NEW b, NEW e, SpInSetMt(b, e) PROVE SpInSetMt(b, e)'
  BY Zenon, <1>1, <1>2 DEF SpInSetMt
<1>3. CASE Booting
  BY Zenon, <1>1, <1>2, <1>3 DEF Scheduling, Booting
<1>4. CASE StartReturnPoint
  BY SMT, <1>1, <1>4 DEF Scheduling, StartReturnPoint, Returning
<1>5. CASE Chosen
  BY Zenon, <1>1, <1>5 DEF Scheduling, Chosen
<1>6. CASE \E sp \in {scheduler_sp, Top(Scheduler)} : InPass(sp)
  BY Zenon, <1>1, <1>2, <1>6 DEF Scheduling, InPass
<1>7. CASE \E sp \in Contexts(Scheduler) : SchedulerCalls(sp)
  BY Zenon, <1>1, <1>7 DEF Scheduling, SchedulerCalls
<1> QED BY Zenon, <1>3, <1>4, <1>5, <1>6, <1>7 DEF Scheduling

LEMMA SameLeaving ==
    ASSUME UNCHANGED vars, NEW b, NEW o, NEW sp, Leaving(b, o, sp)
    PROVE  Leaving(b, o, sp)'
<1>1. R' = R /\ sreg' = sreg /\ SP' = SP /\ pc' = pc /\ mem' = mem /\ active' = active
      /\ task_sp_adr' = task_sp_adr /\ left' = left
  BY Zenon DEF vars, machine, kernel
<1>2. ASSUME NEW e, SpInSetMt(b + 47, e) PROVE SpInSetMt(b + 47, e)'
  BY Zenon, <1>1, <1>2 DEF SpInSetMt
<1>3. ASSUME NEW d, NEW adr, StoringSp(d, adr, sp) PROVE StoringSp(d, adr, sp)'
  BY Zenon, <1>1, <1>3 DEF StoringSp
<1>4. Saved(b, o, sp) => Saved(b, o, sp)'
  BY Zenon, <1>1 DEF Saved, FlagLow
<1>5. Left(b, o, sp) => Left(b, o, sp)'
  BY Zenon, <1>1, <1>4 DEF Left
<1>6. CASE Saving(b, o, sp)
  <2>1. SavingSp(b, sp) => SavingSp(b, sp)'
    BY Zenon, <1>1 DEF SavingSp
  <2>2. InFrame(b, sp) => InFrame(b, sp)'
    BY Zenon, <1>1 DEF InFrame
  <2> QED BY Zenon, <1>1, <1>6, <2>1, <2>2 DEF Leaving, Saving, FlagLow
<1>7. CASE StoringTaskSp(b, o, sp)
  BY Zenon, <1>3, <1>4, <1>7 DEF Leaving, StoringTaskSp
<1>8. CASE StoringOther(b, o, sp)
  BY Zenon, <1>3, <1>4, <1>8 DEF Leaving, StoringOther
<1>9. CASE Disabling(b, o, sp)
  BY Zenon, <1>1, <1>2, <1>5, <1>9 DEF Leaving, Disabling
<1>10. CASE Selecting(b, o, sp)
  <2>1. target(o) = target(o)'
    BY Zenon, <1>1 DEF target
  <2> QED BY SMT, <1>1, <1>5, <1>10, <2>1 DEF Leaving, Selecting
<1> QED BY Zenon, <1>6, <1>7, <1>8, <1>9, <1>10 DEF Leaving

LEMMA SameGoingOn ==
    ASSUME UNCHANGED vars, NEW b, NEW o, NEW sp, GoingOn(b, o, sp)
    PROVE  GoingOn(b, o, sp)'
<1>1. R' = R /\ sreg' = sreg /\ SP' = SP /\ pc' = pc /\ mem' = mem /\ active' = active
      /\ task_sp_adr' = task_sp_adr /\ left' = left
  BY Zenon DEF vars, machine, kernel
<1>2. Resumable(o, sp) => Resumable(o, sp)'
  BY Zenon, <1>1 DEF Resumable
<1>3. Popped(o, sp) => Popped(o, sp)'
  BY Zenon, <1>1 DEF Popped
<1>4. CASE Clearing(b, o, sp)
  BY Zenon, <1>1, <1>2, <1>4 DEF GoingOn, Clearing
<1>5. CASE Restoring(b, o, sp)
  BY Zenon, <1>1, <1>2, <1>5 DEF GoingOn, Restoring, LoadingSp
<1>6. CASE Popping(b, o, sp)
  BY Zenon, <1>1, <1>6 DEF GoingOn, Popping
<1>7. CASE Finishing(b, o, sp)
  <2>1. Enabling(b + 112, sp + 33) => Enabling(b + 112, sp + 33)'
    BY Zenon, <1>1 DEF Enabling, SpInSetMt, Mt
  <2> QED BY Zenon, <1>1, <1>3, <1>7, <2>1 DEF GoingOn, Finishing
<1>8. CASE Resuming(b, o, sp)
  BY Zenon, <1>1, <1>3, <1>8 DEF GoingOn, Resuming, Mt, IFlag
<1> QED BY Zenon, <1>4, <1>5, <1>6, <1>7, <1>8 DEF GoingOn

LEMMA SameKernel == ASSUME UNCHANGED vars, InKernel PROVE InKernel'
<1>1. ASSUME NEW b \in Sites, NEW o \in Owners, NEW sp \in Contexts(o), Leaving(b, o, sp) PROVE InKernel'
  BY Zenon, <1>1, SameLeaving DEF InKernel
<1>2. ASSUME NEW b \in SwitchAt, NEW o \in Owners, NEW sp \in Contexts(o), GoingOn(b, o, sp) PROVE InKernel'
  BY Zenon, <1>2, SameGoingOn DEF InKernel
<1>3. CASE Spawning \/ Scheduling
  BY Zenon, <1>3, SameSpawning, SameScheduling DEF InKernel
<1> QED BY Zenon, <1>1, <1>2, <1>3 DEF InKernel

\* Task code is at neither of the places where the kernel stops or is called.
LEMMA StoppedPcs == ASSUME pc \in AllTaskCode \/ pc \in DOMAIN Code PROVE ~Stopped
<1>1. pc > 0 /\ pc \in Int
  BY Zenon, TaskCodeApart
<1> QED BY SMT, <1>1 DEF Stopped, Lost, Malformed, BadSp

LEMMA EntryPcs == ASSUME InCall PROVE pc \in DOMAIN Code
BY Zenon, SiteCode, SpawnCode DEF InCall, At

LEMMA TaskPc == ASSUME InTask PROVE pc \in AllTaskCode /\ pc \notin DOMAIN Code /\ active \in Tasks
<1>1. active \in Tasks
  BY Zenon, TaskStateIs DEF InTask
<1> QED BY Zenon, <1>1, TaskCodeApart DEF InTask

LEMMA ArrivedIs == ASSUME ocf' = FALSE, Arrived' PROVE IInv'
BY Zenon DEF Arrived, IInv

\* Instructions keep the invariant,
LEMMA IInvExecute ==
    ASSUME TypeInv, LeftType, IInv, Execute
    PROVE  IInv'
<1>1. ~Stopped /\ pc \notin AllTaskCode
  BY Zenon DEF Execute
<1>2. CASE pc = Malformed
  BY Zenon, <1>1, <1>2 DEF Stopped
<1>3. CASE InTask
  BY Zenon, <1>1, <1>3, TaskPc
<1>4. CASE InCall
  <2>1. /\ ocf' = FALSE
        /\ \/ \E t \in Owners : \E sp \in Contexts(t) : Saving(YieldSave, t, sp)'
           \/ \E e \in (Top(Idle) - MaxDepth - 3)..(Top(Idle) - 3) : SpawnEnters(e)'
    BY Zenon, <1>4, CallStarts
  <2>2. CASE \E t \in Owners : \E sp \in Contexts(t) : Saving(YieldSave, t, sp)'
    <3>1. InKernel'
      BY Zenon, <2>2, Leaves, SomeSites
    <3> QED BY Zenon, <2>1, <3>1 DEF IInv
  <2>3. CASE \E e \in (Top(Idle) - MaxDepth - 3)..(Top(Idle) - 3) : SpawnEnters(e)'
    <3>1. InKernel'
      BY Zenon, <2>3 DEF InKernel, Spawning
    <3> QED BY Zenon, <2>1, <3>1 DEF IInv
  <2> QED BY Zenon, <2>1, <2>2, <2>3
<1>5. CASE ocf = FALSE /\ InKernel
  <2>1. ocf' = ocf /\ Arrived'
    BY Zenon, <1>5, KernelStep
  <2> QED BY Zenon, <1>5, <2>1, ArrivedIs
<1> QED BY Zenon, <1>2, <1>3, <1>4, <1>5 DEF IInv

\* Only a task computes, calls or is interrupted by a compare match.
LEMMA IInvTask ==
    ASSUME TypeInv, LeftType, IInv, Compute \/ Yield \/ Spawn \/ TimerMatch
    PROVE  IInv'
<1>1. pc \in AllTaskCode
  <2>1. CASE Compute \/ TimerMatch
    BY Zenon, <2>1 DEF Compute, TimerMatch
  <2>2. CASE Yield \/ Spawn
    <3>1. active # Scheduler /\ pc \in CallSites(active) /\ active \in Owners
      BY Zenon, <2>2 DEF Yield, Spawn, Call, TypeInv, KernelType
    <3>2. active \in Tasks
      BY Zenon, <3>1 DEF Owners, Tasks
    <3> QED BY Zenon, <3>1, <3>2, TaskCodeApart
  <2> QED BY Zenon, <2>1, <2>2
<1>2. pc \notin DOMAIN Code /\ ~Stopped
  BY Zenon, <1>1, TaskCodeApart, StoppedPcs
<1>3. InTask
  BY Zenon, <1>2, EntryPcs, KernelPc DEF IInv, Stopped
<1> QED BY Zenon, <1>3, TaskComputes, TaskMatches, TaskCalls DEF IInv

\* and so do interrupts,
LEMMA IInvInterrupt ==
    ASSUME TypeInv, LeftType, IInv, TimerISR
    PROVE  IInv'
<1>1. ocf /\ ~Stopped
  BY Zenon DEF TimerISR, Irq
<1>2. InTask \/ InCall
  BY Zenon, <1>1 DEF IInv, Stopped
<1>3. ocf' = FALSE /\ \E t \in Owners : \E sp \in Contexts(t) : Saving(TimerAt, t, sp)'
  BY Zenon, <1>2, TaskInterrupted
<1>4. InKernel'
  BY Zenon, <1>3, Leaves, SomeSites
<1> QED BY Zenon, <1>3, <1>4 DEF IInv

\* and steps that change nothing;
LEMMA IInvSame == ASSUME IInv, UNCHANGED vars PROVE IInv'
<1>1. pc' = pc /\ ocf' = ocf
  BY Zenon DEF vars, machine
<1> QED BY Zenon, <1>1, SameTask, SameKernel DEF IInv

\* so every step does.
LEMMA IInvNext ==
    ASSUME TypeInv, LeftType, IInv, [Next]_vars
    PROVE  IInv'
BY Zenon, IInvExecute, IInvTask, IInvInterrupt, IInvSame DEF Next, halt_exec

\* It holds at the start.
LEMMA IInvInit == ASSUME Init PROVE LeftType /\ IInv
<1>1. LeftType
  BY SMT DEF Init, LeftType
<1>2. /\ SP = Top(Idle) /\ pc = TaskAt(Idle) /\ active = Idle /\ ocf = FALSE
      /\ task_sp_adr = [o \in Owners |-> 0]
      /\ mem = [a \in Addresses |-> IF a \in {TCNT1L, TCNT1H} THEN 7 ELSE 0]
  BY Zenon DEF Init, Top
<1>4. pc \in TaskCode(Idle)
  <2>1. TaskAt(Idle) + 2 * 0 = TaskAt(Idle)
    BY SMT, Places DEF TaskAt
  <2>2. TaskAt(Idle) \in {TaskAt(Idle) + 2 * p : p \in Patterns \cup {0}}
    BY Zenon, <2>1
  <2> QED BY Zenon, <1>2, <2>2 DEF TaskCode, CallSites
<1>5. SP \in (Top(Idle) - MaxDepth)..Top(Idle)
  BY Zenon, <1>2, TopPlaces, IdlePlaces
<1>6. NotStarted(mem, task_sp_adr)
  <2>1. scheduler_task_sp \in Addresses /\ scheduler_task_sp + 1 \in Addresses
    BY Zenon, NextPlaces
  <2>2. scheduler_task_sp \notin {TCNT1L, TCNT1H} /\ scheduler_task_sp + 1 \notin {TCNT1L, TCNT1H}
    BY SMT DEF scheduler_task_sp, TCNT1L, TCNT1H
  <2>3. mem[scheduler_task_sp] = 0 /\ mem[scheduler_task_sp + 1] = 0
    BY Zenon, <1>2, <2>1, <2>2
  <2>4. WordIn(mem, scheduler_task_sp) = 0
    BY SMT, <2>3 DEF WordIn
  <2>5. \A t \in Tasks : task_sp_adr[t] = 0
    BY Zenon, <1>2 DEF Tasks, Owners
  <2> QED BY Zenon, <2>4, <2>5 DEF NotStarted
<1>7. InTask
  BY Zenon, <1>2, <1>4, <1>5, <1>6 DEF InTask, TaskState, FirstWorld
<1> QED BY Zenon, <1>1, <1>7 DEF IInv

\* The kernel's code is always in one of its phases, in a world that goes with it.
THEOREM Inductive == Spec => [](TypeInv /\ LeftType /\ IInv)
<1>1. Init => TypeInv /\ LeftType /\ IInv
  BY Zenon, TypeInit, IInvInit
<1>2. TypeInv /\ LeftType /\ IInv /\ [Next]_vars => (TypeInv /\ LeftType /\ IInv)'
  BY Zenon, TypeNext, LeftTypeStep, IInvNext
<1> QED BY <1>1, <1>2, PTL DEF Spec

\* What it says of NeverLost.
LEMMA IInvNeverLost == ASSUME IInv PROVE NeverLost
<1>1. CASE pc = Malformed
  BY SMT, <1>1 DEF NeverLost, Malformed, Lost, BadSp
<1>2. CASE pc # Malformed
  <2>1. pc \in AllTaskCode \/ pc \in DOMAIN Code
    BY Zenon, <1>2, TaskPc, EntryPcs, KernelPc DEF IInv
  <2> QED BY Zenon, <2>1, StoppedPcs DEF Stopped, NeverLost
<1> QED BY Zenon, <1>1, <1>2

\* The CPU never leaves the code and the tasks' stacks, and the scheduler is never handed a
\* stack pointer that is not the task's.
THEOREM NeverLostHolds == Spec => []NeverLost
<1>1. TypeInv /\ LeftType /\ IInv => NeverLost
  BY Zenon, IInvNeverLost
<1> QED BY <1>1, Inductive, PTL

-----------------------------------------------------------------------------
(* No interrupt within the switch *)
\* The code that must not be interrupted.
SwitchPcs == (YieldAt + 1)..(YieldAt + 117) \cup TimerAt..(TimerAt + 117)
LEMMA SwitchPcsAre ==
    (YieldAt + 1)..(YieldAt + Len(k_yield) - 3) \cup DOMAIN Placed(TimerAt, TIMER1_COMPA_vect) = SwitchPcs
<1>1. Len(k_yield) = 120 /\ Len(TIMER1_COMPA_vect) = 118
  BY Zenon, Lengths
<1>2. YieldAt + Len(k_yield) - 3 = YieldAt + 117 /\ TimerAt + Len(TIMER1_COMPA_vect) - 1 = TimerAt + 117
  BY SMT, <1>1, Places
<1>3. DOMAIN Placed(TimerAt, TIMER1_COMPA_vect) = TimerAt..(TimerAt + 117)
  BY Zenon, <1>2 DEF Placed
<1> QED BY Zenon, <1>2, <1>3 DEF SwitchPcs

\* The switch is on the stack of the scheduler when the context it resumes is the scheduler's.
Excused == Owner(SP) = Scheduler /\ left[Word(scheduler_task_sp)].sreg >= 128

\* The SREG that a resumed context brings.
LEMMA ResumedFlag ==
    ASSUME TypeInv, NEW o \in Owners, NEW sp \in Contexts(o), ResumeWorld(mem, left, task_sp_adr, active, o, sp),
           HoldsAbove(mem, left, o, sp), SP = sp + 32 \/ SP = sp + 33, sreg \div 32 = left[sp].sreg \div 32
    PROVE  sreg < 128 \/ Excused
<1>1. left[sp].sreg \in Byte /\ (o # Scheduler => left[sp].sreg < 128) /\ sreg \in Byte
  BY Zenon DEF HoldsAbove, TypeInv, MachineType
<1>2. sreg < 128 <=> left[sp].sreg < 128
  BY SMT, <1>1 DEF Byte
<1>3. left[sp].sreg < 128 \/ left[sp].sreg >= 128
  BY SMT, <1>1 DEF Byte
<1>4. CASE o = Scheduler
  <2>1. sp = scheduler_sp /\ Word(scheduler_task_sp) = sp
    BY Zenon, <1>4, IdlePlaces DEF ResumeWorld, Tasks, Word, WordIn
  <2>2. SP \in (Top(o) - 200)..Top(o)
    BY SMT, <1>4, SchedulerPlaces DEF Contexts, context
  <2>3. Owner(SP) = Scheduler
    BY Zenon, <1>4, <2>2, OwnerIs
  <2> QED BY Zenon, <1>2, <1>3, <2>1, <2>3 DEF Excused
<1> QED BY Zenon, <1>1, <1>2, <1>4

\* Before the choice the I flag is clear;
LEMMA LeavingMasked ==
    ASSUME TypeInv, NEW b \in SwitchAt, NEW o \in Owners, NEW sp \in Contexts(o), Leaving(b, o, sp)
    PROVE  sreg < 128
<1>1. b # StartSave
  BY Zenon, SitesAre DEF SwitchAt
<1>2. FlagLow(b)
  BY Zenon DEF Leaving, Saving, StoringTaskSp, StoringOther, Disabling, Selecting, Left, Saved
<1> QED BY Zenon, <1>1, <1>2 DEF FlagLow

\* after it, the restored SREG is, or the mask bit.
LEMMA GoingOnMasked ==
    ASSUME TypeInv, NEW b \in SwitchAt, NEW o \in Owners, NEW sp \in Contexts(o), GoingOn(b, o, sp),
           pc \in SwitchPcs
    PROVE  sreg < 128 \/ Excused
<1>1. b \in Int
  BY Zenon, SwitchIs
<1>2. CASE Clearing(b, o, sp) \/ Restoring(b, o, sp)
  BY Zenon, <1>2 DEF Clearing, Restoring, Resumable
<1>3. CASE Popping(b, o, sp)
  <2>1. ResumeWorld(mem, left, task_sp_adr, active, o, sp) /\ HoldsAbove(mem, left, o, sp)
        /\ pc \in (b + 78)..(b + 111)
    BY Zenon, <1>3 DEF Popping, Frame
  <2>2. CASE pc = b + 111
    <3>1. SP = sp + 32 /\ sreg = left[sp].sreg
      BY Zenon, <1>3, <2>2 DEF Popping
    <3> QED BY Zenon, <2>1, <3>1, ResumedFlag
  <2>3. CASE pc # b + 111
    <3>1. pc < b + 111
      BY SMT, <1>1, <2>1, <2>3
    <3> QED BY Zenon, <1>3, <3>1 DEF Popping
  <2> QED BY Zenon, <2>2, <2>3
<1>4. CASE Finishing(b, o, sp)
  <2>1. /\ ResumeWorld(mem, left, task_sp_adr, active, o, sp) /\ HoldsAbove(mem, left, o, sp)
        /\ sreg \div 32 = left[sp].sreg \div 32 /\ SpInSetMt(b + 112, sp + 33)
    BY Zenon, <1>4 DEF Finishing, Popped, Enabling
  <2>2. SP = sp + 32 \/ SP = sp + 33
    BY SMT, <2>1, ContextBounds DEF SpInSetMt
  <2> QED BY Zenon, <2>1, <2>2, ResumedFlag
<1>5. CASE Resuming(b, o, sp)
  <2>1. YieldAt + 119 \notin SwitchPcs /\ (b = YieldSave => b + 118 = YieldAt + 119)
    BY SMT, Layout DEF SwitchPcs, Apart, YieldSave
  <2>2. pc = b + 117
    <3>1. pc = b + 117 \/ (b = YieldSave /\ pc = b + 118)
      BY Zenon, <1>5 DEF Resuming
    <3>2. pc # YieldAt + 119
      BY Zenon, <2>1
    <3> QED BY Zenon, <2>1, <3>1, <3>2
  <2>3. /\ ResumeWorld(mem, left, task_sp_adr, active, o, sp) /\ HoldsAbove(mem, left, o, sp)
        /\ sreg \div 32 = left[sp].sreg \div 32 /\ SP = sp + 33
    BY Zenon, <1>5, <2>2 DEF Resuming, Popped
  <2> QED BY Zenon, <2>3, ResumedFlag
<1> QED BY Zenon, <1>2, <1>3, <1>4, <1>5 DEF GoingOn

\* So no interrupt can strike there.
LEMMA IInvMasked == ASSUME TypeInv, IInv PROVE MaskedThroughout
<1>1. SUFFICES ASSUME pc \in SwitchPcs PROVE ~(IFlag /\ Mt) \/ Excused
  BY Zenon, SwitchPcsAre DEF MaskedThroughout, Excused
<1>2. sreg < 128 => ~IFlag
  BY SMT DEF IFlag, TypeInv, MachineType, Byte
<1>3. pc \in DOMAIN Code /\ pc # YieldAt /\ pc \notin SpawnAt..(SpawnAt + 77) /\ pc \notin StartAt..(StartAt + 77)
  <2>1. \A a \in SwitchPcs : a \in YieldAt..(YieldAt + 119) \/ a \in TimerAt..(TimerAt + 117)
    BY SMT, Places DEF SwitchPcs
  <2>2. pc # YieldAt /\ pc \notin SpawnAt..(SpawnAt + 77) /\ pc \notin StartAt..(StartAt + 77)
    BY SMT, <1>1, Layout DEF SwitchPcs, Apart
  <2> QED BY Zenon, <1>1, <2>1, <2>2, CodeIs
<1>4. CASE pc = Malformed
  <2>1. pc > 0
    BY Zenon, <1>3, TaskCodeApart
  <2> QED BY SMT, <1>4, <2>1 DEF Malformed
<1>5. CASE InTask
  BY Zenon, <1>3, <1>5, TaskPc
<1>6. CASE InCall
  <2>1. SpawnAt \in SpawnAt..(SpawnAt + 77)
    BY SMT, Places
  <2> QED BY Zenon, <1>3, <1>6, <2>1 DEF InCall
<1>7. CASE Spawning \/ Scheduling
  BY Zenon, <1>3, <1>7, WhereSpawning, WhereScheduling
<1>8. ASSUME NEW b \in Sites, NEW o \in Owners, NEW sp \in Contexts(o), Leaving(b, o, sp) PROVE sreg < 128
  <2>1. CASE b \in SwitchAt
    BY Zenon, <1>8, <2>1, LeavingMasked
  <2>2. CASE b = SpawnSave \/ b = StartSave
    <3>1. pc \in b..(b + 68) /\ (b = SpawnSave => pc \in b..(b + 40)) /\ (b = StartSave => pc \in b..(b + 46))
      BY Zenon, <1>8, WhereLeaving
    <3>2. pc \in SpawnAt..(SpawnAt + 77) \/ pc \in StartAt..(StartAt + 77)
      BY SMT, <2>2, <3>1, Places DEF SpawnSave, StartSave
    <3> QED BY Zenon, <1>3, <3>2
  <2> QED BY Zenon, <2>1, <2>2 DEF Sites, SwitchAt
<1>9. ASSUME NEW b \in SwitchAt, NEW o \in Owners, NEW sp \in Contexts(o), GoingOn(b, o, sp) PROVE sreg < 128 \/ Excused
  BY Zenon, <1>1, <1>9, GoingOnMasked
<1> QED BY Zenon, <1>2, <1>4, <1>5, <1>6, <1>7, <1>8, <1>9 DEF IInv, InKernel

\* From the cli of k_yield, or the interrupt, up to sei or reti, no interrupt can strike, but for
\* the tail of the scheduler's first resumption.
THEOREM MaskedThroughoutHolds == Spec => []MaskedThroughout
<1>1. TypeInv /\ LeftType /\ IInv => MaskedThroughout
  BY Zenon, IInvMasked
<1> QED BY <1>1, Inductive, PTL

-----------------------------------------------------------------------------
(* Whoever resumes *)
LEMMA ResumesWhere ==
    ASSUME InCode, Op \in {"ret", "reti"}
    PROVE  pc = YieldAt + 119 \/ pc = TimerAt + 117
BY Zenon, CodeWellFormed DEF InCode, Op

\* ret and reti are reached only with a context restored.
LEMMA ResumesWhom ==
    ASSUME IInv, pc = YieldAt + 119 \/ pc = TimerAt + 117
    PROVE  /\ ocf = FALSE
           /\ \E b \in SwitchAt, o \in Owners : \E sp \in Contexts(o) : Resuming(b, o, sp) /\ Returns(b)
<1>1. /\ YieldSave + 118 = YieldAt + 119 /\ YieldSave \in Int /\ TimerAt \in Int
      /\ pc \notin SpawnAt..(SpawnAt + 77) /\ pc \notin StartAt..(StartAt + 77) /\ pc # YieldAt /\ pc \in Int
  BY SMT, Layout DEF Apart, YieldSave
<1>2. pc \in DOMAIN Code /\ pc # SpawnAt
  <2>1. SpawnAt \in SpawnAt..(SpawnAt + 77)
    BY SMT, Places
  <2>2. YieldAt + 119 \in DOMAIN Code /\ TimerAt + 117 \in DOMAIN Code
    BY Zenon, SiteCode DEF At
  <2>3. pc \in DOMAIN Code
    BY Zenon, <2>2
  <2>4. pc # SpawnAt
    BY SMT, <1>1, <2>1
  <2> QED BY Zenon, <2>3, <2>4
<1>3. ocf = FALSE /\ InKernel
  <2>1. pc # Malformed
    BY Zenon, <1>2, StoppedPcs DEF Stopped
  <2> QED BY Zenon, <1>1, <1>2, <2>1, TaskPc DEF IInv, InCall
<1>4. ~Spawning /\ ~Scheduling
  BY Zenon, <1>1, WhereSpawning, WhereScheduling
<1>5. ASSUME NEW b \in Sites, NEW o \in Owners, NEW sp \in Contexts(o), Leaving(b, o, sp) PROVE FALSE
  <2>1. /\ pc \in b..(b + 68) /\ (b = SpawnSave => pc \in b..(b + 40)) /\ (b = StartSave => pc \in b..(b + 46))
    BY SMT, <1>5, WhereLeaving
  <2>2. b = SpawnSave \/ b = StartSave \/ b = YieldSave \/ b = TimerAt
    BY Zenon DEF Sites
  <2> QED BY SMT, <2>1, <2>2, Layout DEF Apart, SpawnSave, StartSave, YieldSave
<1>6. PICK b \in SwitchAt, o \in Owners : \E sp \in Contexts(o) : GoingOn(b, o, sp)
  BY Zenon, <1>3, <1>4, <1>5 DEF InKernel
<1>7. PICK sp \in Contexts(o) : GoingOn(b, o, sp)
  BY Zenon, <1>6
<1>8. b \in Int /\ (b = YieldSave \/ b = TimerAt)
  BY Zenon, SwitchIs DEF SwitchAt
<1>9. ~(pc \in b..(b + 116))
  BY SMT, <1>8, Layout DEF Apart, YieldSave
<1>10. Resuming(b, o, sp)
  <2>1. Clearing(b, o, sp) => pc \in b..(b + 116)
    BY SMT, <1>8 DEF Clearing
  <2>2. Restoring(b, o, sp) => pc \in b..(b + 116)
    BY SMT, <1>8 DEF Restoring, LoadingSp
  <2>3. Popping(b, o, sp) => pc \in b..(b + 116)
    BY SMT, <1>8 DEF Popping
  <2>4. Finishing(b, o, sp) => pc \in b..(b + 116)
    BY SMT, <1>8 DEF Finishing
  <2> QED BY Zenon, <1>7, <1>9, <2>1, <2>2, <2>3, <2>4 DEF GoingOn
<1>11. Returns(b)
  <2>1. pc = b + 117 \/ (b = YieldSave /\ pc = b + 118)
    BY Zenon, <1>10 DEF Resuming
  <2>2. b = YieldSave => pc # b + 117
    BY SMT, Layout DEF Apart, YieldSave
  <2> QED BY Zenon, <1>8, <2>1, <2>2 DEF Returns
<1> QED BY Zenon, <1>3, <1>10, <1>11

LEMMA SameRegisters ==
    ASSUME NEW r \in RegisterTypes, NEW s \in RegisterTypes, \A k \in 0..31 : r[k] = s[k]
    PROVE  r = s
<1>2. r = [k \in 0..31 |-> r[k]] /\ s = [k \in 0..31 |-> s[k]]
  BY Zenon DEF RegisterTypes
<1>3. [k \in 0..31 |-> r[k]] = [k \in 0..31 |-> s[k]]
  BY Zenon
<1> QED BY Zenon, <1>2, <1>3

\* The return from a context restores all of it.
LEMMA ReturnRestores ==
    ASSUME TypeInv, Execute, NEW b, NEW o \in Owners, NEW sp \in Contexts(o), Resuming(b, o, sp), Returns(b)
    PROVE  Restores(left[SP - register_bytes])
<1>1. /\ SP = sp + 33 /\ SP' = sp + context /\ pc' = PcIn(mem, sp + 33)
      /\ R' = R /\ mem' = mem /\ InterruptsOn'
      /\ sreg' % 2 = left[sp].sreg % 2 /\ (sreg' \div 32) % 4 = (left[sp].sreg \div 32) % 4
  BY Zenon, ReturnStep
<1>2. SP - register_bytes = sp
  BY SMT, <1>1, ContextBounds DEF register_bytes
<1>3. HoldsAbove(mem, left, o, sp) /\ R[16] = left[sp].R[16] /\ \A k \in 0..31 : k # 16 => R[k] = left[sp].R[k]
  BY Zenon DEF Resuming, Popped
<1>4. R = left[sp].R
  <2>1. R \in RegisterTypes /\ left[sp].R \in RegisterTypes
    BY Zenon, <1>3 DEF HoldsAbove, TypeInv, MachineType
  <2>2. \A k \in 0..31 : R[k] = left[sp].R[k]
    BY Zenon, <1>3
  <2> QED BY Zenon, <2>1, <2>2, SameRegisters
<1>5. SP' = left[sp].sp /\ pc' = left[sp].pc /\ \A a \in DOMAIN left[sp].stack : mem'[a] = left[sp].stack[a]
  BY Zenon, <1>1, <1>3 DEF HoldsAbove, register_bytes
<1>6. sreg' >= 128
  BY Zenon, <1>1 DEF InterruptsOn, IFlag
<1> QED BY Zenon, <1>1, <1>2, <1>4, <1>5, <1>6 DEF Restores

LEMMA IInvRestored ==
    ASSUME TypeInv, IInv, [Next]_vars, Resumes
    PROVE  Restores(left[SP - register_bytes])
<1>1. pc = YieldAt + 119 \/ pc = TimerAt + 117
  BY Zenon, ResumesWhere DEF Resumes
<1>2. ocf = FALSE /\ pc \in DOMAIN Code
  BY Zenon, <1>1, ResumesWhom DEF Resumes, InCode
<1>3. PICK b \in SwitchAt, o \in Owners : \E sp \in Contexts(o) : Resuming(b, o, sp) /\ Returns(b)
  BY Zenon, <1>1, ResumesWhom
<1>4. PICK sp \in Contexts(o) : Resuming(b, o, sp) /\ Returns(b)
  BY Zenon, <1>3
<1>5. Execute
  <2>1. SP' # SP
    <3>1. SP \in Int
      BY Zenon, SpIsInt
    <3> QED BY SMT, <3>1 DEF Resumes
  <2>2. ~(UNCHANGED vars) /\ ~halt_exec
    BY Zenon, <2>1 DEF halt_exec, vars, machine
  <2>3. pc \notin AllTaskCode
    BY Zenon, <1>2, TaskCodeApart
  <2>4. ~Compute /\ ~TimerMatch
    BY Zenon, <2>3 DEF Compute, TimerMatch
  <2>5. ~Yield /\ ~Spawn
    <3>1. ASSUME NEW a, Call(a) PROVE FALSE
      <4>1. active \in Tasks /\ pc \in CallSites(active)
        BY Zenon, <3>1 DEF Call, TypeInv, KernelType, Owners, Tasks
      <4> QED BY Zenon, <2>3, <4>1, TaskCodeApart
    <3> QED BY Zenon, <3>1 DEF Yield, Spawn
  <2>6. ~TimerISR
    BY Zenon, <1>2 DEF TimerISR, Irq
  <2> QED BY Zenon, <2>2, <2>4, <2>5, <2>6 DEF Next
<1> QED BY Zenon, <1>4, <1>5, ReturnRestores

\* Whoever resumes, from k_yield or the interrupt, finds its registers, its stack and its place
\* as they were when its context was saved, with interrupts on.
THEOREM ContextRestoredHolds == Spec => ContextRestored
<1>1. TypeInv /\ LeftType /\ IInv /\ [Next]_vars => (Resumes => Restores(left[SP - register_bytes]))
  BY Zenon, IInvRestored
<1>2. TypeInv /\ LeftType /\ IInv /\ [Next]_vars => [Resumes => Restores(left[SP - register_bytes])]_vars
  BY Zenon, <1>1
<1> QED BY <1>2, Inductive, PTL DEF Spec, ContextRestored

=============================================================================

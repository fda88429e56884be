--------------------------- MODULE PidWrapProofs ---------------------------
(***************************************************************************)
(* Proofs about PidWrap: get_task finds a living task by its pid after the *)
(* pid counter has wrapped, as often as it may.  add_to_task_list puts a   *)
(* task below every free slot, so an ended task with its pid can only be   *)
(* above it.                                                               *)
(***************************************************************************)
EXTENDS PidWrap, WellFoundedInduction, TLAPS

\* No slot below an alone task's holds its pid: those were taken when it was created.
NoneBelow == \A s \in alone : \A t \in Slots : t < s => pid[t] # pid[s]

IInv == TypeOK /\ NoneBelow

\* Every non-empty set of slots has a least element.
LEMMA LeastSlot ==
    ASSUME NEW S \in SUBSET Slots, S # {}
    PROVE  Min(S) \in S /\ \A t \in S : Min(S) =< t
<1>1. S \subseteq Nat
  BY TasksMaxAssumption DEF Slots
<1>2. PICK m \in S : \A t \in S : ~(<<t, m>> \in OpToRel(<, Nat))
  BY <1>1, NatLessThanWellFounded, WFMin
<1>3. ASSUME NEW t \in S PROVE m =< t
  <2>1. ~(t < m)
    BY <1>1, <1>2 DEF OpToRel
  <2> QED  BY <1>1, <2>1
<1> QED  BY <1>3 DEF Min

\* What a pid counter holds is a pid.
LEMMA WrappedIsPid ==
    ASSUME NEW n \in 0..(pid_values - 1)
    PROVE  wrapped(n + 1) \in 0..(pid_values - 1)
<1>1. n + 1 \in Nat /\ pid_values \in Nat \ {0}
  BY PidAssumption
<1> QED  BY <1>1, SMT DEF wrapped

LEMMA InvInit == Init => IInv
BY PidAssumption DEF Init, IInv, TypeOK, NoneBelow, Living

\* A new task is above no free slot: below it all pids are living tasks', and not its own.
LEMMA CreateKeepsInv ==
    ASSUME IInv, NEW empty \in SUBSET Slots, empty # {}, Slots \ empty \subseteq Living,
           create_simplos_task(empty), mode' \in {"startup", "run", "halted"}
    PROVE  IInv'
<1> DEFINE new == Min(empty)
           twins == {s \in Slots \ empty : pid[s] = pid_cnt}
<1>1. new \in empty /\ new \in Slots /\ \A t \in empty : new =< t
  BY LeastSlot
<1>2. /\ status' = [s \in Slots |-> IF s = new \/ s \notin empty THEN "LIVING" ELSE "EMPTY"]
      /\ pid' = [pid EXCEPT ![new] = pid_cnt]
      /\ alone' = IF twins = {} THEN (alone \ empty) \cup {new} ELSE alone \ (twins \cup empty)
      /\ pid_cnt' = wrapped(pid_cnt + 1)
  BY DEF create_simplos_task, add_to_task_list
<1>3. pid \in [Slots -> 0..(pid_values - 1)] /\ pid_cnt \in 0..(pid_values - 1)
      /\ alone \subseteq Slots
  BY DEF IInv, TypeOK, Living
<1> HIDE DEF new
<1>4. alone' \subseteq (Slots \ empty) \cup {new}
  BY <1>2, <1>3
<1>5. TypeOK'
  <2>1. alone' \subseteq Living'
    BY <1>1, <1>2, <1>4 DEF Living
  <2> QED  BY <1>1, <1>2, <1>3, <2>1, WrappedIsPid DEF TypeOK
<1>6. ASSUME NEW s \in alone', NEW t \in Slots, t < s PROVE pid'[t] # pid'[s]
  <2>1. CASE s = new
    <3>1. t \notin empty
      BY <1>1, <1>6, <2>1, TasksMaxAssumption DEF Slots
    <3>2. twins = {}
      BY <1>1, <1>2, <2>1
    <3> QED  BY <1>1, <1>2, <1>3, <1>6, <2>1, <3>1, <3>2
  <2>2. CASE s # new
    <3>1. s \in alone /\ s \in Slots \ empty /\ pid[s] # pid_cnt
      BY <1>2, <1>3, <2>2
    <3>2. pid[t] # pid[s]
      BY <1>6, <3>1 DEF IInv, NoneBelow
    <3> QED  BY <1>1, <1>2, <1>3, <2>2, <3>1, <3>2
  <2> QED  BY <2>1, <2>2
<1> QED  BY <1>5, <1>6 DEF IInv, NoneBelow

LEMMA InvNext == IInv /\ [Next]_vars => IInv'
<1> SUFFICES ASSUME IInv, [Next]_vars PROVE IInv'
  OBVIOUS
<1>1. CASE main
  <2>1. CASE pid_cnt # 0
    BY <1>1, <2>1 DEF main, FATAL_ERROR, IInv, TypeOK, NoneBelow, Living
  <2>2. CASE pid_cnt = 0
    <3>1. Slots # {}
      BY TasksMaxAssumption DEF Slots
    <3> QED  BY <1>1, <2>2, <3>1, CreateKeepsInv DEF main
  <2> QED  BY <2>1, <2>2
<1>2. CASE spawn_task
  <2>1. CASE Living = Slots
    BY <1>2, <2>1 DEF spawn_task, FATAL_ERROR, IInv, TypeOK, NoneBelow, Living
  <2>2. CASE Living # Slots
    <3>1. Living \subseteq Slots /\ alone \subseteq Living
      BY DEF IInv, TypeOK, Living
    <3>2. Slots \ Living # {} /\ Slots \ (Slots \ Living) \subseteq Living
      BY <2>2, <3>1
    <3>3. create_simplos_task(Slots \ Living) /\ mode' = mode /\ mode = "run"
      BY <1>2, <2>2 DEF spawn_task
    <3> HIDE DEF Living
    <3> QED  BY <3>2, <3>3, CreateKeepsInv
  <2> QED  BY <2>1, <2>2
<1>3. ASSUME NEW s \in Slots, kill_current_task(s) PROVE IInv'
  BY <1>3 DEF kill_current_task, IInv, TypeOK, NoneBelow, Living
<1>4. CASE WrapAround
  BY <1>4 DEF WrapAround, IInv, TypeOK, NoneBelow, Living
<1>5. CASE halt_exec \/ UNCHANGED vars
  BY <1>5 DEF halt_exec, vars, IInv, TypeOK, NoneBelow, Living
<1> QED  BY <1>1, <1>2, <1>3, <1>4, <1>5 DEF Next

\* However often the counter has wrapped, get_task finds every living task whose pid no
\* other has had beside it.
THEOREM LivingTasksFound == Spec => []AloneIsFound
<1>1. IInv => AloneIsFound
  <2> SUFFICES ASSUME IInv, NEW s \in alone PROVE Min(Holding(pid[s])) = s
    BY DEF AloneIsFound, get_task
  <2>1. s \in Slots /\ s \in Holding(pid[s]) /\ Holding(pid[s]) \in SUBSET Slots
    BY DEF IInv, TypeOK, Living, Holding
  <2>2. Min(Holding(pid[s])) \in Holding(pid[s]) /\ Min(Holding(pid[s])) =< s
    BY <2>1, LeastSlot
  <2>3. ~(Min(Holding(pid[s])) < s)
    BY <2>2 DEF IInv, NoneBelow, Holding
  <2>4. Min(Holding(pid[s])) \in Int /\ s \in Int
    BY <2>1, <2>2, TasksMaxAssumption DEF Slots
  <2> QED  BY <2>2, <2>3, <2>4
<1> QED  BY <1>1, InvInit, InvNext, PTL DEF Spec

\* The task table, the counter and the set of tasks that are alone keep their types.
THEOREM TypeCorrect == Spec => []TypeOK
<1>1. IInv => TypeOK
  BY DEF IInv
<1> QED  BY <1>1, InvInit, InvNext, PTL DEF Spec

=============================================================================

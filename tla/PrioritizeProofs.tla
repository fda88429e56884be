-------------------------- MODULE PrioritizeProofs --------------------------
(***************************************************************************)
(* What prioritize_tasks returns, for any task list: lemmas the proofs     *)
(* about the kernel rest on.                                               *)
(***************************************************************************)
EXTENDS Prioritize, FiniteSetsExt, FiniteSetTheorems, TLAPS

\* Every non-empty set of slots has a least element.
LEMMA MinSlot ==
    ASSUME NEW S \in SUBSET Slots, S # {}
    PROVE  Min(S) \in S /\ \A y \in S : Min(S) =< y
PROOF
<1>1. S \subseteq Nat
  BY TasksMaxAssumption DEF Slots
<1>2. PICK x \in S : \A y \in S : ~(<<y, x>> \in OpToRel(<, Nat))
  BY <1>1, NatLessThanWellFounded, WFMin
<1>3. \A y \in S : x =< y
  <2> TAKE y \in S
  <2>1. x \in Nat /\ y \in Nat
    BY <1>1
  <2>2. ~(y < x)
    BY <1>2, <2>1 DEF OpToRel
  <2> QED BY <2>1, <2>2
<1> QED BY <1>3 DEF Min

\* There are tasks_max slots.
LEMMA SlotsFinite == IsFiniteSet(Slots) /\ Cardinality(Slots) = tasks_max
PROOF
<1>1. 0 \in Int /\ tasks_max - 1 \in Int /\ 0 =< tasks_max - 1
  BY TasksMaxAssumption
<1> QED BY <1>1, TasksMaxAssumption, FS_Interval DEF Slots

\* The tasks whose priorities matter.
Prioritized(tasks) == \A s \in Slots : tasks[s].priority \in Nat

\* No more tasks are listed than there are slots, and none only if none is schedulable.
LEMMA SchedulableFinite ==
    ASSUME NEW tasks
    PROVE  /\ IsFiniteSet(Schedulable(tasks))
           /\ num_prioritized(tasks) \in 0..tasks_max
           /\ num_prioritized(tasks) = 0 <=> Schedulable(tasks) = {}
PROOF
<1>1. Schedulable(tasks) \in SUBSET Slots
  BY DEF Schedulable
<1>2. IsFiniteSet(Schedulable(tasks)) /\ Cardinality(Schedulable(tasks)) =< tasks_max
  BY <1>1, SlotsFinite, FS_Subset
<1> QED BY <1>2, FS_CardinalityType, FS_EmptySet, TasksMaxAssumption DEF num_prioritized

\* A task that precedes another has a smaller place.
LEMMA PlaceMonotone ==
    ASSUME NEW tasks, Prioritized(tasks),
           NEW s \in Schedulable(tasks), NEW t \in Schedulable(tasks), Precedes(tasks, s, t)
    PROVE  PlaceOf(tasks, s) < PlaceOf(tasks, t)
PROOF
<1> DEFINE T == Schedulable(tasks)
           Before(u) == {r \in T : Precedes(tasks, r, u)}
<1>1. T \subseteq Slots /\ Slots \subseteq Nat /\ \A u \in T : tasks[u].priority \in Nat
  BY TasksMaxAssumption DEF Schedulable, Slots, Prioritized
<1>2. Before(s) \subseteq Before(t)
  <2> SUFFICES ASSUME NEW r \in T, Precedes(tasks, r, s)
               PROVE  Precedes(tasks, r, t)
    OBVIOUS
  <2> HIDE DEF T
  <2>1. /\ r \in Nat /\ s \in Nat /\ t \in Nat
        /\ tasks[r].priority \in Nat /\ tasks[s].priority \in Nat /\ tasks[t].priority \in Nat
    BY <1>1 DEF T
  <2> QED BY <2>1 DEF Precedes
<1>3. s \in Before(t) /\ s \notin Before(s)
  <2>1. s \in Nat /\ tasks[s].priority \in Nat
    BY <1>1
  <2>2. ~Precedes(tasks, s, s)
    BY <2>1 DEF Precedes
  <2> QED BY <2>2
<1>4. IsFiniteSet(Before(s)) /\ IsFiniteSet(Before(t))
  BY SchedulableFinite, FS_Subset
<1>5. /\ Cardinality(Before(s)) =< Cardinality(Before(t))
      /\ Cardinality(Before(s)) = Cardinality(Before(t)) => Before(t) = Before(s)
  BY <1>2, <1>4, FS_Subset
<1>6. Cardinality(Before(s)) \in Nat /\ Cardinality(Before(t)) \in Nat
  BY <1>4, FS_CardinalityType
<1> QED BY <1>3, <1>5, <1>6 DEF PlaceOf

\* A place is an index of the list.
LEMMA PlaceRange ==
    ASSUME NEW tasks, Prioritized(tasks), NEW t \in Schedulable(tasks)
    PROVE  PlaceOf(tasks, t) \in 0..(num_prioritized(tasks) - 1)
PROOF
<1> DEFINE T == Schedulable(tasks)
           Before == {r \in T : Precedes(tasks, r, t)}
<1>1. t \in Nat /\ tasks[t].priority \in Nat
  BY TasksMaxAssumption DEF Schedulable, Slots, Prioritized
<1>2. Before \in SUBSET (T \ {t})
  BY <1>1 DEF Precedes
<1>3. IsFiniteSet(T) /\ Cardinality(T) \in Nat
  BY SchedulableFinite, FS_CardinalityType
<1>4. IsFiniteSet(T \ {t}) /\ Cardinality(T \ {t}) = Cardinality(T) - 1
  BY <1>3, FS_RemoveElement
<1>5. IsFiniteSet(Before) /\ Cardinality(Before) =< Cardinality(T) - 1
  BY <1>2, <1>4, FS_Subset
<1>6. Cardinality(Before) \in Nat
  BY <1>5, FS_CardinalityType
<1> QED BY <1>3, <1>5, <1>6 DEF PlaceOf, num_prioritized

\* Two tasks never share a place.
LEMMA PlaceInjective ==
    ASSUME NEW tasks, Prioritized(tasks), NEW s \in Schedulable(tasks), NEW t \in Schedulable(tasks),
           PlaceOf(tasks, s) = PlaceOf(tasks, t)
    PROVE  s = t
PROOF
<1>1. s \in Nat /\ t \in Nat /\ tasks[s].priority \in Nat /\ tasks[t].priority \in Nat
  BY TasksMaxAssumption DEF Schedulable, Slots, Prioritized
<1>2. s # t => Precedes(tasks, s, t) \/ Precedes(tasks, t, s)
  BY <1>1 DEF Precedes
<1>3. PlaceOf(tasks, s) \in Int
  BY SchedulableFinite, PlaceRange
<1> QED BY <1>2, <1>3, PlaceMonotone

\* Places are handed out one to one: every place below num_prioritized is some task's.
LEMMA PlaceOnto ==
    ASSUME NEW tasks, Prioritized(tasks), NEW k \in 0..(num_prioritized(tasks) - 1)
    PROVE  \E t \in Schedulable(tasks) : PlaceOf(tasks, t) = k
PROOF
<1> DEFINE T == Schedulable(tasks)
           n == num_prioritized(tasks)
           place == [t \in T |-> PlaceOf(tasks, t)]
<1>1. n \in Nat /\ IsFiniteSet(T) /\ Cardinality(T) = n
  BY SchedulableFinite DEF num_prioritized
<1>2. IsFiniteSet(0..(n - 1)) /\ Cardinality(0..(n - 1)) = n
  <2> HIDE DEF n
  <2>1. 0 \in Int /\ n - 1 \in Int
    BY <1>1
  <2> QED BY <1>1, <2>1, FS_Interval
<1>3. place \in [T -> 0..(n - 1)]
  BY PlaceRange
<1>4. ASSUME NEW s \in T, NEW t \in T, place[s] = place[t]
      PROVE  s = t
  BY <1>4, PlaceInjective
<1>5. place \in Injection(T, 0..(n - 1))
  BY <1>3, <1>4 DEF Injection, IsInjective
<1>6. place \in Surjection(T, 0..(n - 1))
  BY <1>1, <1>2, <1>5, FS_Injection
<1> QED BY <1>6 DEF Surjection

\* The list holds, at each place, the schedulable task of that place; so the listed tasks
\* are schedulable and distinct.
LEMMA PrioritizedList ==
    ASSUME NEW tasks, Prioritized(tasks), NEW list, DOMAIN list = 0..tasks_max,
           NEW k \in 0..(num_prioritized(tasks) - 1)
    PROVE  /\ prioritize_tasks(tasks, list)[k] \in Schedulable(tasks)
           /\ PlaceOf(tasks, prioritize_tasks(tasks, list)[k]) = k
PROOF
<1>1. num_prioritized(tasks) \in 0..tasks_max
  BY SchedulableFinite
<1>2. k \in DOMAIN list /\ k < num_prioritized(tasks)
  BY <1>1, TasksMaxAssumption
<1>3. prioritize_tasks(tasks, list)[k] = CHOOSE t \in Schedulable(tasks) : PlaceOf(tasks, t) = k
  BY <1>2 DEF prioritize_tasks
<1> QED BY <1>3, PlaceOnto

\* And every schedulable task is listed.
LEMMA PrioritizedAll ==
    ASSUME NEW tasks, Prioritized(tasks), NEW list, DOMAIN list = 0..tasks_max,
           NEW t \in Schedulable(tasks)
    PROVE  \E k \in 0..(num_prioritized(tasks) - 1) : prioritize_tasks(tasks, list)[k] = t
PROOF
<1>1. PlaceOf(tasks, t) \in 0..(num_prioritized(tasks) - 1)
  BY PlaceRange
<1>2. /\ prioritize_tasks(tasks, list)[PlaceOf(tasks, t)] \in Schedulable(tasks)
      /\ PlaceOf(tasks, prioritize_tasks(tasks, list)[PlaceOf(tasks, t)]) = PlaceOf(tasks, t)
  BY <1>1, PrioritizedList
<1>3. prioritize_tasks(tasks, list)[PlaceOf(tasks, t)] = t
  BY <1>2, PlaceInjective
<1> QED BY <1>1, <1>3

\* The list keeps every entry from num_prioritized on.
LEMMA PrioritizedRest ==
    ASSUME NEW tasks, NEW list, NEW k \in DOMAIN list, ~(k < num_prioritized(tasks))
    PROVE  prioritize_tasks(tasks, list)[k] = list[k]
PROOF BY DEF prioritize_tasks

\* The task listed last has the highest priority: reschedule starts the round there.
LEMMA LastIsHighest ==
    ASSUME NEW tasks, Prioritized(tasks), NEW t \in Schedulable(tasks),
           PlaceOf(tasks, t) = num_prioritized(tasks) - 1, NEW s \in Schedulable(tasks)
    PROVE  tasks[s].priority =< tasks[t].priority
PROOF
<1>1. num_prioritized(tasks) \in Int
  BY SchedulableFinite
<1>2. PlaceOf(tasks, s) \in 0..(num_prioritized(tasks) - 1)
  BY PlaceRange
<1>3. ~(PlaceOf(tasks, t) < PlaceOf(tasks, s))
  BY <1>1, <1>2
<1>4. ~Precedes(tasks, t, s)
  BY <1>3, PlaceMonotone
<1>5. tasks[s].priority \in Nat /\ tasks[t].priority \in Nat
  BY DEF Prioritized, Schedulable
<1> QED BY <1>4, <1>5 DEF Precedes

=============================================================================

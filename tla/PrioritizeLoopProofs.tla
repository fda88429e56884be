------------------------ MODULE PrioritizeLoopProofs ------------------------
(***************************************************************************)
(* The scan of prioritize_tasks computes the closed form of Prioritize,    *)
(* for every number of tasks, every table and every list it is given.      *)
(***************************************************************************)
EXTENDS PrioritizeLoop, PrioritizeProofs

\* The schedulable tasks the scan has listed when it comes to task t at priority p.
Before(p, t) ==
    {s \in Schedulable(tasks) :
        tasks[s].priority < p \/ (tasks[s].priority = p /\ s < t)}

Listed == Before(priority, i)

\* The loop's invariant: the tasks listed are in their places, and the rest of the list is
\* as it was given.
LoopInv ==
    /\ TypeOK
    /\ num_sored = Cardinality(Listed)
    /\ \A s \in Listed : out_priority_list[PlaceOf(tasks, s)] = s
    /\ \A k \in 0..tasks_max : k >= num_sored => out_priority_list[k] = given[k]
    /\ ~Scanning => i = 0

\* Every task of a table has a priority that is a number.
LEMMA TablesPrioritized == TypeOK => Prioritized(tasks) /\ \A s \in Slots : tasks[s].priority \in Nat
PROOF
<1>1. Priorities \subseteq Nat
  BY UInt8Assumption, PrioritiesAssumption
<1>2. TypeOK => \A s \in Slots : tasks[s].priority \in Priorities
  BY DEF TypeOK, Tables
<1> QED BY <1>1, <1>2 DEF Prioritized

\* The tasks before a position of the scan are finite in number.
LEMMA BeforeFinite ==
    ASSUME NEW p, NEW t
    PROVE  /\ IsFiniteSet(Before(p, t))
           /\ Cardinality(Before(p, t)) \in 0..tasks_max
PROOF
<1>1. IsFiniteSet(Schedulable(tasks)) /\ Cardinality(Schedulable(tasks)) \in 0..tasks_max
  BY SchedulableFinite DEF num_prioritized
<1>2. Before(p, t) \in SUBSET Schedulable(tasks)
  BY DEF Before
<1>3. IsFiniteSet(Before(p, t)) /\ Cardinality(Before(p, t)) =< Cardinality(Schedulable(tasks))
  BY <1>1, <1>2, FS_Subset
<1> QED BY <1>1, <1>3, FS_CardinalityType, TasksMaxAssumption

\* A task is listed behind the tasks listed before it.
LEMMA PlaceIsCount ==
    ASSUME TypeOK, NEW t \in Schedulable(tasks)
    PROVE  PlaceOf(tasks, t) = Cardinality(Before(tasks[t].priority, t))
PROOF
<1>1. {s \in Schedulable(tasks) : Precedes(tasks, s, t)} = Before(tasks[t].priority, t)
  BY DEF Before, Precedes
<1> QED BY <1>1 DEF PlaceOf

\* The scan starts with an empty list.
LEMMA InitLoop == Init => LoopInv
PROOF
<1> SUFFICES ASSUME Init PROVE LoopInv
  OBVIOUS
<1>1. TypeOK
  BY TasksMaxAssumption, UInt8Assumption DEF Init, TypeOK, Lists, Slots
<1>2. Listed = {}
  BY <1>1, TablesPrioritized DEF Init, Listed, Before, Schedulable, Slots
<1>3. Cardinality(Listed) = 0
  BY <1>2, FS_EmptySet
<1> QED BY <1>1, <1>2, <1>3 DEF Init, LoopInv

\* Visiting a task keeps the listed tasks at their places.
LEMMA VisitLoop == LoopInv /\ Visit => LoopInv'
PROOF
<1> SUFFICES ASSUME LoopInv, Visit PROVE LoopInv'
  OBVIOUS
<1>1. TypeOK /\ i \in Slots /\ priority \in Nat /\ priority < UINT8_MAX
  BY TasksMaxAssumption, UInt8Assumption DEF LoopInv, TypeOK, Visit, Scanning, Slots
<1>2. i' = i + 1 /\ UNCHANGED <<tasks, given, priority>>
  BY DEF Visit
<1>3. /\ Prioritized(tasks)
      /\ \A s \in Slots : tasks[s].priority \in Nat /\ s \in Nat
      /\ \A s \in Schedulable(tasks) : s \in Slots /\ s \in Nat /\ tasks[s].priority \in Nat
  BY <1>1, TablesPrioritized DEF Slots, Schedulable
<1>4. CASE tasks[i].status = "READY" /\ tasks[i].priority = priority
  <2>1. i \in Schedulable(tasks)
    BY <1>1, <1>4 DEF Schedulable
  <2>2. Before(priority, i + 1) = Listed \cup {i} /\ i \notin Listed
    BY <1>1, <1>3, <1>4, <2>1 DEF Listed, Before
  <2>3. IsFiniteSet(Listed) /\ Cardinality(Listed) \in Nat
    BY BeforeFinite DEF Listed
  <2>4. Cardinality(Before(priority, i + 1)) = num_sored + 1
    BY <2>2, <2>3, FS_AddElement DEF LoopInv
  <2>5. num_sored + 1 \in 0..tasks_max /\ num_sored \in 0..tasks_max
    BY <2>4, BeforeFinite DEF LoopInv, TypeOK
  <2>6. num_sored' = num_sored + 1 /\ out_priority_list' = [out_priority_list EXCEPT ![num_sored] = i]
    BY <1>4, <2>5, TasksMaxAssumption, UInt8Assumption DEF Visit
  <2>7. PlaceOf(tasks, i) = num_sored
    BY <1>1, <1>4, <2>1, PlaceIsCount DEF LoopInv, Listed
  <2>8. Listed' = Listed \cup {i}
    BY <1>2, <2>2 DEF Listed, Before
  <2>9. ASSUME NEW s \in Listed PROVE PlaceOf(tasks, s) # num_sored
    <3>1. s \in Schedulable(tasks) /\ Precedes(tasks, s, i)
      BY <1>4, <2>9 DEF Listed, Before, Precedes
    <3>2. PlaceOf(tasks, s) < PlaceOf(tasks, i)
      BY <1>3, <2>1, <3>1, PlaceMonotone
    <3> QED BY <2>5, <2>7, <3>2
  <2>10. \A s \in Listed' : out_priority_list'[PlaceOf(tasks', s)] = s
    <3>1. out_priority_list \in [0..tasks_max -> Slots]
      BY <1>1 DEF TypeOK, Lists
    <3> QED BY <1>2, <2>5, <2>6, <2>7, <2>8, <2>9, <3>1 DEF LoopInv
  <2>11. TypeOK'
    <3>1. out_priority_list' \in Lists
      BY <1>1, <2>5, <2>6 DEF TypeOK, Lists
    <3>2. i' \in 0..tasks_max
      BY <1>1, <1>2, TasksMaxAssumption DEF Slots
    <3> QED BY <1>1, <1>2, <2>5, <2>6, <3>1, <3>2 DEF TypeOK
  <2>12. \A k \in 0..tasks_max : k >= num_sored' => out_priority_list'[k] = given'[k]
    BY <1>1, <1>2, <2>5, <2>6 DEF LoopInv, TypeOK, Lists
  <2>13. num_sored' = Cardinality(Listed')
    BY <2>2, <2>4, <2>6, <2>8
  <2>14. Scanning'
    BY <1>1, <1>2 DEF Scanning
  <2> QED BY <2>10, <2>11, <2>12, <2>13, <2>14 DEF LoopInv
<1>5. CASE ~(tasks[i].status = "READY" /\ tasks[i].priority = priority)
  <2>1. Listed' = Listed
    BY <1>1, <1>2, <1>3, <1>5 DEF Listed, Before, Schedulable
  <2>2. UNCHANGED <<out_priority_list, num_sored>>
    BY <1>5 DEF Visit
  <2>3. TypeOK'
    BY <1>1, <1>2, <2>2, TasksMaxAssumption DEF TypeOK, Slots
  <2>4. Scanning'
    BY <1>1, <1>2 DEF Scanning
  <2> QED BY <1>2, <2>1, <2>2, <2>3, <2>4 DEF LoopInv
<1> QED BY <1>4, <1>5

\* So does going on to the next priority.
LEMMA NextPriorityLoop == LoopInv /\ next_priority => LoopInv'
PROOF
<1> SUFFICES ASSUME LoopInv, next_priority PROVE LoopInv'
  OBVIOUS
<1>1. TypeOK /\ priority \in Nat /\ priority < UINT8_MAX /\ i = tasks_max /\ i' = 0
  BY UInt8Assumption DEF LoopInv, TypeOK, next_priority, Scanning
<1>2. priority' = priority + 1
  BY <1>1, UInt8Assumption DEF next_priority
<1>3. UNCHANGED <<tasks, given, out_priority_list, num_sored>>
  BY DEF next_priority
<1>4. \A s \in Schedulable(tasks) : s \in Nat /\ s < tasks_max /\ tasks[s].priority \in Nat
  BY <1>1, TablesPrioritized, TasksMaxAssumption DEF Slots, Schedulable
<1>5. Listed' = Listed
  BY <1>1, <1>2, <1>3, <1>4 DEF Listed, Before
<1>6. TypeOK'
  BY <1>1, <1>2, <1>3, TasksMaxAssumption, UInt8Assumption DEF TypeOK
<1> QED BY <1>1, <1>3, <1>5, <1>6 DEF LoopInv

\* The scan's invariant holds throughout.
LEMMA LoopInvariant == Spec => []LoopInv
PROOF
<1>1. LoopInv /\ [Next]_vars => LoopInv'
  <2>1. LoopInv /\ UNCHANGED vars => LoopInv'
    BY DEF LoopInv, TypeOK, Listed, Before, Scanning, vars, loop
  <2> QED BY <2>1, VisitLoop, NextPriorityLoop DEF Next
<1> QED BY <1>1, InitLoop, PTL DEF Spec

\* What the scan returns is what Prioritize says in closed form.
THEOREM ScanIsPrioritize == Spec => []ReturnsPrioritized
PROOF
<1>1. LoopInv => ReturnsPrioritized
  <2> SUFFICES ASSUME LoopInv, ~Scanning PROVE /\ out_priority_list = prioritize_tasks(tasks, given)
                                               /\ num_sored = num_prioritized(tasks)
    BY DEF ReturnsPrioritized
  <2>1. TypeOK /\ priority = UINT8_MAX
    BY UInt8Assumption DEF LoopInv, TypeOK, Scanning
  <2>2. Prioritized(tasks)
    BY <2>1, TablesPrioritized
  <2>3. Listed = Schedulable(tasks)
    BY <2>1 DEF Listed, Before, Schedulable
  <2>4. num_sored = num_prioritized(tasks) /\ num_sored \in 0..tasks_max
    BY <2>1, <2>3 DEF LoopInv, num_prioritized, TypeOK
  <2>5. ASSUME NEW k \in 0..tasks_max
        PROVE  out_priority_list[k] = prioritize_tasks(tasks, given)[k]
    <3>1. DOMAIN given = 0..tasks_max
      BY <2>1 DEF TypeOK, Lists
    <3>2. CASE k < num_sored
      <4>1. k \in 0..(num_prioritized(tasks) - 1)
        BY <2>4, <3>2
      <4>2. /\ prioritize_tasks(tasks, given)[k] \in Schedulable(tasks)
            /\ PlaceOf(tasks, prioritize_tasks(tasks, given)[k]) = k
        BY <2>2, <3>1, <4>1, PrioritizedList
      <4> QED BY <2>3, <4>2 DEF LoopInv
    <3>3. CASE ~(k < num_sored)
      <4>1. k >= num_sored
        BY <2>4, <3>3
      <4>2. prioritize_tasks(tasks, given)[k] = given[k]
        BY <2>4, <3>1, <3>3 DEF prioritize_tasks
      <4> QED BY <4>1, <4>2 DEF LoopInv
    <3> QED BY <3>2, <3>3
  <2>6. /\ out_priority_list = [k \in 0..tasks_max |-> out_priority_list[k]]
        /\ prioritize_tasks(tasks, given) =
              [k \in 0..tasks_max |-> prioritize_tasks(tasks, given)[k]]
    BY <2>1 DEF TypeOK, Lists, prioritize_tasks
  <2>7. [k \in 0..tasks_max |-> out_priority_list[k]] =
        [k \in 0..tasks_max |-> prioritize_tasks(tasks, given)[k]]
    BY <2>5
  <2> QED BY <2>4, <2>6, <2>7
<1> QED BY <1>1, LoopInvariant, PTL

\* The scan stays inside the list it fills, whatever the tasks.
THEOREM ScanInsideList == Spec => []TypeOK
PROOF
<1>1. LoopInv => TypeOK
  BY DEF LoopInv
<1> QED BY <1>1, LoopInvariant, PTL

=============================================================================

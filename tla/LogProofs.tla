----------------------------- MODULE LogProofs -----------------------------
(***************************************************************************)
(* The log of the mock HAL holds what was added since the last clear() and *)
(* nothing else, for every size of the buffer, every limit on the strings  *)
(* and whatever the buffer holds to begin with.                            *)
(*                                                                         *)
(* The argument: the entries divide the buffer up to next_entry_index into *)
(* pieces, each ended by its 0, and the walk goes from piece to piece.  At *)
(* next_entry_index it may go on, but only over a 0 that lies there, which *)
(* reads as an empty string.                                               *)
(***************************************************************************)
EXTENDS Log, WellFoundedInduction, TLAPS

\* Every strlen ends inside the memory that is modelled.
Terminated == TypeOK /\ buffer[max_entries + 1] = 0

\* Starts are where the walk comes by: it goes from 0 from entry to entry to the end.
Divides(Starts) ==
    /\ Starts \subseteq 0..next_entry_index /\ {0, next_entry_index} \subseteq Starts
    /\ \A e \in Starts \ {next_entry_index} : Following(e) \in Starts /\ StringAt(e) \in added
    /\ \A e \in Starts \ {0} : \E d \in Starts : d < e /\ Following(d) = e
    /\ \A entry \in added : \E e \in Starts \ {next_entry_index} : StringAt(e) = entry

Searchable == \A entry \in added : message_length_inc_terminator(entry) =< buffer_len

\* The inductive invariant: the bytes up to next_entry_index are the entries added since the last
\* clear(), each with its 0, and what the walk meets of older ones lies behind them.
LogInv == Terminated /\ Searchable /\ \E Starts \in SUBSET (0..next_entry_index) : Divides(Starts)

-----------------------------------------------------------------------------
(* Strings *)

\* Every non-empty set of numbers has a least element.
LEMMA MinIs ==
    ASSUME NEW S \in SUBSET Nat, S # {}
    PROVE  Min(S) \in S /\ \A y \in S : Min(S) =< y
PROOF
<1>1. PICK x \in S : \A y \in S : ~(<<y, x>> \in OpToRel(<, Nat))
  BY NatLessThanWellFounded, WFMin
<1>2. \A y \in S : x =< y
  <2> TAKE y \in S
  <2>1. ~(y < x)
    BY <1>1 DEF OpToRel
  <2> QED BY <2>1
<1> QED BY <1>2 DEF Min

\* What strlen finds: the first 0.
StrlenOK(adr) ==
    /\ strlen(adr) \in 0..(max_entries + 1 - adr)
    /\ buffer[adr + strlen(adr)] = 0
    /\ \A n \in 0..(strlen(adr) - 1) : buffer[adr + n] # 0
    /\ \A n \in 0..(max_entries + 1 - adr) :
          buffer[adr + n] = 0 /\ (\A k \in 0..(n - 1) : buffer[adr + k] # 0) => strlen(adr) = n

LEMMA StrlenIs == Terminated => \A adr \in Addresses : StrlenOK(adr)
PROOF
<1> SUFFICES ASSUME Terminated, NEW adr \in Addresses PROVE StrlenOK(adr)
  OBVIOUS
<1> DEFINE S == {n \in 0..(max_entries + 1 - adr) : buffer[adr + n] = 0}
<1>1. max_entries \in Nat /\ adr \in Nat /\ adr =< max_entries + 1
  BY SizesAssumption DEF Addresses
<1>2. max_entries + 1 - adr \in S
  BY <1>1 DEF Terminated
<1>3. S \in SUBSET Nat /\ S # {}
  <2>1. \A n \in S : n \in Nat
    BY <1>1
  <2> QED BY <1>2, <2>1
<1>4. strlen(adr) \in S /\ \A y \in S : strlen(adr) =< y
  BY <1>3, MinIs DEF strlen
<1>5. \A n \in 0..(strlen(adr) - 1) : n \in 0..(max_entries + 1 - adr) /\ ~(strlen(adr) =< n)
  BY <1>1, <1>4
<1>6. ASSUME NEW n \in 0..(max_entries + 1 - adr), buffer[adr + n] = 0,
             \A k \in 0..(n - 1) : buffer[adr + k] # 0
      PROVE  strlen(adr) = n
  <2>1. strlen(adr) =< n
    BY <1>4, <1>6
  <2>2. ~(strlen(adr) < n)
    BY <1>1, <1>4, <1>6
  <2> QED BY <1>1, <1>4, <2>1, <2>2
<1> QED BY <1>4, <1>5, <1>6 DEF StrlenOK

\* The string at an address is that long, and the next entry comes after its 0.
LEMMA StringIs ==
    ASSUME Terminated, NEW adr \in Addresses
    PROVE  /\ adr \in Nat /\ strlen(adr) \in Nat /\ max_entries \in Nat
           /\ StringAt(adr) \in [1..strlen(adr) -> Chars]
           /\ Following(adr) \in Nat /\ adr < Following(adr)
           /\ strlen(adr) = 0 => StringAt(adr) = <<>>
PROOF
<1>1. StrlenOK(adr) /\ max_entries \in Nat /\ adr \in 0..(max_entries + 1)
  BY StrlenIs, SizesAssumption DEF Addresses
<1>2. ASSUME NEW k \in 1..strlen(adr) PROVE buffer[adr + k - 1] \in Chars
  <2>1. k - 1 \in 0..(strlen(adr) - 1) /\ adr + (k - 1) \in Addresses
    BY <1>1 DEF StrlenOK, Addresses
  <2>2. buffer[adr + (k - 1)] # 0
    BY <1>1, <2>1 DEF StrlenOK
  <2>3. adr + (k - 1) = adr + k - 1
    BY <1>1, <2>1
  <2> QED BY <2>1, <2>2, <2>3 DEF Terminated, TypeOK
<1>3. StringAt(adr) \in [1..strlen(adr) -> Chars]
  BY <1>2 DEF StringAt
<1>4. ASSUME strlen(adr) = 0 PROVE StringAt(adr) = <<>>
  BY <1>3, <1>4
<1> QED BY <1>1, <1>3, <1>4 DEF StrlenOK, Following

-----------------------------------------------------------------------------
(* The walk *)

\* One step of the walk, from a given address.
StepOfWalk(f, adr) == IF InUse(adr) THEN {StringAt(adr)} \cup f[Following(adr)] ELSE {}

\* From is the function its definition describes: the walk only goes up, as far as the end.
LEMMA FromIs == Terminated => \A adr \in Addresses : From[adr] = StepOfWalk(From, adr)
PROOF
<1> SUFFICES ASSUME Terminated PROVE \A adr \in Addresses : From[adr] = StepOfWalk(From, adr)
  OBVIOUS
<1> DEFINE Top == max_entries + 1
           Walks(f, n) == f = [adr \in n..Top |-> StepOfWalk(f, adr)]
           Bad == {k \in 0..(Top + 1) : ~\E f : Walks(f, Top + 1 - k)}
<1>1. Top \in Nat /\ next_entry_index \in 0..max_entries
  BY SizesAssumption DEF Terminated, TypeOK
<1>2. ASSUME NEW adr \in Addresses, InUse(adr)
      PROVE  Following(adr) \in Addresses /\ adr < Following(adr)
  BY <1>1, <1>2, StringIs DEF InUse, Following, Addresses
<1>3. Bad = {}
  <2> SUFFICES ASSUME Bad # {} PROVE FALSE
    OBVIOUS
  <2>1. Bad \in SUBSET Nat
    BY <1>1
  <2>2. PICK k \in Bad : \A y \in Bad : k =< y
    BY <2>1, MinIs
  <2>3. k # 0
    <3> DEFINE none == [adr \in (Top + 1)..Top |-> {}]
    <3>1. (Top + 1)..Top = {}
      BY <1>1
    <3>2. Walks(none, Top + 1)
      BY <3>1
    <3> QED BY <1>1, <3>2
  <2>4. k - 1 \in 0..(Top + 1) /\ k - 1 \notin Bad
    BY <1>1, <2>2, <2>3
  <2> DEFINE n == Top + 1 - k
  <2>5. n \in 0..Top /\ Top + 1 - (k - 1) = n + 1
    BY <1>1, <2>2, <2>3
  <2>6. PICK f : Walks(f, n + 1)
    BY <2>4, <2>5
  <2> DEFINE g == [adr \in n..Top |-> IF adr = n THEN StepOfWalk(f, n) ELSE f[adr]]
  <2>7. ASSUME NEW adr \in n..Top PROVE g[adr] = StepOfWalk(g, adr)
    <3>1. adr \in Addresses
      BY <1>1, <2>5 DEF Addresses
    <3>2. adr # n => g[adr] = StepOfWalk(f, adr)
      <4>1. ASSUME adr # n PROVE adr \in (n + 1)..Top
        BY <1>1, <2>5, <4>1
      <4>2. \A a \in (n + 1)..Top : f[a] = StepOfWalk(f, a)
        BY <2>6
      <4> QED BY <4>1, <4>2
    <3>3. g[adr] = StepOfWalk(f, adr)
      BY <3>2
    <3>4. CASE ~InUse(adr)
      <4>1. StepOfWalk(g, adr) = {} /\ StepOfWalk(f, adr) = {}
        BY <3>4 DEF StepOfWalk
      <4> QED BY <3>3, <4>1
    <3>5. CASE InUse(adr)
      <4>1. Following(adr) \in (n + 1)..Top
        BY <1>1, <1>2, <2>5, <3>1, <3>5 DEF Addresses
      <4>2. g[Following(adr)] = f[Following(adr)]
        BY <1>1, <2>5, <4>1
      <4>3. StepOfWalk(g, adr) = StepOfWalk(f, adr)
        BY <4>2 DEF StepOfWalk
      <4> QED BY <3>3, <4>3
    <3> QED BY <3>4, <3>5
  <2>8. Walks(g, n)
    BY <2>7
  <2> QED BY <2>2, <2>8
<1>4. \E f : Walks(f, 0)
  <2>1. Top + 1 \in 0..(Top + 1) /\ Top + 1 - (Top + 1) = 0
    BY <1>1
  <2> QED BY <1>3, <2>1
<1>5. 0..Top = Addresses
  BY DEF Addresses
<1> HIDE DEF Top
<1>6. \E f : f = [adr \in Addresses |-> StepOfWalk(f, adr)]
  BY <1>4, <1>5
<1>7. From = CHOOSE f : f = [adr \in Addresses |-> StepOfWalk(f, adr)]
  BY Zenon DEF From, StepOfWalk
<1>8. From = [adr \in Addresses |-> StepOfWalk(From, adr)]
  BY <1>6, <1>7
<1> QED BY <1>8

\* The walk finds all entries that were added, and besides them at most the empty string.
LEMMA WalkedIs ==
    LogInv => added \subseteq Walked /\ Walked \subseteq added \cup {<<>>}
PROOF
<1> SUFFICES ASSUME LogInv PROVE added \subseteq Walked /\ Walked \subseteq added \cup {<<>>}
  OBVIOUS
<1>1. PICK Starts \in SUBSET (0..next_entry_index) : Divides(Starts)
  BY DEF LogInv
<1>2. /\ Terminated /\ max_entries \in Nat /\ next_entry_index \in 0..max_entries
      /\ 0 \in Starts /\ next_entry_index \in Starts
  BY <1>1, SizesAssumption DEF LogInv, Terminated, TypeOK, Divides
<1>3. \A e \in Starts : e \in Addresses /\ e \in Nat /\ e =< next_entry_index
  BY <1>2 DEF Addresses
<1>4. ASSUME NEW e \in Starts, e # next_entry_index
      PROVE  /\ From[e] = {StringAt(e)} \cup From[Following(e)] /\ StringAt(e) \in added
             /\ Following(e) \in Starts /\ e < Following(e)
  <2>1. Following(e) \in Starts /\ StringAt(e) \in added
    BY <1>1, <1>4 DEF Divides
  <2>2. Following(e) =< next_entry_index /\ strlen(e) \in Nat /\ e \in Nat /\ e < Following(e)
    BY <1>2, <1>3, <2>1, StringIs
  <2>3. InUse(e)
    BY <1>2, <2>2 DEF Following, InUse
  <2> QED BY <1>2, <1>3, <2>1, <2>2, <2>3, FromIs DEF StepOfWalk
<1>5. From[next_entry_index] \subseteq {<<>>}
  <2> DEFINE end == next_entry_index
  <2>1. end \in Addresses /\ end + 1 \in Addresses
    BY <1>2 DEF Addresses
  <2>2. strlen(end) \in Nat /\ strlen(end + 1) \in Nat /\ (strlen(end) = 0 => StringAt(end) = <<>>)
    BY <1>2, <2>1, StringIs
  <2>3. ~InUse(end + 1)
    BY <1>2, <2>2 DEF InUse
  <2>4. From[end + 1] = {}
    BY <1>2, <2>1, <2>3, FromIs DEF StepOfWalk
  <2>5. CASE ~InUse(end)
    BY <1>2, <2>1, <2>5, FromIs DEF StepOfWalk
  <2>6. CASE InUse(end)
    <3>1. strlen(end) = 0
      BY <1>2, <2>2, <2>6 DEF InUse
    <3>2. Following(end) = end + 1
      BY <1>2, <3>1 DEF Following
    <3>3. From[end] = {StringAt(end)} \cup From[Following(end)]
      BY <1>2, <2>1, <2>6, FromIs DEF StepOfWalk
    <3> QED BY <2>2, <2>4, <3>1, <3>2, <3>3
  <2> QED BY <2>5, <2>6
<1>6. \A e \in Starts : From[e] \subseteq added \cup {<<>>}
  <2> DEFINE Bad == {k \in 0..next_entry_index :
                        \E e \in Starts : e = next_entry_index - k /\ ~(From[e] \subseteq added \cup {<<>>})}
  <2>1. Bad = {}
    <3> SUFFICES ASSUME Bad # {} PROVE FALSE
      OBVIOUS
    <3>1. Bad \in SUBSET Nat
      BY <1>2
    <3>2. PICK k \in Bad : \A y \in Bad : k =< y
      BY <3>1, MinIs
    <3>3. PICK e \in Starts : e = next_entry_index - k /\ ~(From[e] \subseteq added \cup {<<>>})
      BY <3>2
    <3>4. e # next_entry_index
      BY <1>5, <3>3
    <3>5. Following(e) \in Starts /\ ~(From[Following(e)] \subseteq added \cup {<<>>})
      BY <1>4, <3>3, <3>4
    <3>6. PICK d \in Starts : d = Following(e)
      BY <3>5
    <3>7. d \in Nat /\ e \in Nat /\ e < d /\ d =< next_entry_index /\ k \in Nat
      BY <1>2, <1>3, <1>4, <3>2, <3>3, <3>4, <3>6
    <3>8. next_entry_index - d \in 0..next_entry_index
          /\ d = next_entry_index - (next_entry_index - d) /\ ~(k =< next_entry_index - d)
      BY <1>2, <3>3, <3>7
    <3>9. next_entry_index - d \in Bad
      BY <3>5, <3>6, <3>8
    <3> QED BY <3>2, <3>8, <3>9
  <2>2. ASSUME NEW e \in Starts PROVE From[e] \subseteq added \cup {<<>>}
    <3>1. next_entry_index - e \in 0..next_entry_index
          /\ e = next_entry_index - (next_entry_index - e)
      BY <1>2, <1>3
    <3> QED BY <2>1, <3>1
  <2> QED BY <2>2
<1>7. \A e \in Starts : From[e] \subseteq From[0]
  <2> DEFINE Bad == {e \in Starts : ~(From[e] \subseteq From[0])}
  <2>1. Bad = {}
    <3> SUFFICES ASSUME Bad # {} PROVE FALSE
      OBVIOUS
    <3>1. Bad \in SUBSET Nat
      BY <1>3
    <3>2. PICK e \in Bad : \A y \in Bad : e =< y
      BY <3>1, MinIs
    <3>3. e \in Starts \ {0}
      BY <3>2
    <3>4. PICK d \in Starts : d < e /\ Following(d) = e
      BY <1>1, <3>3 DEF Divides
    <3>5. d # next_entry_index
      BY <1>2, <1>3, <3>3, <3>4
    <3>6. From[e] \subseteq From[d]
      BY <1>4, <3>4, <3>5
    <3>7. ~(From[e] \subseteq From[0])
      BY <3>2
    <3>8. d \in Bad
      BY <3>6, <3>7
    <3>9. ~(e =< d)
      BY <1>3, <3>3, <3>4
    <3> QED BY <3>2, <3>8, <3>9
  <2> QED BY <2>1
<1>8. ASSUME NEW entry \in added PROVE entry \in From[0]
  <2>1. PICK e \in Starts \ {next_entry_index} : StringAt(e) = entry
    BY <1>1 DEF Divides
  <2> QED BY <1>4, <1>7, <2>1
<1> QED BY <1>2, <1>6, <1>8 DEF Walked

-----------------------------------------------------------------------------
(* The steps *)

LEMMA InitLogInv == Init => LogInv
PROOF
<1> SUFFICES ASSUME Init PROVE LogInv
  OBVIOUS
<1>1. max_entries \in Nat /\ next_entry_index = 0 /\ added = {} /\ 0 \in 0..max_entries
  BY SizesAssumption DEF Init
<1>2. Terminated
  BY <1>1 DEF Init, Terminated, TypeOK
<1>3. Divides({0})
  BY <1>1 DEF Divides
<1> QED BY <1>1, <1>2, <1>3 DEF LogInv, Searchable

LEMMA ClearLogInv ==
    ASSUME LogInv, clear
    PROVE  LogInv'
PROOF
<1>1. max_entries \in Nat /\ next_entry_index' = 0 /\ added' = {} /\ 0 \in 0..max_entries
  BY SizesAssumption DEF clear
<1>2. Terminated'
  BY <1>1 DEF clear, LogInv, Terminated, TypeOK
<1>3. Divides({0})'
  BY <1>1 DEF Divides
<1>4. Searchable'
  BY <1>1 DEF Searchable
<1>5. {0} \in SUBSET (0..next_entry_index')
  BY <1>1
<1> QED BY <1>2, <1>3, <1>4, <1>5 DEF LogInv

\* A message of n characters is one string of them, with a 0 behind it.
LEMMA MessageIs ==
    ASSUME NEW message \in Strings
    PROVE  /\ Len(message) \in Nat
           /\ message \in [1..Len(message) -> Chars]
           /\ Append(message, 0) \in [1..(Len(message) + 1) -> Chars \cup {0}]
           /\ \A k \in 1..Len(message) : Append(message, 0)[k] = message[k]
           /\ Append(message, 0)[Len(message) + 1] = 0
PROOF
<1>1. PICK n \in 0..MaxLength : message \in [1..n -> Chars]
  BY DEF Strings
<1>2. n \in Nat /\ message \in Seq(Chars) /\ Len(message) = n
  BY <1>1, SizesAssumption
<1>3. /\ Len(Append(message, 0)) = n + 1
      /\ \A k \in 1..n : Append(message, 0)[k] = message[k]
      /\ Append(message, 0)[n + 1] = 0
  BY <1>2
<1>4. message \in Seq(Chars \cup {0})
  BY <1>2
<1>5. Append(message, 0) \in Seq(Chars \cup {0})
  BY <1>4
<1>6. Append(message, 0) \in [1..(n + 1) -> Chars \cup {0}]
  <2>1. PICK whole : whole = Append(message, 0)
    OBVIOUS
  <2>2. whole \in Seq(Chars \cup {0}) /\ Len(whole) = n + 1
    BY <1>3, <1>5, <2>1
  <2>3. whole \in [1..(n + 1) -> Chars \cup {0}]
    BY <2>2
  <2> QED BY <2>1, <2>3
<1> QED BY <1>1, <1>2, <1>3, <1>6

LEMMA AddLogInv ==
    ASSUME LogInv, NEW message \in Strings, add_entry(message)
    PROVE  LogInv'
PROOF
<1>1. PICK Starts \in SUBSET (0..next_entry_index) : Divides(Starts)
  BY DEF LogInv
<1>2. /\ max_entries \in Nat /\ next_entry_index \in 0..max_entries /\ Len(message) \in Nat
      /\ num_buffer_entries_remaining = max_entries - next_entry_index
      /\ next_entry_index + Len(message) + 1 =< max_entries
      /\ next_entry_index' = next_entry_index + Len(message) + 1
      /\ added' = added \cup {message}
  BY MessageIs, SizesAssumption
     DEF LogInv, Terminated, TypeOK, add_entry, Fits, message_length_inc_terminator
<1>3. /\ \A adr \in Addresses : adr < next_entry_index => buffer'[adr] = buffer[adr]
      /\ \A k \in 0..(Len(message) - 1) : buffer'[next_entry_index + k] = message[k + 1]
      /\ buffer'[next_entry_index + Len(message)] = 0
      /\ buffer'[max_entries + 1] = 0
      /\ buffer' \in [Addresses -> Chars \cup {0}]
  <2>1. buffer \in [Addresses -> Chars \cup {0}] /\ buffer[max_entries + 1] = 0
    BY DEF LogInv, Terminated, TypeOK
  <2>2. buffer' = [adr \in Addresses |->
                     IF adr \in next_entry_index..(next_entry_index + Len(message))
                     THEN Append(message, 0)[adr - next_entry_index + 1]
                     ELSE buffer[adr]]
    BY DEF add_entry
  <2>3. ASSUME NEW k \in 0..Len(message)
        PROVE  buffer'[next_entry_index + k] = Append(message, 0)[k + 1]
    <3>1. PICK adr \in Addresses : adr = next_entry_index + k
      BY <1>2 DEF Addresses
    <3>2. /\ adr \in next_entry_index..(next_entry_index + Len(message))
          /\ adr - next_entry_index + 1 = k + 1
      BY <1>2, <3>1
    <3>3. buffer'[adr] = Append(message, 0)[adr - next_entry_index + 1]
      BY <2>2, <3>2
    <3> QED BY <3>1, <3>2, <3>3
  <2>4. \A k \in 0..(Len(message) - 1) : buffer'[next_entry_index + k] = message[k + 1]
    <3> TAKE k \in 0..(Len(message) - 1)
    <3>1. k \in 0..Len(message) /\ k + 1 \in 1..Len(message)
      BY <1>2
    <3>2. Append(message, 0)[k + 1] = message[k + 1]
      BY <3>1, MessageIs
    <3> QED BY <2>3, <3>1, <3>2
  <2>5. buffer'[next_entry_index + Len(message)] = 0
    BY <1>2, <2>3, MessageIs
  <2>6. \A adr \in Addresses : adr < next_entry_index => buffer'[adr] = buffer[adr]
    BY <1>2, <2>2 DEF Addresses
  <2>7. buffer'[max_entries + 1] = 0
    BY <1>2, <2>1, <2>2 DEF Addresses
  <2>8. ASSUME NEW adr \in Addresses PROVE buffer'[adr] \in Chars \cup {0}
    <3>1. CASE adr \in next_entry_index..(next_entry_index + Len(message))
      <4>1. adr - next_entry_index + 1 \in 1..(Len(message) + 1)
        BY <1>2, <3>1
      <4> QED BY <2>2, <3>1, <4>1, MessageIs
    <3>2. CASE adr \notin next_entry_index..(next_entry_index + Len(message))
      BY <2>1, <2>2, <3>2
    <3> QED BY <3>1, <3>2
  <2>9. buffer' \in [Addresses -> Chars \cup {0}]
    BY <2>2, <2>8
  <2> QED BY <2>4, <2>5, <2>6, <2>7, <2>9
<1>4. Terminated'
  <2>1. next_entry_index' \in 0..max_entries
    BY <1>2
  <2>2. num_buffer_entries_remaining' = max_entries - next_entry_index'
    BY <1>2 DEF add_entry, message_length_inc_terminator
  <2>3. added' \subseteq Strings
    BY <1>2 DEF LogInv, Terminated, TypeOK
  <2> QED BY <1>3, <2>1, <2>2, <2>3 DEF Terminated, TypeOK
<1>5. Searchable'
  BY <1>2 DEF LogInv, Searchable, add_entry, message_length_inc_terminator
<1>6. (\A adr \in Addresses : StrlenOK(adr))'
  <2>1. (Terminated => \A adr \in Addresses : StrlenOK(adr))'
    BY StrlenIs, PTL
  <2> QED BY <1>4, <2>1
<1>7. ASSUME NEW e \in Starts \ {next_entry_index}
      PROVE  Following(e)' = Following(e) /\ StringAt(e)' = StringAt(e)
  <2>1. e \in Addresses /\ e \in Nat /\ Following(e) \in 0..next_entry_index
    <3>1. Following(e) \in Starts
      BY <1>1 DEF Divides
    <3>2. e \in 0..next_entry_index /\ Following(e) \in 0..next_entry_index
      BY <3>1
    <3> QED BY <1>2, <3>2 DEF Addresses
  <2>2. strlen(e) \in Nat /\ e + strlen(e) < next_entry_index
    BY <1>2, <2>1, StringIs DEF LogInv, Following
  <2>3. \A k \in 0..strlen(e) : e + k \in Addresses /\ buffer'[e + k] = buffer[e + k]
    BY <1>2, <1>3, <2>1, <2>2 DEF Addresses
  <2>4. StrlenOK(e)
    BY <2>1, StrlenIs DEF LogInv
  <2>5. /\ strlen(e) \in 0..(max_entries + 1 - e) /\ buffer'[e + strlen(e)] = 0
        /\ \A k \in 0..(strlen(e) - 1) : buffer'[e + k] # 0
    BY <2>2, <2>3, <2>4 DEF StrlenOK
  <2>6. strlen(e)' = strlen(e)
    BY <1>6, <2>1, <2>5 DEF StrlenOK
  <2>7. \A k \in 1..strlen(e) : buffer'[e + k - 1] = buffer[e + k - 1]
    <3> TAKE k \in 1..strlen(e)
    <3>1. k - 1 \in 0..strlen(e) /\ e + (k - 1) = e + k - 1
      BY <2>1, <2>2
    <3> QED BY <2>3, <3>1
  <2> QED BY <2>6, <2>7 DEF Following, StringAt
<1>8. PICK end \in 0..max_entries : end = next_entry_index
  BY <1>2
<1>9. Following(end)' = next_entry_index' /\ StringAt(end)' = message
  <2>1. end \in Addresses /\ Len(message) \in 0..(max_entries + 1 - end)
    BY <1>2, <1>8 DEF Addresses
  <2>2. \A k \in 0..(Len(message) - 1) : buffer'[end + k] # 0
    <3> TAKE k \in 0..(Len(message) - 1)
    <3>1. k + 1 \in 1..Len(message)
      BY <1>2
    <3> QED BY <1>3, <1>8, <3>1, MessageIs, CharsAssumption
  <2>3. strlen(end)' = Len(message)
    BY <1>3, <1>6, <1>8, <2>1, <2>2 DEF StrlenOK
  <2>4. \A k \in 1..Len(message) : buffer'[end + k - 1] = message[k]
    <3> TAKE k \in 1..Len(message)
    <3>1. k - 1 \in 0..(Len(message) - 1) /\ (k - 1) + 1 = k /\ end + (k - 1) = end + k - 1
      BY <1>2, <1>8
    <3> QED BY <1>3, <1>8, <3>1
  <2>5. StringAt(end)' = [k \in 1..Len(message) |-> message[k]]
    BY <2>3, <2>4 DEF StringAt
  <2> QED BY <1>2, <1>8, <2>3, <2>5, MessageIs DEF Following
<1>10. PICK More : More = Starts \cup {end + Len(message) + 1}
  OBVIOUS
<1>11. end + Len(message) + 1 = next_entry_index' /\ end < next_entry_index'
       /\ next_entry_index' \in Nat /\ end \in Starts /\ end \in Nat
  BY <1>1, <1>2, <1>8 DEF Divides
<1>12. Divides(More)'
  <2>1. More \subseteq 0..next_entry_index' /\ {0, next_entry_index'} \subseteq More
    <3>1. Starts \subseteq 0..next_entry_index /\ 0 \in Starts
      BY <1>1 DEF Divides
    <3>2. \A e \in Starts : e \in 0..next_entry_index'
      BY <1>2, <3>1
    <3>3. next_entry_index' \in 0..next_entry_index'
      BY <1>11
    <3> QED BY <1>10, <1>11, <3>1, <3>2, <3>3
  <2>2. ASSUME NEW e \in More \ {next_entry_index'}
        PROVE  Following(e)' \in More /\ StringAt(e)' \in added'
    <3>1. CASE e = end
      BY <1>2, <1>9, <1>10, <1>11, <3>1
    <3>2. CASE e # end
      <4>1. e \in Starts \ {next_entry_index}
        BY <1>8, <1>10, <1>11, <3>2
      <4> QED BY <1>1, <1>2, <1>7, <1>10, <4>1 DEF Divides
    <3> QED BY <3>1, <3>2
  <2>3. ASSUME NEW e \in More \ {0}
        PROVE  \E d \in More : d < e /\ Following(d)' = e
    <3>1. CASE e = next_entry_index'
      BY <1>9, <1>10, <1>11, <3>1
    <3>2. CASE e # next_entry_index'
      <4>1. PICK d \in Starts : d < e /\ Following(d) = e
        BY <1>1, <1>10, <1>11, <3>2 DEF Divides
      <4>2. d # next_entry_index
        BY <1>2, <1>10, <1>11, <3>2, <4>1
      <4> QED BY <1>7, <1>10, <4>1, <4>2
    <3> QED BY <3>1, <3>2
  <2>4. ASSUME NEW entry \in added'
        PROVE  \E e \in More \ {next_entry_index'} : StringAt(e)' = entry
    <3>1. CASE entry = message
      BY <1>9, <1>10, <1>11, <3>1
    <3>2. CASE entry \in added
      <4>1. PICK e \in Starts \ {next_entry_index} : StringAt(e) = entry
        BY <1>1, <3>2 DEF Divides
      <4>2. e # next_entry_index'
        BY <1>2, <4>1
      <4> QED BY <1>7, <1>10, <4>1, <4>2
    <3> QED BY <1>2, <3>1, <3>2
  <2> QED BY <2>1, <2>2, <2>3, <2>4 DEF Divides
<1>13. More \in SUBSET (0..next_entry_index')
  BY <1>12 DEF Divides
<1> QED BY <1>4, <1>5, <1>12, <1>13 DEF LogInv

-----------------------------------------------------------------------------
(* The theorems *)

LEMMA NextLogInv ==
    ASSUME LogInv, [Next]_vars
    PROVE  LogInv'
PROOF
<1>1. CASE UNCHANGED vars
  <2>1. UNCHANGED <<buffer, next_entry_index, num_buffer_entries_remaining, added>>
    BY <1>1 DEF vars
  <2>2. \A adr : Following(adr)' = Following(adr) /\ StringAt(adr)' = StringAt(adr)
    BY <2>1 DEF Following, StringAt, strlen
  <2>3. Terminated' /\ Searchable'
    BY <2>1 DEF LogInv, Terminated, TypeOK, Searchable
  <2>4. PICK Starts \in SUBSET (0..next_entry_index) : Divides(Starts)
    BY DEF LogInv
  <2>5. Divides(Starts)'
    BY <2>1, <2>2, <2>4 DEF Divides
  <2> QED BY <2>1, <2>3, <2>5 DEF LogInv
<1> QED BY <1>1, ClearLogInv, AddLogInv DEF Next

\* The entries divide the buffer, from its start to next_entry_index.
THEOREM LogDivided == Spec => []LogInv
PROOF
<1>1. LogInv /\ [Next]_vars => LogInv'
  BY NextLogInv
<1> QED BY <1>1, InitLogInv, PTL DEF Spec

\* Type correctness: the end of the log is in the buffer and agrees with the room that remains.
THEOREM LogTypeCorrect == Spec => []TypeOK
PROOF
<1>1. LogInv => TypeOK
  BY DEF LogInv, Terminated
<1> QED BY <1>1, LogDivided, PTL

\* What was added since the last clear() is found.
THEOREM AddedFound == Spec => []AddedAreFound
PROOF
<1>1. LogInv => AddedAreFound
  BY WalkedIs DEF AddedAreFound, contains_entry, LogInv, Searchable
<1> QED BY <1>1, LogDivided, PTL

\* But for the empty string, what is found was added.
THEOREM FoundAdded == Spec => []FoundWereAdded
PROOF
<1>1. LogInv => FoundWereAdded
  BY WalkedIs DEF FoundWereAdded, contains_entry
<1> QED BY <1>1, LogDivided, PTL

\* The search by prefix finds the prefixes of what was added, and no others.
THEOREM PrefixSearch == Spec => []PrefixesFound
PROOF
<1>1. LogInv => PrefixesFound
  <2> SUFFICES ASSUME LogInv, NEW prefix \in Strings \ {<<>>}
               PROVE  /\ Len(prefix) # 0
                      /\ (\E entry \in Walked : IsPrefix(prefix, entry))
                            <=> \E entry \in added : IsPrefix(prefix, entry)
    BY DEF PrefixesFound, contains_entry_starting_with
  <2>1. Len(prefix) \in Nat /\ prefix \in [1..Len(prefix) -> Chars]
    BY MessageIs
  <2>2. Len(prefix) # 0
    BY <2>1
  <2>3. ~IsPrefix(prefix, <<>>)
    BY <2>1, <2>2 DEF IsPrefix
  <2> QED BY <2>2, <2>3, WalkedIs
<1> QED BY <1>1, LogDivided, PTL

=============================================================================

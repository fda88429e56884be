-------------------------------- MODULE Log --------------------------------
(***************************************************************************)
(* The log the mock HAL keeps of the calls a unit test makes (hal/log.cpp):*)
(* zero-terminated entries one after the other in a buffer, searched by    *)
(* walking from terminator to terminator.  clear() forgets where the       *)
(* entries end but leaves their bytes, and the walk looks one entry past   *)
(* the last: at bytes of before a clear(), never written, or beyond the    *)
(* buffer.                                                                 *)
(***************************************************************************)
EXTENDS Integers, SequencesExt

CONSTANTS
    max_entries,    \* bytes of the buffer
    Chars,          \* the characters of an entry, 0 not among them
    MaxLength,      \* bound: of the strings that are added and searched for
    buffer_len,     \* strings of contains_entry and add_entry: 100 with the terminator
    prefix_len      \* and of contains_entry_starting_with: 50

ASSUME SizesAssumption == {max_entries, MaxLength, buffer_len, prefix_len} \subseteq Nat \ {0}
ASSUME CharsAssumption == 0 \notin Chars

VARIABLES
    buffer,         \* the buffer's bytes, and what the memory after it happens to hold
    next_entry_index,
    num_buffer_entries_remaining,
    added           \* the entries added since the last clear(): what the log is to hold

vars == <<buffer, next_entry_index, num_buffer_entries_remaining, added>>

Addresses == 0..(max_entries + 1)
Strings == UNION {[1..n -> Chars] : n \in 0..MaxLength}

message_length_inc_terminator(message) == Len(message) + 1

strlen(adr) == Min({n \in 0..(max_entries + 1 - adr) : buffer[adr + n] = 0})
StringAt(adr) == [k \in 1..strlen(adr) |-> buffer[adr + k - 1]]

Following(adr) == adr + strlen(adr) + 1

InUse_terminator_twice(adr) == adr + strlen(adr) + 1 < next_entry_index

\* The loop's condition: true of the address after the last entry if a 0 is there.
InUse(adr) == adr + strlen(adr) =< next_entry_index

\* The strings both searches look at: those of a walk from the start of the buffer.
From[adr \in Addresses] ==
    IF InUse(adr) THEN {StringAt(adr)} \cup From[Following(adr)] ELSE {}
Walked == From[0]

contains_entry(expected) ==
    /\ message_length_inc_terminator(expected) =< buffer_len
    /\ expected \in Walked

contains_entry_starting_with_swapped(expected) ==
    /\ message_length_inc_terminator(expected) =< prefix_len
    /\ \E entry \in Walked : IsPrefix(entry, expected)

contains_entry_starting_with(expected) ==
    /\ message_length_inc_terminator(expected) =< prefix_len
    /\ Len(expected) # 0
    /\ \E entry \in Walked : IsPrefix(expected, entry)

-----------------------------------------------------------------------------
\* Nobody clears the buffer.  The memory behind it has a 0 somewhere.
Init ==
    /\ buffer \in [Addresses -> Chars \cup {0}]
    /\ buffer[max_entries + 1] = 0
    /\ next_entry_index = 0
    /\ num_buffer_entries_remaining = max_entries
    /\ added = {}

Fits_terminator_forgotten(message) == Len(message) =< num_buffer_entries_remaining

Fits(message) == message_length_inc_terminator(message) =< num_buffer_entries_remaining

add_entry(message) ==
    /\ message_length_inc_terminator(message) =< buffer_len
    /\ Fits(message)
    /\ buffer' = [adr \in Addresses |->
                    IF adr \in next_entry_index..(next_entry_index + Len(message))
                    THEN Append(message, 0)[adr - next_entry_index + 1]
                    ELSE buffer[adr]]
    /\ next_entry_index' = next_entry_index + message_length_inc_terminator(message)
    /\ num_buffer_entries_remaining' =
            num_buffer_entries_remaining - message_length_inc_terminator(message)
    /\ added' = added \cup {message}

clear_index_kept ==
    /\ next_entry_index' = next_entry_index
    /\ num_buffer_entries_remaining' = max_entries - next_entry_index
    /\ added' = {}
    /\ UNCHANGED buffer

clear ==
    /\ next_entry_index' = 0
    /\ num_buffer_entries_remaining' = max_entries
    /\ added' = {}
    /\ UNCHANGED buffer

Next == clear \/ \E message \in Strings : add_entry(message)

Spec == Init /\ [][Next]_vars

-----------------------------------------------------------------------------
(* Properties *)

\* Type correctness, the end of the buffer included: the index and what remains add up.
TypeOK ==
    /\ buffer \in [Addresses -> Chars \cup {0}]
    /\ next_entry_index \in 0..max_entries
    /\ num_buffer_entries_remaining = max_entries - next_entry_index
    /\ added \subseteq Strings

\* What was added since the last clear() is found (test_can_add_multiple_messages).
AddedAreFound == \A entry \in added : contains_entry(entry)

\* But for the empty string, what is found was added, whatever an earlier use of the buffer
\* left behind the last entry (test_clear_removed_existing_entries).
FoundWereAdded ==
    \A entry \in Strings \ {<<>>} : contains_entry(entry) => entry \in added

\* The search by prefix finds the prefixes of what was added, up to the length it can take.
PrefixesFound ==
    \A prefix \in Strings \ {<<>>} :
        contains_entry_starting_with(prefix) <=>
            /\ message_length_inc_terminator(prefix) =< prefix_len
            /\ \E entry \in added : IsPrefix(prefix, entry)

=============================================================================

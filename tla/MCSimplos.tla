----------------------------- MODULE MCSimplos -----------------------------
(***************************************************************************)
(* Simplos on small instances for TLC: what the configurations give the    *)
(* constants.                                                              *)
(***************************************************************************)
EXTENDS Simplos

\* memory_layout.hpp: (task_ram_start - task_ram_end) / tasks_max, 0xFFF, 0x350 and 5.
BlockBytes == (4095 - 848) \div 5

MaxUInt8 == 255

\* Priorities: all alike; the lowest and the one that no round lists; these and the highest
\* that a round lists.
OnePriority == {0}
LowestAndUnlisted == {0, 255}
LowestHighestUnlisted == {0, 254, 255}

=============================================================================

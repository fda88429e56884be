-------------------------- MODULE MCContextSwitch --------------------------
(***************************************************************************)
(* ContextSwitch on small instances.                                       *)
(***************************************************************************)
EXTENDS ContextSwitch

\* Registers and flags all zero, and patterns that set every byte and most flags.
AllPatterns == {0, 3, 5}
Multiples(p) == [r \in 0..31 |-> (p * (r + 1) * 7) % 256]
SomeRegisters == [p \in AllPatterns |-> Multiples(p)]
SomeFlags == [p \in AllPatterns |-> (p * 25) % 128]
ThreeTimes == Multiples(3)

=============================================================================

-------------------------- MODULE MCSimplosSafety --------------------------
(***************************************************************************)
(* The inductive invariant of the safety proofs, and the refinement of     *)
(* AbstractTasks, on a small instance.                                     *)
(***************************************************************************)
EXTENDS SimplosProofs, MCSimplos

=============================================================================

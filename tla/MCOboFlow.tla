------------------------------ MODULE MCOboFlow ------------------------------
(* Small instances of OboFlow for TLC. *)
EXTENDS OboFlow, TLC

Symmetry == Permutations(Requests) \cup Permutations(Flows)

=============================================================================

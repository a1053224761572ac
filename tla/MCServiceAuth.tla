----------------------------- MODULE MCServiceAuth -----------------------------
(* Small instances of ServiceAuth for TLC. *)
EXTENDS ServiceAuth, TLC

Symmetry == Permutations(Callers)

=============================================================================

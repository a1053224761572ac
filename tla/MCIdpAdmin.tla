----------------------------- MODULE MCIdpAdmin -----------------------------
(* A small instance of IdpAdmin for TLC. *)
EXTENDS IdpAdmin, TLC

Symmetry == Permutations(Sessions) \cup Permutations(Secrets)
=============================================================================

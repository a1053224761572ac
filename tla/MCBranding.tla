------------------------------ MODULE MCBranding ------------------------------
(* A small instance of Branding for TLC. *)
EXTENDS Branding, TLC

Symmetry == Permutations(Slots)

=============================================================================

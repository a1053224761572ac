---------------------------- MODULE MCLazyDatabase ----------------------------
(* Small instances of LazyDatabase for TLC. *)
EXTENDS LazyDatabase, TLC

Symmetry == Permutations(Workers)

=============================================================================

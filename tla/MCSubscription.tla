---------------------------- MODULE MCSubscription ----------------------------
(* Small instances of Subscription for TLC. *)
EXTENDS Subscription

=============================================================================

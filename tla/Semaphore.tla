------------------------------ MODULE Semaphore ------------------------------
(***************************************************************************)
(* What a bounded pool of slots promises: never more than Capacity holders,*)
(* and a process is turned away only while every slot is really held.      *)
(***************************************************************************)
EXTENDS Naturals, FiniteSets

CONSTANTS Processes, Capacity

VARIABLE status   \* status[p]: "out", "in" (holds a slot), "refused"

Holders == {p \in Processes : status[p] = "in"}

Init == status = [p \in Processes |-> "out"]

Acquire(p) ==
    /\ status[p] = "out" /\ Cardinality(Holders) < Capacity
    /\ status' = [status EXCEPT ![p] = "in"]

Refuse(p) ==
    /\ status[p] = "out" /\ Cardinality(Holders) = Capacity
    /\ status' = [status EXCEPT ![p] = "refused"]

Leave(p) ==
    /\ status[p] # "out"
    /\ status' = [status EXCEPT ![p] = "out"]

Next == \E p \in Processes : Acquire(p) \/ Refuse(p) \/ Leave(p)

Spec == Init /\ [][Next]_status
=============================================================================

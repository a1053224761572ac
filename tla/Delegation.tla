----------------------------- MODULE Delegation -----------------------------
(***************************************************************************)
(* What delegation promises, whatever stores and handlers keep it: an      *)
(* agent acts for a user on a thread only under a live grant of that       *)
(* thread, a grant goes through its life once, and a thread has one live   *)
(* grant at a time.                                                        *)
(***************************************************************************)
CONSTANTS Threads, Grants, Callers, Actions, None

VARIABLES
    life,      \* life[g]: "none", "asked", "given", "due", "live" or "spent"
    purpose,   \* purpose[g]: the thread and the action g was asked for
    calls      \* calls[c]: the call c is making, and the grant it makes it under

vars == <<life, purpose, calls>>

NoCall == [grant |-> None, thread |-> None, act |-> "none"]

(* What consent to an action lets the agent do. *)
Covered(a) == {a} \cup IF a = "book" THEN {} ELSE {"list"}

(* The lives of the grants when what thread t holds is given up. *)
Withdrawn(t) ==
    [g \in Grants |-> IF life[g] = "live" /\ purpose[g].thread = t THEN "spent" ELSE life[g]]

Init ==
    /\ life = [g \in Grants |-> "none"]
    /\ purpose = [g \in Grants |-> [thread |-> None, action |-> "none"]]
    /\ calls = [c \in Callers |-> NoCall]

(* A new grant is asked for; the thread starts over without the old one.   *)
Ask(g, t, a) ==
    /\ life[g] = "none"
    /\ life' = [Withdrawn(t) EXCEPT ![g] = "asked"]
    /\ purpose' = [purpose EXCEPT ![g] = [thread |-> t, action |-> a]]
    /\ UNCHANGED calls

Give(g) ==
    /\ life[g] = "asked"
    /\ life' = [life EXCEPT ![g] = "given"]
    /\ UNCHANGED <<purpose, calls>>

(* The grant is collected, once; it may be lost on the way.                *)
Collect(g) ==
    /\ life[g] = "given"
    /\ \E l \in {"due", "spent"} : life' = [life EXCEPT ![g] = l]
    /\ UNCHANGED <<purpose, calls>>

(* It takes the place of what the thread held. *)
Install(g) ==
    /\ life[g] = "due"
    /\ life' = [Withdrawn(purpose[g].thread) EXCEPT ![g] = "live"]
    /\ UNCHANGED <<purpose, calls>>

Withdraw(t) ==
    /\ life' = Withdrawn(t)
    /\ UNCHANGED <<purpose, calls>>

(* A call begins only under the live grant of its thread, and for what that *)
(* grant covers; the grant may be given up while the call is on its way.   *)
Begin(c, g, a) ==
    /\ calls[c] = NoCall
    /\ life[g] = "live" /\ a \in Covered(purpose[g].action)
    /\ calls' = [calls EXCEPT ![c] = [grant |-> g, thread |-> purpose[g].thread, act |-> a]]
    /\ UNCHANGED <<life, purpose>>

Return(c) ==
    /\ calls[c] # NoCall
    /\ calls' = [calls EXCEPT ![c] = NoCall]
    /\ UNCHANGED <<life, purpose>>

Next ==
    \/ \E t \in Threads : Withdraw(t)
    \/ \E g \in Grants : Give(g) \/ Collect(g) \/ Install(g)
    \/ \E g \in Grants, t \in Threads, a \in Actions : Ask(g, t, a)
    \/ \E c \in Callers : Return(c) \/ \E g \in Grants, a \in Actions : Begin(c, g, a)

Spec == Init /\ [][Next]_vars
=============================================================================

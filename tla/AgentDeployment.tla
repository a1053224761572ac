--------------------------- MODULE AgentDeployment ---------------------------
(***************************************************************************)
(* Deployment and removal of an organization's AI agent: the portal's      *)
(* add_agent and delete_agent, sequences of calls to WSO2 IS (the agent's  *)
(* identity and its role) and to the Business API (the one configuration   *)
(* row of the organization), without compensation; and the availability of *)
(* the agent that each browser session caches.                             *)
(*                                                                         *)
(* A call of WSO2 IS is carried out, refused, or raises (a timeout), which *)
(* ends the handler with a 500, whether or not it was carried out or will  *)
(* be (an identity made then is known to nobody, so it may as well have    *)
(* been made at once).  A call                                             *)
(* of the Business API never raises: the portal takes a timeout for a 503  *)
(* while the API may still be at work on the request, save or removal, and *)
(* carry it out at any later time.                                         *)
(***************************************************************************)
EXTENDS Naturals, FiniteSets

CONSTANTS
    Sessions,    \* administrators' browser sessions, one request at a time each
    MaxAgents,   \* identities made
    MaxLate,     \* removals of the row at work at once after a timeout
    None

ASSUME AgentsAssumption == MaxAgents \in Nat /\ MaxLate \in Nat
ASSUME NoneAssumption == None \notin 1..MaxAgents

VARIABLES
    made,     \* number of identities made so far
    agents,   \* WSO2 IS: the identities there are
    lateIds,  \* WSO2 IS: identities it is at work on deleting although the portal timed out
    rows,     \* Business API: the agents named by configuration rows of the organization
    job,      \* job[id]: what the Business API does with the save of identity id
    late,     \* number of removals of the row it is at work on although the portal timed out
    avail,    \* avail[s]: has_agent_config of the session, None when it is not there
    flash,    \* flash[s]: the message the next page shows
    op,       \* op[s]: the request in progress
    alone     \* history: sessions whose last request no other session's overlapped or followed

isVars == <<made, agents, lateIds>>
apiVars == <<rows, job, late>>
vars == <<isVars, apiVars, avail, flash, op, alone>>

-----------------------------------------------------------------------------
Ids == 1..MaxAgents

NoOp == [pc |-> "idle", id |-> None, ok |-> TRUE]
NoFlash == [kind |-> "none", id |-> None, ok |-> TRUE]

Operations == [pc : {"idle", "create", "roles", "saving", "read", "unmake", "unsave"},
               id : Ids \cup {None}, ok : BOOLEAN]

(* A save not sent; sent; at its commit, having found no row or a row;     *)
(* answered.                                                               *)
Jobs == {"none", "sent", "insert", "update", "saved", "failed"}
Flashes == [kind : {"none", "deployed", "notsaved", "removed"}, id : Ids \cup {None}, ok : BOOLEAN]

TypeOK ==
    /\ made \in 0..MaxAgents /\ agents \subseteq 1..made /\ lateIds \subseteq 1..made
    /\ rows \subseteq 1..made
    /\ job \in [Ids -> Jobs] /\ late \in 0..MaxLate
    /\ avail \in [Sessions -> BOOLEAN \cup {None}]
    /\ flash \in [Sessions -> Flashes]
    /\ op \in [Sessions -> Operations]
    /\ alone \subseteq Sessions

Init ==
    /\ made = 0 /\ agents = {} /\ lateIds = {} /\ rows = {}
    /\ job = [id \in Ids |-> "none"] /\ late = 0
    /\ avail = [s \in Sessions |-> None]
    /\ flash = [s \in Sessions |-> NoFlash]
    /\ op = [s \in Sessions |-> NoOp]
    /\ alone = {}

At(s, pc) == op[s].pc = pc
Goto(s, pc) == op' = [op EXCEPT ![s].pc = pc]

(* The handler redirects with a message. *)
Redirect(s, kind) ==
    /\ flash' = [flash EXCEPT ![s] = [kind |-> kind, id |-> op[s].id, ok |-> op[s].ok]]
    /\ op' = [op EXCEPT ![s] = NoOp]

Continue(s, pc) == Goto(s, pc) /\ flash' = flash

(* A 500, or a redirect with an error message about a request that did     *)
(* nothing.                                                                *)
Raise(s) == op' = [op EXCEPT ![s] = NoOp] /\ flash' = flash

AtWork(id) == job[id] \in {"sent", "insert", "update"}

(* No other request is in progress, and no call a timeout left behind, the *)
(* session's own included.                                                 *)
Undisturbed(s) ==
    /\ \A other \in Sessions : other # s => At(other, "idle")
    /\ late = 0 /\ \A id \in Ids : ~AtWork(id)

Begin(s, pc) ==
    /\ At(s, "idle") /\ flash[s] = NoFlash
    /\ Goto(s, pc)
    /\ alone' = IF Undisturbed(s) THEN {s} ELSE {}
    /\ UNCHANGED <<isVars, apiVars, avail, flash>>

-----------------------------------------------------------------------------
(* add_agent *)

AddAgent(s) == Begin(s, "create")

(* No management token, a refusal, or an exception before the call. *)
CreateFails(s) ==
    /\ At(s, "create")
    /\ Raise(s)
    /\ UNCHANGED <<isVars, apiVars, avail, alone>>

CreateAgent(s) ==
    /\ At(s, "create") /\ made < MaxAgents
    /\ made' = made + 1 /\ agents' = agents \cup {made + 1}
    /\ \/ op' = [op EXCEPT ![s].pc = "roles", ![s].id = made + 1] /\ flash' = flash
       \/ Raise(s)
    /\ UNCHANGED <<lateIds, apiVars, avail, alone>>

(* assign_roles_to_user for the role the tools ask for, which nothing here *)
(* reads: a missing token, a role that is not found and a refusal are only *)
(* logged, and an exception leaves an identity without a row.  The save is *)
(* sent next.                                                              *)
AssignRole(s) ==
    /\ At(s, "roles")
    /\ \/ Continue(s, "saving") /\ job' = [job EXCEPT ![op[s].id] = "sent"]
       \/ Raise(s) /\ UNCHANGED job
    /\ UNCHANGED <<isVars, rows, late, avail, alone>>

(* create_agent_config looks for the organization's row ...  *)
SaveLookup(id) ==
    /\ job[id] = "sent"
    /\ job' = [job EXCEPT ![id] = IF rows # {} THEN "update" ELSE "insert"]
    /\ UNCHANGED <<isVars, rows, late, avail, flash, op, alone>>

(* As if the organization were not the key of the table. *)
SaveCommitNoKey(id) ==
    /\ job[id] \in {"insert", "update"}
    /\ rows' = IF job[id] = "update" THEN {id} ELSE rows \cup {id}
    /\ job' = [job EXCEPT ![id] = "saved"]
    /\ UNCHANGED <<isVars, late, avail, flash, op, alone>>

(* ... and updates it or inserts one.  The organization is the key of the  *)
(* table: an insert beside another row fails, and so does the update of a  *)
(* row that is gone.                                                       *)
SaveCommit(id) ==
    /\ job[id] \in {"insert", "update"}
    /\ IF (job[id] = "update") = (rows # {})
       THEN rows' = {id} /\ job' = [job EXCEPT ![id] = "saved"]
       ELSE rows' = rows /\ job' = [job EXCEPT ![id] = "failed"]
    /\ UNCHANGED <<isVars, late, avail, flash, op, alone>>

(* The save does not arrive, is refused, or ends with an error. *)
SaveRefused(id) ==
    /\ AtWork(id)
    /\ job' = [job EXCEPT ![id] = "failed"]
    /\ UNCHANGED <<isVars, rows, late, avail, flash, op, alone>>

Saved(s) ==
    /\ At(s, "saving") /\ job[op[s].id] = "saved"
    /\ Redirect(s, "deployed")
    /\ avail' = [avail EXCEPT ![s] = TRUE]
    /\ UNCHANGED <<isVars, apiVars, alone>>

(* The save has failed, or the portal does not wait for it any longer,     *)
(* while the API may go on.                                                *)
SaveFails(s) ==
    /\ At(s, "saving")
    /\ Redirect(s, "notsaved")
    /\ UNCHANGED <<isVars, apiVars, avail, alone>>

-----------------------------------------------------------------------------
(* delete_agent *)

DeleteAgent(s) == Begin(s, "read")

(* get_agent_config: a missing row and every failure are None. *)
ReadConfig(s) ==
    /\ At(s, "read")
    /\ \/ \E id \in rows : op' = [op EXCEPT ![s].pc = "unmake", ![s].id = id] /\ flash' = flash
       \/ Raise(s)
    /\ UNCHANGED <<isVars, apiVars, avail, alone>>

(* As if an identity that is gone already ended the removal. *)
DeleteIdentityStrict(s) ==
    /\ At(s, "unmake")
    /\ \/ /\ op[s].id \in agents
          /\ agents' = agents \ {op[s].id}
          /\ Continue(s, "unsave") \/ Raise(s)
       \/ /\ op[s].id \notin agents /\ UNCHANGED agents
          /\ Redirect(s, "removed")
    /\ UNCHANGED <<made, lateIds, apiVars, avail, alone>>

(* The identity is deleted, or was already gone (404), or its deletion     *)
(* raises after it was carried out.                                        *)
DeleteIdentity(s) ==
    /\ At(s, "unmake")
    /\ agents' = agents \ {op[s].id}
    /\ Continue(s, "unsave") \/ Raise(s)
    /\ UNCHANGED <<made, lateIds, apiVars, avail, alone>>

(* As if the removal were begun again. *)
DeleteIdentityRetried(s) ==
    /\ At(s, "unmake")
    /\ Continue(s, "read")
    /\ UNCHANGED <<isVars, apiVars, avail, alone>>

(* No token or a refusal, which is passed over; or an exception, with      *)
(* WSO2 IS still at work or not.                                           *)
DeleteIdentityFails(s) ==
    /\ At(s, "unmake")
    /\ \/ /\ op' = [op EXCEPT ![s].pc = "unsave", ![s].ok = FALSE]
          /\ UNCHANGED <<flash, lateIds>>
       \/ Raise(s) /\ lateIds' \in {lateIds, lateIds \cup {op[s].id}}
    /\ UNCHANGED <<made, agents, apiVars, avail, alone>>

(* A deletion nobody waits for is carried out, or fails. *)
LateIdentity(id) ==
    /\ id \in lateIds
    /\ lateIds' = lateIds \ {id}
    /\ agents' \in {agents, agents \ {id}}
    /\ UNCHANGED <<made, apiVars, avail, flash, op, alone>>

(* delete_agent_config, whose result is not looked at: the row is removed, *)
(* or the call fails, or it times out with the API still at work on it.    *)
DeleteConfig(s, out) ==
    /\ At(s, "unsave")
    /\ rows' = IF out = "done" THEN {} ELSE rows
    /\ late' = IF out = "late" THEN late + 1 ELSE late
    /\ late' <= MaxLate
    /\ avail' = [avail EXCEPT ![s] = FALSE]
    /\ flash' = [flash EXCEPT ![s] = [kind |-> "removed", id |-> op[s].id,
                                      ok |-> op[s].ok /\ out = "done"]]
    /\ op' = [op EXCEPT ![s] = NoOp]
    /\ UNCHANGED <<isVars, job, alone>>

(* A removal nobody waits for is carried out, or fails. *)
LateDelete ==
    /\ late > 0
    /\ late' = late - 1
    /\ rows' \in {rows, {}}
    /\ UNCHANGED <<isVars, job, avail, flash, op, alone>>

-----------------------------------------------------------------------------
(* Every page: the message is shown, and the availability is looked up     *)
(* when the session does not have it; whatever goes wrong then is cached   *)
(* as an absent agent.                                                     *)
ShowPage(s) ==
    /\ At(s, "idle")
    /\ flash[s] # NoFlash \/ avail[s] = None
    /\ flash' = [flash EXCEPT ![s] = NoFlash]
    /\ avail' \in IF avail[s] = None THEN {[avail EXCEPT ![s] = v] : v \in {rows # {}, FALSE}}
                  ELSE {avail}
    /\ UNCHANGED <<isVars, apiVars, op, alone>>

Login(s) ==
    /\ At(s, "idle") /\ avail[s] # None
    /\ avail' = [avail EXCEPT ![s] = None]
    /\ flash' = [flash EXCEPT ![s] = NoFlash]
    /\ UNCHANGED <<isVars, apiVars, op, alone>>

HandlerStep(s) ==
    \/ CreateFails(s) \/ CreateAgent(s) \/ AssignRole(s) \/ Saved(s)
    \/ SaveFails(s) \/ ReadConfig(s) \/ DeleteIdentity(s) \/ DeleteIdentityFails(s)
    \/ \E out \in {"done", "failed", "late"} : DeleteConfig(s, out)

Next ==
    \/ \E s \in Sessions : \/ AddAgent(s) \/ DeleteAgent(s) \/ HandlerStep(s)
                           \/ ShowPage(s) \/ Login(s)
    \/ \E id \in Ids : SaveLookup(id) \/ SaveCommit(id) \/ SaveRefused(id) \/ LateIdentity(id)
    \/ LateDelete

Spec == Init /\ [][Next]_vars

(* A handler's calls all have timeouts. *)
FairSpec == Spec /\ \A s \in Sessions : WF_vars(HandlerStep(s))

-----------------------------------------------------------------------------
Told(s) ==
    /\ flash[s].kind = "deployed" =>
          rows = {flash[s].id} /\ flash[s].id \in agents /\ avail[s] = TRUE
    /\ flash[s].kind = "notsaved" => flash[s].id \in agents
    /\ flash[s].kind = "removed" /\ flash[s].ok =>
          rows = {} /\ flash[s].id \notin agents /\ avail[s] = FALSE

(* An administrator nobody interferes with, and whose request finds no     *)
(* call at work that a timeout left behind (the code does not protect it   *)
(* from one: a removal that timed out may remove the row of the agent      *)
(* deployed after it), can rely on the message: after                      *)
(* "deployed" the configuration names the agent just made, which exists,   *)
(* and the session shows the chat as available; "config save failed" is    *)
(* about an identity that exists; after a removal whose calls all          *)
(* succeeded neither row nor identity is left and the chat is offline.     *)
(* Whatever earlier requests left half done: a row whose agent is gone, an *)
(* identity whose row was overwritten, a save or a removal that came late, *)
(* a wrongly cached availability.                                          *)
ToldIsSo == \A s \in alone : Told(s)

(* The check-then-insert saves of overlapping requests leave at most one   *)
(* configuration.                                                          *)
OneConfig == Cardinality(rows) <= 1

(* Every deployment and every removal is answered. *)
OperationsEnd == \A s \in Sessions : ~At(s, "idle") ~> At(s, "idle")
-----------------------------------------------------------------------------
(* The inductive invariant behind the safety properties.                   *)

(* A session's request names an identity that was made, and a message is   *)
(* not there while a request is in progress.                               *)
SessionOK(s) ==
    /\ op[s].pc \in {"roles", "saving", "unmake", "unsave"} => op[s].id \in 1..made
    /\ ~At(s, "idle") => flash[s] = NoFlash

(* What a session nobody interferes with has got to: only its own save can *)
(* be at work, and no call once it is told of a success.                   *)
AloneOK(s) ==
    /\ \A other \in Sessions \ {s} : At(other, "idle")
    /\ ~At(s, "idle") => late = 0 /\ \A id \in Ids : AtWork(id) => At(s, "saving") /\ id = op[s].id
    /\ op[s].pc \in {"roles", "saving"} => op[s].id \in agents \ lateIds
    /\ flash[s].kind \in {"deployed", "notsaved"} => flash[s].id \notin lateIds
    /\ At(s, "saving") /\ job[op[s].id] = "saved" => rows = {op[s].id}
    /\ At(s, "unsave") /\ op[s].ok => op[s].id \notin agents
    /\ flash[s].kind = "deployed" \/ (flash[s].kind = "removed" /\ flash[s].ok) =>
          late = 0 /\ \A id \in Ids : ~AtWork(id)
    /\ Told(s)

Inv ==
    /\ TypeOK
    /\ \A id \in Ids : job[id] # "none" => id \in 1..made
    /\ \A i, j \in rows : i = j
    /\ \A s \in Sessions : SessionOK(s)
    /\ \A s \in alone : AloneOK(s)
=============================================================================

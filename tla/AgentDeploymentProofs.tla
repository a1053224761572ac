------------------------ MODULE AgentDeploymentProofs ------------------------
(***************************************************************************)
(* Proofs about AgentDeployment for any number of sessions, identities and *)
(* calls that are still at work after a timeout.                           *)
(***************************************************************************)
EXTENDS AgentDeployment, FiniteSetTheorems, TLAPS

(* The saves at the Business API are of identities that were made, and     *)
(* there is one row at most.                                               *)
ApiOK ==
    /\ \A id \in Ids : job[id] # "none" => id \in 1..made
    /\ \A i, j \in rows : i = j

(* Identities made are among those there can be. *)
LEMMA Made ==
  ASSUME TypeOK, NEW id \in 1..made
  PROVE  id \in Ids /\ id <= made
BY AgentsAssumption DEF TypeOK, Ids

(* While a session's request is in progress, no other session is           *)
(* undisturbed.                                                            *)
LEMMA BusyAlone ==
  ASSUME Inv, NEW s \in Sessions, ~At(s, "idle")
  PROVE  alone \subseteq {s}
BY DEF Inv, AloneOK

(* What a step of a request in progress has to show of its session alone.  *)
LEMMA BusyStep ==
  ASSUME Inv, NEW s \in Sessions, ~At(s, "idle"),
         TypeOK', ApiOK', made <= made', alone' = alone,
         \A z \in Sessions \ {s} : op'[z] = op[z] /\ flash'[z] = flash[z],
         SessionOK(s)',
         AloneOK(s) /\ (\A z \in Sessions \ {s} : At(z, "idle"))' => AloneOK(s)'
  PROVE  Inv'
<1>1. ASSUME NEW z \in Sessions PROVE SessionOK(z)'
  <2>1. CASE z = s
    BY <2>1
  <2>2. CASE z # s
    BY <2>2 DEF Inv, TypeOK, SessionOK, At
  <2>3. QED
    BY <2>1, <2>2
<1>2. ASSUME NEW z \in alone PROVE AloneOK(z)'
  <2>1. z = s
    BY BusyAlone
  <2>2. AloneOK(s)
    BY <2>1 DEF Inv
  <2>3. (\A y \in Sessions \ {s} : At(y, "idle"))'
    BY <2>2 DEF AloneOK, At
  <2>4. QED
    BY <2>1, <2>2, <2>3
<1>3. QED
  BY <1>1, <1>2 DEF Inv, ApiOK

(* What a step of a server on a call has to show.                          *)
LEMMA ServerStep ==
  ASSUME Inv, TypeOK', ApiOK', UNCHANGED <<made, avail, flash, op, alone>>,
         \A z \in alone : AloneOK(z) => AloneOK(z)'
  PROVE  Inv'
<1>1. ASSUME NEW z \in Sessions PROVE SessionOK(z)'
  BY DEF Inv, SessionOK, At
<1>2. QED
  BY <1>1 DEF Inv, ApiOK

(* The ways a handler goes on.                                             *)
LEMMA Raised ==
  ASSUME TypeOK, NEW s \in Sessions, Raise(s)
  PROVE  /\ op' \in [Sessions -> Operations] /\ op'[s] = NoOp /\ flash' = flash
         /\ \A z \in Sessions \ {s} : op'[z] = op[z]
<1>1. NoOp \in Operations
  BY DEF NoOp, Operations
<1>2. QED
  BY <1>1 DEF TypeOK, Raise

LEMMA Continued ==
  ASSUME TypeOK, NEW s \in Sessions,
         NEW pc \in {"create", "roles", "saving", "read", "unmake", "unsave"},
         NEW id \in Ids \cup {None}, NEW ok \in BOOLEAN,
         op' = [op EXCEPT ![s].pc = pc, ![s].id = id, ![s].ok = ok]
  PROVE  /\ op' \in [Sessions -> Operations]
         /\ op'[s].pc = pc /\ op'[s].id = id /\ op'[s].ok = ok
         /\ \A z \in Sessions \ {s} : op'[z] = op[z]
<1> DEFINE q == [op[s] EXCEPT !.pc = pc, !.id = id, !.ok = ok]
<1>1. q \in Operations /\ q.pc = pc /\ q.id = id /\ q.ok = ok
  BY DEF TypeOK, Operations
<1>2. op' = [op EXCEPT ![s] = q]
  BY DEF TypeOK, Operations
<1>3. QED
  BY <1>1, <1>2 DEF TypeOK

LEMMA WentOn ==
  ASSUME TypeOK, NEW s \in Sessions,
         NEW pc \in {"create", "roles", "saving", "read", "unmake", "unsave"}, Goto(s, pc)
  PROVE  /\ op' \in [Sessions -> Operations]
         /\ op'[s].pc = pc /\ op'[s].id = op[s].id /\ op'[s].ok = op[s].ok
         /\ \A z \in Sessions \ {s} : op'[z] = op[z]
<1> DEFINE q == [op[s] EXCEPT !.pc = pc]
<1>1. q \in Operations /\ q.pc = pc /\ q.id = op[s].id /\ q.ok = op[s].ok
  BY DEF TypeOK, Operations
<1>2. op' = [op EXCEPT ![s] = q]
  BY DEF TypeOK, Operations, Goto
<1>3. QED
  BY <1>1, <1>2 DEF TypeOK

LEMMA Redirected ==
  ASSUME TypeOK, NEW s \in Sessions,
         NEW kind \in {"deployed", "notsaved", "removed"}, NEW ok \in BOOLEAN,
         op' = [op EXCEPT ![s] = NoOp],
         flash' = [flash EXCEPT ![s] = [kind |-> kind, id |-> op[s].id, ok |-> ok]]
  PROVE  /\ op' \in [Sessions -> Operations] /\ op'[s] = NoOp
         /\ flash' \in [Sessions -> Flashes]
         /\ flash'[s].kind = kind /\ flash'[s].id = op[s].id /\ flash'[s].ok = ok
         /\ \A z \in Sessions \ {s} : op'[z] = op[z] /\ flash'[z] = flash[z]
<1>1. NoOp \in Operations
  BY DEF NoOp, Operations
<1>2. [kind |-> kind, id |-> op[s].id, ok |-> ok] \in Flashes
  BY DEF TypeOK, Operations, Flashes
<1>3. QED
  BY <1>1, <1>2 DEF TypeOK

-----------------------------------------------------------------------------
(* add_agent *)

(* No identity is made. *)
LEMMA CreateFailsStep ==
  ASSUME Inv, NEW s \in Sessions, CreateFails(s)
  PROVE  Inv'
<1>1. TypeOK /\ ApiOK /\ SessionOK(s) /\ ~At(s, "idle")
  BY DEF Inv, ApiOK, CreateFails, At
<1>2. /\ op' \in [Sessions -> Operations] /\ op'[s] = NoOp /\ flash' = flash
      /\ \A z \in Sessions \ {s} : op'[z] = op[z]
      /\ UNCHANGED <<isVars, apiVars, avail, alone>>
  BY <1>1, Raised DEF CreateFails
<1>3. TypeOK' /\ ApiOK' /\ made <= made'
  BY <1>1, <1>2, AgentsAssumption DEF TypeOK, ApiOK, isVars, apiVars
<1>4. SessionOK(s)'
  BY <1>2 DEF SessionOK, At, NoOp
<1>5. AloneOK(s) /\ (\A z \in Sessions \ {s} : At(z, "idle"))' => AloneOK(s)'
  BY <1>1, <1>2 DEF AloneOK, SessionOK, Told, At, AtWork, NoOp, NoFlash, isVars, apiVars
<1>6. QED
  BY <1>1, <1>2, <1>3, <1>4, <1>5, BusyStep

(* An identity is made, and no deletion of it can be at work. *)
LEMMA CreateAgentStep ==
  ASSUME Inv, NEW s \in Sessions, CreateAgent(s)
  PROVE  Inv'
<1>1. TypeOK /\ ApiOK /\ SessionOK(s) /\ At(s, "create") /\ ~At(s, "idle")
  BY DEF Inv, ApiOK, CreateAgent, At
<1>2. made \in Nat /\ made + 1 \in Ids /\ lateIds \subseteq 1..made
  BY <1>1, AgentsAssumption DEF TypeOK, CreateAgent, Ids
<1>3. /\ op' \in [Sessions -> Operations] /\ flash' = flash
      /\ \/ op'[s] = NoOp
         \/ op'[s].pc = "roles" /\ op'[s].id = made + 1
      /\ \A z \in Sessions \ {s} : op'[z] = op[z]
  <2>1. CASE Raise(s)
    BY <1>1, <2>1, Raised
  <2>2. CASE op' = [op EXCEPT ![s].pc = "roles", ![s].id = made + 1] /\ flash' = flash
    <3>1. op' = [op EXCEPT ![s].pc = "roles", ![s].id = made + 1, ![s].ok = op[s].ok]
          /\ op[s].ok \in BOOLEAN
      BY <1>1, <2>2 DEF TypeOK, Operations
    <3>2. /\ op' \in [Sessions -> Operations]
          /\ op'[s].pc = "roles" /\ op'[s].id = made + 1
          /\ \A z \in Sessions \ {s} : op'[z] = op[z]
      <4>1. "roles" \in {"create", "roles", "saving", "read", "unmake", "unsave"}
            /\ made + 1 \in Ids \cup {None}
        BY <1>2
      <4>2. QED
        BY <1>1, <3>1, <4>1, Continued
    <3>3. QED
      BY <2>2, <3>2
  <2>3. QED
    BY <2>1, <2>2 DEF CreateAgent
<1>4. /\ made' = made + 1 /\ agents' = agents \cup {made + 1}
      /\ UNCHANGED <<lateIds, apiVars, avail, alone>>
  BY DEF CreateAgent
<1>5. TypeOK' /\ ApiOK' /\ made <= made'
  <2>1. made' \in 0..MaxAgents /\ 1..made \subseteq 1..made' /\ made + 1 \in 1..made'
    BY <1>1, <1>2, <1>4, AgentsAssumption DEF TypeOK, CreateAgent
  <2>2. TypeOK'
    BY <1>1, <1>3, <1>4, <2>1 DEF TypeOK, apiVars
  <2>3. QED
    BY <1>1, <1>2, <1>4, <2>1, <2>2 DEF ApiOK, apiVars
<1>6. SessionOK(s)'
  BY <1>1, <1>2, <1>3, <1>4 DEF SessionOK, At, NoOp
<1>7. AloneOK(s) /\ (\A z \in Sessions \ {s} : At(z, "idle"))' => AloneOK(s)'
  <2>1. flash'[s] = NoFlash /\ made + 1 \notin lateIds
    BY <1>1, <1>2, <1>3 DEF SessionOK
  <2>2. QED
    BY <1>1, <1>3, <1>4, <2>1 DEF AloneOK, Told, At, AtWork, NoOp, NoFlash, apiVars
<1>8. QED
  BY <1>1, <1>3, <1>4, <1>5, <1>6, <1>7, BusyStep

(* Its role is assigned or not, and the save is sent. *)
LEMMA AssignRoleStep ==
  ASSUME Inv, NEW s \in Sessions, AssignRole(s)
  PROVE  Inv'
<1>1. TypeOK /\ ApiOK /\ SessionOK(s) /\ At(s, "roles") /\ ~At(s, "idle")
  BY DEF Inv, ApiOK, AssignRole, At
<1>2. op[s].id \in 1..made /\ op[s].id \in Ids /\ made <= made
  BY <1>1, Made DEF SessionOK, TypeOK, At
<1>3. /\ op' \in [Sessions -> Operations] /\ flash' = flash
      /\ \/ op'[s] = NoOp /\ job' = job
         \/ /\ op'[s].pc = "saving" /\ op'[s].id = op[s].id
            /\ job' = [job EXCEPT ![op[s].id] = "sent"]
      /\ \A z \in Sessions \ {s} : op'[z] = op[z]
  BY <1>1, Raised, WentOn DEF AssignRole, Continue
<1>4. UNCHANGED <<isVars, rows, late, avail, alone>>
  BY DEF AssignRole
<1>5. job' \in [Ids -> Jobs] /\ \A id \in Ids : job'[id] = job[id] \/ id = op[s].id
  BY <1>1, <1>2, <1>3 DEF TypeOK, Jobs
<1>6. TypeOK' /\ ApiOK' /\ made <= made'
  BY <1>1, <1>2, <1>3, <1>4, <1>5 DEF TypeOK, ApiOK, isVars
<1>7. SessionOK(s)'
  BY <1>1, <1>2, <1>3, <1>4 DEF SessionOK, At, NoOp, isVars
<1>8. AloneOK(s) /\ (\A z \in Sessions \ {s} : At(z, "idle"))' => AloneOK(s)'
  <2> SUFFICES ASSUME AloneOK(s), (\A z \in Sessions \ {s} : At(z, "idle"))'
               PROVE  AloneOK(s)'
    OBVIOUS
  <2>1. flash'[s] = NoFlash /\ late' = 0 /\ op[s].id \in agents \ lateIds
    BY <1>1, <1>3, <1>4 DEF SessionOK, AloneOK, At
  <2>2. \A id \in Ids : ~AtWork(id)
    BY <1>1 DEF AloneOK, At
  <2>3. CASE op'[s] = NoOp
    BY <1>4, <2>1, <2>3 DEF AloneOK, Told, At, NoOp, NoFlash, isVars
  <2>4. CASE op'[s].pc = "saving" /\ op'[s].id = op[s].id /\ job' = [job EXCEPT ![op[s].id] = "sent"]
    <3>1. job'[op[s].id] = "sent" /\ \A id \in Ids : AtWork(id)' => id = op[s].id
      BY <1>1, <1>2, <1>5, <2>2, <2>4 DEF AtWork, TypeOK
    <3>2. QED
      BY <1>4, <2>1, <2>4, <3>1 DEF AloneOK, Told, At, NoFlash, isVars
  <2>5. QED
    BY <1>3, <2>3, <2>4
<1>9. QED
  BY <1>1, <1>3, <1>4, <1>6, <1>7, <1>8, BusyStep

(* The portal learns that the row was written. *)
LEMMA SavedStep ==
  ASSUME Inv, NEW s \in Sessions, Saved(s)
  PROVE  Inv'
<1>1. /\ TypeOK /\ ApiOK /\ SessionOK(s) /\ At(s, "saving") /\ ~At(s, "idle")
      /\ job[op[s].id] = "saved"
  BY DEF Inv, ApiOK, Saved, At
<1>2. /\ op' \in [Sessions -> Operations] /\ op'[s] = NoOp
      /\ flash' \in [Sessions -> Flashes]
      /\ flash'[s].kind = "deployed" /\ flash'[s].id = op[s].id
      /\ \A z \in Sessions \ {s} : op'[z] = op[z] /\ flash'[z] = flash[z]
  <2>1. "deployed" \in {"deployed", "notsaved", "removed"} /\ op[s].ok \in BOOLEAN
    BY <1>1 DEF TypeOK, Operations
  <2>2. QED
    BY <1>1, <2>1, Redirected DEF Saved, Redirect
<1>3. /\ UNCHANGED <<isVars, apiVars, alone>>
      /\ avail' \in [Sessions -> BOOLEAN \cup {None}] /\ avail'[s] = TRUE
  BY <1>1 DEF Saved, TypeOK
<1>4. TypeOK' /\ ApiOK' /\ made <= made'
  BY <1>1, <1>2, <1>3, AgentsAssumption DEF TypeOK, ApiOK, isVars, apiVars
<1>5. SessionOK(s)'
  BY <1>2 DEF SessionOK, At, NoOp
<1>6. AloneOK(s) /\ (\A z \in Sessions \ {s} : At(z, "idle"))' => AloneOK(s)'
  <2> SUFFICES ASSUME AloneOK(s), (\A z \in Sessions \ {s} : At(z, "idle"))'
               PROVE  AloneOK(s)'
    OBVIOUS
  <2>1. late = 0 /\ \A id \in Ids : ~AtWork(id)
    BY <1>1 DEF AloneOK, AtWork, At
  <2>2. rows = {op[s].id} /\ op[s].id \in agents \ lateIds
    BY <1>1 DEF AloneOK, At
  <2>3. Told(s)'
    BY <1>2, <1>3, <2>2 DEF Told, isVars, apiVars
  <2>4. QED
    BY <1>2, <1>3, <2>1, <2>2, <2>3 DEF AloneOK, AtWork, At, NoOp, isVars, apiVars
<1>7. QED
  BY <1>1, <1>2, <1>3, <1>4, <1>5, <1>6, BusyStep

(* The portal takes the save for failed. *)
LEMMA SaveFailsStep ==
  ASSUME Inv, NEW s \in Sessions, SaveFails(s)
  PROVE  Inv'
<1>1. TypeOK /\ ApiOK /\ SessionOK(s) /\ At(s, "saving") /\ ~At(s, "idle")
  BY DEF Inv, ApiOK, SaveFails, At
<1>2. /\ op' \in [Sessions -> Operations] /\ op'[s] = NoOp
      /\ flash' \in [Sessions -> Flashes]
      /\ flash'[s].kind = "notsaved" /\ flash'[s].id = op[s].id
      /\ \A z \in Sessions \ {s} : op'[z] = op[z] /\ flash'[z] = flash[z]
  <2>1. "notsaved" \in {"deployed", "notsaved", "removed"} /\ op[s].ok \in BOOLEAN
    BY <1>1 DEF TypeOK, Operations
  <2>2. QED
    BY <1>1, <2>1, Redirected DEF SaveFails, Redirect
<1>3. UNCHANGED <<isVars, apiVars, avail, alone>>
  BY DEF SaveFails
<1>4. TypeOK' /\ ApiOK' /\ made <= made'
  BY <1>1, <1>2, <1>3, AgentsAssumption DEF TypeOK, ApiOK, isVars, apiVars
<1>5. SessionOK(s)'
  BY <1>2 DEF SessionOK, At, NoOp
<1>6. AloneOK(s) /\ (\A z \in Sessions \ {s} : At(z, "idle"))' => AloneOK(s)'
  BY <1>1, <1>2, <1>3 DEF AloneOK, Told, At, NoOp, isVars, apiVars
<1>7. QED
  BY <1>1, <1>2, <1>3, <1>4, <1>5, <1>6, BusyStep

-----------------------------------------------------------------------------
(* The Business API on a save. *)

(* While a call is at work, an undisturbed session waits for it or has     *)
(* been told nothing that it could undo.                                   *)
LEMMA Unpromised ==
  ASSUME NEW z, AloneOK(z), NEW id \in Ids, AtWork(id)
  PROVE  /\ At(z, "idle") \/ (At(z, "saving") /\ op[z].id = id)
         /\ flash[z].kind # "deployed" /\ ~(flash[z].kind = "removed" /\ flash[z].ok)
BY DEF AloneOK

(* It looks for the organization's row, or the save is refused. *)
LEMMA SaveUnwrittenStep ==
  ASSUME Inv, NEW id \in Ids, SaveLookup(id) \/ SaveRefused(id)
  PROVE  Inv'
<1>1. TypeOK /\ ApiOK /\ AtWork(id)
  BY DEF Inv, ApiOK, AtWork, SaveLookup, SaveRefused
<1>2. UNCHANGED <<isVars, rows, late, avail, flash, op, alone>>
  BY DEF SaveLookup, SaveRefused
<1>3. /\ job' \in [Ids -> Jobs] /\ job'[id] \in {"insert", "update", "failed"}
      /\ \A i \in Ids \ {id} : job'[i] = job[i]
  BY <1>1 DEF SaveLookup, SaveRefused, TypeOK, Jobs
<1>4. TypeOK' /\ ApiOK'
  BY <1>1, <1>2, <1>3 DEF TypeOK, ApiOK, AtWork, isVars
<1>5. ASSUME NEW z \in alone, AloneOK(z) PROVE AloneOK(z)'
  <2>1. /\ At(z, "idle") \/ (At(z, "saving") /\ op[z].id = id)
        /\ flash[z].kind # "deployed" /\ ~(flash[z].kind = "removed" /\ flash[z].ok)
    BY <1>1, <1>5, Unpromised
  <2>2. \A i \in Ids : AtWork(i)' => AtWork(i)
    BY <1>1, <1>3 DEF AtWork
  <2>3. QED
    BY <1>2, <1>3, <1>5, <2>1, <2>2 DEF AloneOK, Told, At, isVars
<1>6. QED
  BY <1>2, <1>4, <1>5, ServerStep DEF isVars

(* It writes the row. *)
LEMMA SaveCommitStep ==
  ASSUME Inv, NEW id \in Ids, SaveCommit(id)
  PROVE  Inv'
<1>1. TypeOK /\ ApiOK /\ AtWork(id) /\ id \in 1..made
  BY DEF Inv, ApiOK, AtWork, SaveCommit
<1>2. UNCHANGED <<isVars, late, avail, flash, op, alone>>
  BY DEF SaveCommit
<1>3. /\ job' \in [Ids -> Jobs]
      /\ \/ job'[id] = "saved" /\ rows' = {id}
         \/ job'[id] = "failed" /\ rows' = rows
      /\ \A i \in Ids \ {id} : job'[i] = job[i]
  BY <1>1 DEF SaveCommit, TypeOK, Jobs
<1>4. TypeOK' /\ ApiOK'
  BY <1>1, <1>2, <1>3 DEF TypeOK, ApiOK, AtWork, isVars
<1>5. ASSUME NEW z \in alone, AloneOK(z) PROVE AloneOK(z)'
  <2>1. /\ At(z, "idle") \/ (At(z, "saving") /\ op[z].id = id)
        /\ flash[z].kind # "deployed" /\ ~(flash[z].kind = "removed" /\ flash[z].ok)
    BY <1>1, <1>5, Unpromised
  <2>2. \A i \in Ids : AtWork(i)' => AtWork(i)
    BY <1>1, <1>3 DEF AtWork
  <2>3. QED
    BY <1>2, <1>3, <1>5, <2>1, <2>2 DEF AloneOK, Told, At, isVars
<1>6. QED
  BY <1>2, <1>4, <1>5, ServerStep DEF isVars

-----------------------------------------------------------------------------
(* delete_agent *)

(* A removal reads the configuration. *)
LEMMA ReadConfigStep ==
  ASSUME Inv, NEW s \in Sessions, ReadConfig(s)
  PROVE  Inv'
<1>1. TypeOK /\ ApiOK /\ SessionOK(s) /\ At(s, "read") /\ ~At(s, "idle")
  BY DEF Inv, ApiOK, ReadConfig, At
<1>2. /\ op' \in [Sessions -> Operations] /\ flash' = flash
      /\ \/ op'[s] = NoOp
         \/ op'[s].pc = "unmake" /\ op'[s].id \in rows
      /\ \A z \in Sessions \ {s} : op'[z] = op[z]
  <2>1. CASE Raise(s)
    BY <1>1, <2>1, Raised
  <2>2. ASSUME NEW id \in rows, op' = [op EXCEPT ![s].pc = "unmake", ![s].id = id]
        PROVE  /\ op' \in [Sessions -> Operations] /\ op'[s].pc = "unmake" /\ op'[s].id = id
               /\ \A z \in Sessions \ {s} : op'[z] = op[z]
    <3>1. op' = [op EXCEPT ![s].pc = "unmake", ![s].id = id, ![s].ok = op[s].ok]
          /\ op[s].ok \in BOOLEAN
      BY <1>1, <2>2 DEF TypeOK, Operations
    <3>2. id \in Ids \cup {None}
      BY <1>1, Made DEF TypeOK
    <3>3. "unmake" \in {"create", "roles", "saving", "read", "unmake", "unsave"}
      OBVIOUS
    <3>4. QED
      BY <1>1, <3>1, <3>2, <3>3, Continued
  <2>3. QED
    BY <2>1, <2>2 DEF ReadConfig
<1>3. UNCHANGED <<isVars, apiVars, avail, alone>>
  BY DEF ReadConfig
<1>4. TypeOK' /\ ApiOK' /\ made <= made'
  BY <1>1, <1>2, <1>3, AgentsAssumption DEF TypeOK, ApiOK, isVars, apiVars
<1>5. SessionOK(s)'
  <2>1. op'[s] = NoOp \/ op'[s].id \in 1..made'
    BY <1>1, <1>2, <1>3 DEF TypeOK, isVars
  <2>2. QED
    BY <1>1, <1>2, <1>3, <2>1 DEF SessionOK, At, NoOp
<1>6. AloneOK(s) /\ (\A z \in Sessions \ {s} : At(z, "idle"))' => AloneOK(s)'
  BY <1>1, <1>2, <1>3 DEF AloneOK, SessionOK, Told, At, AtWork, NoOp, NoFlash, isVars, apiVars
<1>7. QED
  BY <1>1, <1>2, <1>3, <1>4, <1>5, <1>6, BusyStep

(* The identity is deleted, or was already gone. *)
LEMMA DeleteIdentityStep ==
  ASSUME Inv, NEW s \in Sessions, DeleteIdentity(s)
  PROVE  Inv'
<1>1. TypeOK /\ ApiOK /\ SessionOK(s) /\ At(s, "unmake") /\ ~At(s, "idle")
  BY DEF Inv, ApiOK, DeleteIdentity, At
<1>2. /\ op' \in [Sessions -> Operations] /\ flash' = flash
      /\ \/ op'[s] = NoOp
         \/ op'[s].pc = "unsave" /\ op'[s].id = op[s].id
      /\ \A z \in Sessions \ {s} : op'[z] = op[z]
  BY <1>1, Raised, WentOn DEF DeleteIdentity, Continue
<1>3. UNCHANGED <<made, lateIds, apiVars, avail, alone>> /\ agents' = agents \ {op[s].id}
  BY DEF DeleteIdentity
<1>4. TypeOK' /\ ApiOK' /\ made <= made'
  <2>1. made \in Nat /\ made' = made
    BY <1>1, <1>3 DEF TypeOK
  <2>2. agents' \subseteq 1..made /\ lateIds' \subseteq 1..made
    BY <1>1, <1>2, <1>3 DEF TypeOK
  <2>3. TypeOK'
    BY <1>1, <1>2, <1>3, <2>1, <2>2 DEF TypeOK, apiVars
  <2>4. QED
    BY <1>1, <1>3, <2>1, <2>3 DEF ApiOK, apiVars
<1>5. SessionOK(s)'
  BY <1>1, <1>2, <1>3 DEF SessionOK, At, NoOp
<1>6. AloneOK(s) /\ (\A z \in Sessions \ {s} : At(z, "idle"))' => AloneOK(s)'
  BY <1>1, <1>2, <1>3 DEF AloneOK, SessionOK, Told, At, AtWork, NoOp, NoFlash, apiVars
<1>7. QED
  BY <1>1, <1>2, <1>3, <1>4, <1>5, <1>6, BusyStep

(* Its deletion is refused, or raises with WSO2 IS still at work or not. *)
LEMMA DeleteIdentityFailsStep ==
  ASSUME Inv, NEW s \in Sessions, DeleteIdentityFails(s)
  PROVE  Inv'
<1>1. TypeOK /\ ApiOK /\ SessionOK(s) /\ At(s, "unmake") /\ ~At(s, "idle") /\ op[s].id \in 1..made
  BY DEF Inv, ApiOK, DeleteIdentityFails, At, SessionOK
<1>2. /\ op' \in [Sessions -> Operations] /\ flash' = flash
      /\ \/ op'[s] = NoOp /\ lateIds' \subseteq lateIds \cup {op[s].id}
         \/ /\ op'[s].pc = "unsave" /\ op'[s].id = op[s].id /\ op'[s].ok = FALSE
            /\ lateIds' = lateIds
      /\ \A z \in Sessions \ {s} : op'[z] = op[z]
  <2>1. CASE Raise(s) /\ lateIds' \in {lateIds, lateIds \cup {op[s].id}}
    BY <1>1, <2>1, Raised
  <2>2. CASE op' = [op EXCEPT ![s].pc = "unsave", ![s].ok = FALSE] /\ UNCHANGED <<flash, lateIds>>
    <3>1. op' = [op EXCEPT ![s].pc = "unsave", ![s].id = op[s].id, ![s].ok = FALSE]
          /\ op[s].id \in Ids \cup {None}
      BY <1>1, <2>2 DEF TypeOK, Operations
    <3>2. "unsave" \in {"create", "roles", "saving", "read", "unmake", "unsave"}
          /\ FALSE \in BOOLEAN
      OBVIOUS
    <3>3. /\ op' \in [Sessions -> Operations]
          /\ op'[s].pc = "unsave" /\ op'[s].id = op[s].id /\ op'[s].ok = FALSE
          /\ \A z \in Sessions \ {s} : op'[z] = op[z]
      BY <1>1, <3>1, <3>2, Continued
    <3>4. QED
      BY <2>2, <3>3
  <2>3. QED
    BY <2>1, <2>2 DEF DeleteIdentityFails
<1>3. UNCHANGED <<made, agents, apiVars, avail, alone>>
  BY DEF DeleteIdentityFails
<1>4. TypeOK' /\ ApiOK' /\ made <= made'
  <2>1. made \in Nat /\ made' = made
    BY <1>1, <1>3 DEF TypeOK
  <2>2. agents' \subseteq 1..made /\ lateIds' \subseteq 1..made
    BY <1>1, <1>2, <1>3 DEF TypeOK
  <2>3. TypeOK'
    BY <1>1, <1>2, <1>3, <2>1, <2>2 DEF TypeOK, apiVars
  <2>4. QED
    BY <1>1, <1>3, <2>1, <2>3 DEF ApiOK, apiVars
<1>5. SessionOK(s)'
  BY <1>1, <1>2, <1>3 DEF SessionOK, At, NoOp
<1>6. AloneOK(s) /\ (\A z \in Sessions \ {s} : At(z, "idle"))' => AloneOK(s)'
  BY <1>1, <1>2, <1>3 DEF AloneOK, SessionOK, Told, At, AtWork, NoOp, NoFlash, apiVars
<1>7. QED
  BY <1>1, <1>2, <1>3, <1>4, <1>5, <1>6, BusyStep

(* A deletion nobody waits for is of no identity an undisturbed session    *)
(* was told exists.                                                        *)
LEMMA LateIdentityStep ==
  ASSUME Inv, NEW id \in Ids, LateIdentity(id)
  PROVE  Inv'
<1>1. TypeOK /\ ApiOK /\ id \in lateIds
  BY DEF Inv, ApiOK, LateIdentity
<1>2. /\ UNCHANGED <<made, apiVars, avail, flash, op, alone>>
      /\ lateIds' = lateIds \ {id} /\ agents' \subseteq agents /\ agents \ {id} \subseteq agents'
  BY DEF LateIdentity
<1>3. TypeOK' /\ ApiOK'
  BY <1>1, <1>2 DEF TypeOK, ApiOK, apiVars
<1>4. ASSUME NEW z \in alone, AloneOK(z) PROVE AloneOK(z)'
  BY <1>1, <1>2, <1>4 DEF AloneOK, Told, At, AtWork, apiVars
<1>5. QED
  BY <1>2, <1>3, <1>4, ServerStep DEF apiVars

(* The row is removed, or not, or will be. *)
LEMMA DeleteConfigStep ==
  ASSUME Inv, NEW s \in Sessions, NEW out \in {"done", "failed", "late"}, DeleteConfig(s, out)
  PROVE  Inv'
<1>1. TypeOK /\ ApiOK /\ SessionOK(s) /\ At(s, "unsave") /\ ~At(s, "idle")
  BY DEF Inv, ApiOK, DeleteConfig, At
<1>2. /\ op' \in [Sessions -> Operations] /\ op'[s] = NoOp
      /\ flash' \in [Sessions -> Flashes]
      /\ flash'[s].kind = "removed" /\ flash'[s].id = op[s].id
      /\ flash'[s].ok = (op[s].ok /\ out = "done")
      /\ \A z \in Sessions \ {s} : op'[z] = op[z] /\ flash'[z] = flash[z]
  <2>1. "removed" \in {"deployed", "notsaved", "removed"} /\ (op[s].ok /\ out = "done") \in BOOLEAN
    OBVIOUS
  <2>2. QED
    BY <1>1, <2>1, Redirected DEF DeleteConfig
<1>3. /\ UNCHANGED <<isVars, job, alone>>
      /\ avail' \in [Sessions -> BOOLEAN \cup {None}] /\ avail'[s] = FALSE
      /\ rows' \subseteq rows /\ (out = "done" => rows' = {} /\ late' = late)
      /\ late' \in 0..MaxLate
  BY <1>1, AgentsAssumption DEF DeleteConfig, TypeOK
<1>4. TypeOK' /\ ApiOK' /\ made <= made'
  BY <1>1, <1>2, <1>3, AgentsAssumption DEF TypeOK, ApiOK, isVars
<1>5. SessionOK(s)'
  BY <1>2 DEF SessionOK, At, NoOp
<1>6. AloneOK(s) /\ (\A z \in Sessions \ {s} : At(z, "idle"))' => AloneOK(s)'
  <2> SUFFICES ASSUME AloneOK(s), (\A z \in Sessions \ {s} : At(z, "idle"))'
               PROVE  AloneOK(s)'
    OBVIOUS
  <2>1. late = 0 /\ (\A id \in Ids : ~AtWork(id)) /\ (op[s].ok => op[s].id \notin agents)
    BY <1>1 DEF AloneOK, At
  <2>2. Told(s)'
    BY <1>2, <1>3, <2>1 DEF Told, isVars
  <2>3. flash'[s].ok => late' = 0
    BY <1>2, <1>3, <2>1
  <2>4. \A id \in Ids : ~AtWork(id)'
    BY <1>3, <2>1 DEF AtWork
  <2>5. QED
    BY <1>2, <2>2, <2>3, <2>4 DEF AloneOK, At, NoOp
<1>7. QED
  BY <1>1, <1>2, <1>3, <1>4, <1>5, <1>6, BusyStep

(* A removal nobody waits for meets no promise. *)
LEMMA LateDeleteStep ==
  ASSUME Inv, LateDelete
  PROVE  Inv'
<1>1. TypeOK /\ ApiOK /\ late # 0
  BY DEF Inv, ApiOK, LateDelete
<1>2. /\ UNCHANGED <<isVars, job, avail, flash, op, alone>>
      /\ late' \in 0..MaxLate /\ rows' \subseteq rows
  BY <1>1, AgentsAssumption DEF LateDelete, TypeOK
<1>3. TypeOK' /\ ApiOK'
  BY <1>1, <1>2 DEF TypeOK, ApiOK, isVars
<1>4. ASSUME NEW z \in alone, AloneOK(z) PROVE AloneOK(z)'
  <2>1. /\ At(z, "idle")
        /\ flash[z].kind # "deployed" /\ ~(flash[z].kind = "removed" /\ flash[z].ok)
    BY <1>1, <1>4 DEF AloneOK
  <2>2. QED
    BY <1>2, <1>4, <2>1 DEF AloneOK, Told, At, isVars
<1>5. QED
  BY <1>2, <1>3, <1>4, ServerStep DEF isVars

-----------------------------------------------------------------------------
(* A request begins: its session is undisturbed from now on, if nothing    *)
(* else is going on, and no other session is any longer.                   *)
LEMMA BeginStep ==
  ASSUME Inv, NEW s \in Sessions, NEW pc \in {"create", "read"}, Begin(s, pc)
  PROVE  Inv'
<1>1. TypeOK /\ ApiOK /\ SessionOK(s)
  BY DEF Inv, ApiOK
<1>2. /\ op' \in [Sessions -> Operations] /\ op'[s].pc = pc
      /\ \A z \in Sessions \ {s} : op'[z] = op[z]
  BY <1>1, WentOn DEF Begin
<1>3. /\ UNCHANGED <<isVars, apiVars, avail, flash>> /\ flash[s] = NoFlash
      /\ alone' \subseteq {s} /\ (alone' # {} => Undisturbed(s))
  BY DEF Begin
<1>4. TypeOK' /\ ApiOK'
  BY <1>1, <1>2, <1>3 DEF TypeOK, ApiOK, isVars, apiVars
<1>5. ASSUME NEW z \in Sessions PROVE SessionOK(z)'
  <2>1. SessionOK(z)
    BY DEF Inv
  <2>2. QED
    BY <1>2, <1>3, <2>1 DEF SessionOK, At, isVars
<1>6. ASSUME NEW z \in alone' PROVE AloneOK(z)'
  <2>1. z = s /\ Undisturbed(s)
    BY <1>3
  <2>2. \A other \in Sessions \ {s} : At(other, "idle")'
    BY <1>2, <2>1 DEF Undisturbed, At
  <2>3. late' = 0 /\ (\A id \in Ids : ~AtWork(id)') /\ flash'[s].kind = "none"
    BY <1>3, <2>1 DEF Undisturbed, AtWork, NoFlash, apiVars
  <2>4. QED
    BY <1>2, <2>1, <2>2, <2>3 DEF AloneOK, Told, At
<1>7. QED
  BY <1>4, <1>5, <1>6 DEF Inv, ApiOK

(* A page is shown, or the session begins anew: the message is gone. *)
LEMMA IdleStep ==
  ASSUME Inv, NEW s \in Sessions, ShowPage(s) \/ Login(s)
  PROVE  Inv'
<1>1. TypeOK /\ ApiOK
  BY DEF Inv, ApiOK
<1>2. /\ avail' \in [Sessions -> BOOLEAN \cup {None}]
      /\ \A z \in Sessions \ {s} : avail'[z] = avail[z]
  <2>1. ASSUME NEW v \in BOOLEAN \cup {None}, avail' = [avail EXCEPT ![s] = v]
        PROVE  /\ avail' \in [Sessions -> BOOLEAN \cup {None}]
               /\ \A z \in Sessions \ {s} : avail'[z] = avail[z]
    BY <1>1, <2>1 DEF TypeOK
  <2>2. CASE ShowPage(s)
    <3>1. avail' = avail \/ \E v \in {rows # {}, FALSE} : avail' = [avail EXCEPT ![s] = v]
      BY <2>2 DEF ShowPage
    <3>2. \A v \in {rows # {}, FALSE} : v \in BOOLEAN \cup {None}
      OBVIOUS
    <3>3. QED
      BY <1>1, <2>1, <3>1, <3>2 DEF TypeOK
  <2>3. CASE Login(s)
    BY <2>1, <2>3 DEF Login
  <2>4. QED
    BY <2>2, <2>3
<1>3. /\ flash' \in [Sessions -> Flashes] /\ flash'[s] = NoFlash
      /\ \A z \in Sessions \ {s} : flash'[z] = flash[z]
      /\ UNCHANGED <<isVars, apiVars, op, alone>>
  <2>1. NoFlash \in Flashes
    BY DEF NoFlash, Flashes
  <2>2. QED
    BY <1>1, <2>1 DEF TypeOK, ShowPage, Login
<1>4. TypeOK' /\ ApiOK'
  BY <1>1, <1>2, <1>3 DEF TypeOK, ApiOK, isVars, apiVars
<1>5. ASSUME NEW z \in Sessions PROVE SessionOK(z)'
  <2>1. SessionOK(z)
    BY DEF Inv
  <2>2. QED
    BY <1>3, <2>1 DEF SessionOK, At, isVars
<1>6. ASSUME NEW z \in alone PROVE AloneOK(z)'
  <2>1. AloneOK(z) /\ z \in Sessions
    BY <1>1 DEF Inv, TypeOK
  <2>2. CASE z = s
    BY <1>3, <2>1, <2>2 DEF AloneOK, Told, At, AtWork, NoFlash, isVars, apiVars
  <2>3. CASE z # s
    BY <1>2, <1>3, <2>1, <2>3 DEF AloneOK, Told, At, AtWork, isVars, apiVars
  <2>4. QED
    BY <2>2, <2>3
<1>7. QED
  BY <1>3, <1>4, <1>5, <1>6 DEF Inv, ApiOK

-----------------------------------------------------------------------------
LEMMA InitInv == Init => Inv
<1> SUFFICES ASSUME Init PROVE Inv
  OBVIOUS
<1>1. NoOp \in Operations /\ "none" \in Jobs /\ NoFlash \in Flashes
  BY DEF NoOp, Operations, Jobs, NoFlash, Flashes
<1>2. TypeOK
  BY <1>1, AgentsAssumption DEF Init, TypeOK
<1>3. ASSUME NEW s \in Sessions PROVE SessionOK(s)
  BY DEF Init, SessionOK, At, NoOp
<1>4. QED
  BY <1>2, <1>3 DEF Inv, Init

LEMMA StepInv == Inv /\ [Next]_vars => Inv'
<1> SUFFICES ASSUME Inv, [Next]_vars PROVE Inv'
  OBVIOUS
<1>1. ASSUME NEW s \in Sessions, HandlerStep(s) PROVE Inv'
  BY <1>1, CreateFailsStep, CreateAgentStep, AssignRoleStep, SavedStep, SaveFailsStep,
     ReadConfigStep, DeleteIdentityStep, DeleteIdentityFailsStep, DeleteConfigStep
     DEF HandlerStep
<1>2. ASSUME NEW s \in Sessions, AddAgent(s) \/ DeleteAgent(s) PROVE Inv'
  <2>1. "create" \in {"create", "read"} /\ "read" \in {"create", "read"}
    OBVIOUS
  <2>2. QED
    BY <1>2, <2>1, BeginStep DEF AddAgent, DeleteAgent
<1>3. ASSUME NEW s \in Sessions, ShowPage(s) \/ Login(s) PROVE Inv'
  BY <1>3, IdleStep
<1>4. ASSUME NEW id \in Ids,
             SaveLookup(id) \/ SaveCommit(id) \/ SaveRefused(id) \/ LateIdentity(id)
      PROVE  Inv'
  BY <1>4, SaveUnwrittenStep, SaveCommitStep, LateIdentityStep
<1>5. CASE LateDelete
  BY <1>5, LateDeleteStep
<1>6. CASE UNCHANGED vars
  <2>1. UNCHANGED <<made, agents, lateIds, rows, job, late, avail, flash, op, alone>>
    BY <1>6 DEF vars, isVars, apiVars
  <2>2. QED
    BY <2>1 DEF Inv, TypeOK, SessionOK, AloneOK, Told, At, AtWork
<1>7. QED
  BY <1>1, <1>2, <1>3, <1>4, <1>5, <1>6 DEF Next

LEMMA Invariance == Spec => []Inv
BY InitInv, StepInv, PTL DEF Spec

(* Every variable keeps its type. *)
THEOREM TypeCorrect == Spec => []TypeOK
<1>1. Inv => TypeOK
  BY DEF Inv
<1>2. QED
  BY <1>1, Invariance, PTL

(* Whatever earlier requests left half done, and however long a call that  *)
(* timed out goes on, for any number of sessions: the message of add_agent *)
(* or delete_agent that an undisturbed administrator sees is so.           *)
THEOREM ToldIsSoAlways == Spec => []ToldIsSo
<1>1. Inv => ToldIsSo
  BY DEF Inv, AloneOK, ToldIsSo
<1>2. QED
  BY <1>1, Invariance, PTL

(* However many saves of create_agent_config overlap, the organization has *)
(* at most one configuration row.                                          *)
THEOREM OneConfigAlways == Spec => []OneConfig
<1>1. Inv => OneConfig
  <2> SUFFICES ASSUME Inv PROVE Cardinality(rows) <= 1
    BY DEF OneConfig
  <2>1. CASE rows = {}
    BY <2>1, FS_EmptySet
  <2>2. CASE rows # {}
    <3>1. PICK id \in rows : rows = {id}
      BY <2>2 DEF Inv
    <3>2. Cardinality({id}) = 1
      BY FS_Singleton
    <3>3. QED
      BY <3>1, <3>2
  <2>3. QED
    BY <2>1, <2>2
<1>2. QED
  BY <1>1, Invariance, PTL
=============================================================================

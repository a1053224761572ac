----------------------------- MODULE Subscription -----------------------------
(***************************************************************************)
(* Plans and the roles they bring: the portal's signup and upgrade         *)
(* handlers, sequences of calls to WSO2 IS and the Business API without    *)
(* compensation, and the gate of the enterprise features that reads what   *)
(* they left behind.  One organization with its administrator, who may use *)
(* several browser sessions at once.                                       *)
(*                                                                         *)
(* A call of WSO2 IS is carried out or refused; or it raises (a timeout),  *)
(* which ends the handler with a 500 whether or not it was carried out.  A *)
(* call of the Business API never raises: api_request makes it a 503, and  *)
(* a save that took too long may be committed after that.  A browser       *)
(* session makes one request at a time.                                    *)
(***************************************************************************)
EXTENDS Naturals, Sequences, FiniteSets, Functions

CONSTANTS
    Sessions,    \* browser sessions
    Plans,       \* plans on offer
    MaxPolls,    \* attempts of poll_for_role_id
    MaxLate,     \* bound: plans whose save is outstanding at once
    GroupNames,  \* names of roles that groups of the administrator's may bear
    None

ASSUME PlansAssumption == Plans \subseteq {"basic", "business", "enterprise"}
ASSUME PollsAssumption == MaxPolls \in Nat \ {0}
ASSUME BoundsAssumption == MaxLate \in Nat
ASSUME NoneAssumption == None \notin {"basic", "business", "enterprise"}

VARIABLES
    org,        \* WSO2 IS: the organization exists
    member,     \* WSO2 IS: its administrator exists
    shared,     \* WSO2 IS: application roles shared with it
    visible,    \* WSO2 IS: shared roles that have reached it
    held,       \* WSO2 IS: roles of the administrator
    groups,     \* names of roles that a group of the administrator's bears, or has borne
    plan,       \* Business API: the organization's plan row
    late,       \* plans whose save the portal gave up on and the Business API may still commit
    missed,     \* history: roles that were skipped or refused and not assigned since
    selected,   \* plans asked for at signup or by an upgrade
    sess,       \* sess[s]: the portal's session
    op          \* op[s]: the request in progress in session s

isVars == <<org, member, shared, visible, held, groups>>
vars == <<isVars, plan, late, missed, selected, sess, op>>

-----------------------------------------------------------------------------
(* webapp/plans.py, webapp/utils/roles.py *)

BaseRoles == <<"teamspace-admin", "teamspace-user">>

PlanRoles ==
    [basic |-> <<>>,
     business |-> <<"basic-branding-editor">>,
     enterprise |-> <<"basic-branding-editor", "advanced-branding-editor", "idp-manager">>]

Roles == Range(BaseRoles) \cup Range(PlanRoles["enterprise"])
DefaultPlan == "basic"

(* The enterprise features and the role each asks for. *)
RequiredRole == [idp |-> "idp-manager", agents |-> "teamspace-admin"]

ASSUME GroupsAssumption == GroupNames \subseteq Range(RequiredRole)

(* A call that changes WSO2 IS: carried out, refused, or carried out and   *)
(* the answer lost.  The loss raises and ends the handler.                 *)
Outcomes == {"done", "refused", "lost"}

Steps == {"idle", "org", "share", "switch", "user", "poll", "assign", "save",
          "success", "notsaved", "allowed"}

NoOp == [pc |-> "idle", kind |-> "none", plan |-> None, todo |-> <<>>, polls |-> 0]
NoSession == [user |-> FALSE, roles |-> {}, plan |-> None]

Operation == [pc : Steps, kind : {"none", "signup", "upgrade", "idp", "agents"},
              plan : Plans \cup {None}, todo : Seq(Roles), polls : 0..(MaxPolls - 1)]
SessionType == [user : BOOLEAN, roles : SUBSET Roles, plan : Plans \cup {DefaultPlan, None}]

TypeOK ==
    /\ org \in BOOLEAN /\ member \in BOOLEAN
    /\ shared \subseteq Roles /\ visible \subseteq shared /\ held \subseteq visible
    /\ groups \subseteq GroupNames
    /\ plan \in Plans \cup {None} /\ late \subseteq Plans
    /\ missed \subseteq Roles /\ selected \subseteq Plans
    /\ sess \in [Sessions -> SessionType]
    /\ op \in [Sessions -> Operation]

Init ==
    /\ org = FALSE /\ member = FALSE
    /\ shared = {} /\ visible = {} /\ held = {}
    /\ groups = {}
    /\ plan = None /\ late = {} /\ missed = {} /\ selected = {}
    /\ sess = [s \in Sessions |-> NoSession]
    /\ op = [s \in Sessions |-> NoOp]

At(s, pc) == op[s].pc = pc
Goto(s, pc) == op' = [op EXCEPT ![s].pc = pc]
Redirect(s) == op' = [op EXCEPT ![s] = NoOp]

-----------------------------------------------------------------------------
(* The two handlers start: register() after its validation and             *)
(* upgrade() for an administrator; each needs a root token first.          *)

Register(s, p) ==
    /\ At(s, "idle")
    /\ selected' = selected \cup {p}
    /\ op' = [op EXCEPT ![s] = [NoOp EXCEPT !.pc = "org", !.kind = "signup", !.plan = p]]
    /\ UNCHANGED <<isVars, plan, late, missed, sess>>

(* Organization handles are unique: a second creation is refused. *)
CreateOrg(s, out) ==
    /\ At(s, "org") /\ ~org /\ out # "refused"
    /\ org' = TRUE /\ shared' = shared \cup Range(BaseRoles)
    /\ IF out = "lost" THEN Redirect(s) ELSE Goto(s, "share")
    /\ UNCHANGED <<member, visible, held, groups, plan, late, missed, selected, sess>>

Upgrade(s, p) ==
    /\ At(s, "idle")
    /\ sess[s].user /\ "teamspace-admin" \in sess[s].roles
    /\ selected' = selected \cup {p}
    /\ op' = [op EXCEPT ![s] = [NoOp EXCEPT !.pc = "share", !.kind = "upgrade", !.plan = p]]
    /\ UNCHANGED <<isVars, plan, late, missed, sess>>

(* share_roles_with_org: nothing to do for a plan without roles, and a     *)
(* refusal is only logged.                                                 *)
ShareRoles(s, out) ==
    /\ At(s, "share")
    /\ shared' = IF out = "refused" THEN shared ELSE shared \cup Range(PlanRoles[op[s].plan])
    /\ IF out = "lost" THEN Redirect(s) ELSE Goto(s, "switch")
    /\ UNCHANGED <<org, member, visible, held, groups, plan, late, missed, selected, sess>>

SwitchOrg(s) ==
    /\ At(s, "switch")
    /\ IF op[s].kind = "signup"
       THEN Goto(s, "user")
       ELSE op' = [op EXCEPT ![s].pc = "poll", ![s].todo = PlanRoles[op[s].plan]]
    /\ UNCHANGED <<isVars, plan, late, missed, selected, sess>>

CreateUserPlanRoles(s, out) ==   \* mutant: only the roles of the plan, as upgrade() has it
    /\ At(s, "user") /\ ~member /\ out # "refused"
    /\ member' = TRUE
    /\ IF out = "lost"
       THEN Redirect(s)
       ELSE op' = [op EXCEPT ![s].pc = "poll", ![s].todo = PlanRoles[op[s].plan]]
    /\ UNCHANGED <<org, shared, visible, held, groups, plan, late, missed, selected, sess>>

CreateUser(s, out) ==
    /\ At(s, "user") /\ ~member /\ out # "refused"
    /\ member' = TRUE
    /\ IF out = "lost"
       THEN Redirect(s)
       ELSE op' = [op EXCEPT ![s].pc = "poll", ![s].todo = BaseRoles \o PlanRoles[op[s].plan]]
    /\ UNCHANGED <<org, shared, visible, held, groups, plan, late, missed, selected, sess>>

(* A step that ends the handler: a call raises before it is carried out,   *)
(* or WSO2 IS refuses the organization, the switch or the user.            *)
Abandon(s) ==
    /\ op[s].pc \in {"org", "share", "switch", "user", "poll", "assign"}
    /\ Redirect(s)
    /\ UNCHANGED <<isVars, plan, late, missed, selected, sess>>

-----------------------------------------------------------------------------
(* assign_roles_to_user and poll_for_role_id *)

NextRole(s) ==
    op' = [op EXCEPT ![s].pc = "poll", ![s].todo = Tail(op[s].todo), ![s].polls = 0]

RoleFoundShared(s) ==   \* mutant: finds a role that has not reached the organization
    /\ At(s, "poll") /\ op[s].todo # <<>>
    /\ Head(op[s].todo) \in shared
    /\ Goto(s, "assign")
    /\ UNCHANGED <<isVars, plan, late, missed, selected, sess>>

RoleFound(s) ==
    /\ At(s, "poll") /\ op[s].todo # <<>>
    /\ Head(op[s].todo) \in visible
    /\ Goto(s, "assign")
    /\ UNCHANGED <<isVars, plan, late, missed, selected, sess>>

RoleMissingForever(s) ==   \* mutant: no limit on the attempts
    /\ At(s, "poll") /\ op[s].todo # <<>>
    /\ op' = [op EXCEPT ![s].polls = (op[s].polls + 1) % MaxPolls]
    /\ UNCHANGED <<isVars, plan, late, missed, selected, sess>>

(* Not there yet, or the query failed: wait, or skip the role. *)
RoleMissing(s) ==
    /\ At(s, "poll") /\ op[s].todo # <<>>
    /\ IF op[s].polls + 1 < MaxPolls
       THEN op' = [op EXCEPT ![s].polls = op[s].polls + 1] /\ missed' = missed
       ELSE NextRole(s) /\ missed' = missed \cup ({Head(op[s].todo)} \ held)
    /\ UNCHANGED <<isVars, plan, late, selected, sess>>

AssignRole(s, out) ==
    /\ At(s, "assign")
    /\ held' = IF out = "refused" THEN held ELSE held \cup {Head(op[s].todo)}
    /\ IF out = "lost" THEN Redirect(s) ELSE NextRole(s)
    /\ missed' = (missed \cup {Head(op[s].todo)}) \ held'
    /\ UNCHANGED <<org, member, shared, visible, groups, plan, late, selected, sess>>

RolesDone(s) ==
    /\ At(s, "poll") /\ op[s].todo = <<>>
    /\ Goto(s, "save")
    /\ UNCHANGED <<isVars, plan, late, missed, selected, sess>>

-----------------------------------------------------------------------------
(* save_organization_plan, and what the user is told. *)

SavePlan(s) ==
    /\ At(s, "save")
    /\ plan' = op[s].plan
    /\ Goto(s, "success")
    /\ sess' = IF op[s].kind = "upgrade" THEN [sess EXCEPT ![s].plan = op[s].plan] ELSE sess
    /\ UNCHANGED <<isVars, late, missed, selected>>

(* Refused or unreachable; or the answer took too long: the plan was, or   *)
(* will be, saved.                                                         *)
SaveFails(s, slow) ==
    /\ At(s, "save")
    /\ slow => Cardinality(late) < MaxLate
    /\ late' = IF slow THEN late \cup {op[s].plan} ELSE late
    /\ Goto(s, "notsaved")
    /\ UNCHANGED <<isVars, plan, missed, selected, sess>>

LateSave(p) ==
    /\ p \in late
    /\ plan' = p /\ late' = late \ {p}
    /\ UNCHANGED <<isVars, missed, selected, sess, op>>

Told(s) ==
    /\ op[s].pc \in {"success", "notsaved", "allowed"}
    /\ Redirect(s)
    /\ UNCHANGED <<isVars, plan, late, missed, selected, sess>>

-----------------------------------------------------------------------------
(* Sessions: handle_callback takes the roles from the tokens (the model    *)
(* keeps those a gate asks for) and leaves the cached plan alone; logout   *)
(* clears the session.                                                     *)

(* roles and application_roles name what was assigned; groups counts too,  *)
(* prefix stripped: a group that bears a role's name passes for the role.  *)
ExtractRoles(inGroups) == (held \cup inGroups) \cap Range(RequiredRole)

Login(s, inGroups) ==
    /\ member /\ At(s, "idle")
    /\ sess' = [sess EXCEPT ![s].user = TRUE, ![s].roles = ExtractRoles(inGroups)]
    /\ UNCHANGED <<isVars, plan, late, missed, selected, op>>

Logout(s) ==
    /\ sess[s].user /\ At(s, "idle")
    /\ sess' = [sess EXCEPT ![s] = NoSession]
    /\ UNCHANGED <<isVars, plan, late, missed, selected, op>>

(* The plan row, or basic when there is none. *)
StoredPlan == IF plan = None THEN DefaultPlan ELSE plan

(* get_organization_plan answers basic when the Business API cannot be     *)
(* reached, resolve_plan_for_gating that the plan is unknown.              *)
GetOrganizationPlan(reachable) == IF reachable THEN StoredPlan ELSE DefaultPlan
ResolvePlanForGating(reachable) == IF reachable THEN StoredPlan ELSE None

(* _populate_org_plan_in_session *)
PopulatePlan(s, reachable) ==
    /\ sess[s].user /\ sess[s].plan = None /\ At(s, "idle")
    /\ sess' = [sess EXCEPT ![s].plan = GetOrganizationPlan(reachable)]
    /\ UNCHANGED <<isVars, plan, late, missed, selected, op>>

Allowed(s, f) ==
    /\ op' = [op EXCEPT ![s] = [NoOp EXCEPT !.pc = "allowed", !.kind = f]]
    /\ UNCHANGED <<isVars, plan, late, missed, selected, sess>>

CheckPlanOrRole(s, f, reachable) ==   \* mutant: the plan is asked only when the role is missing
    /\ At(s, "idle") /\ sess[s].user
    /\ \/ RequiredRole[f] \in sess[s].roles
       \/ ResolvePlanForGating(reachable) \in {"enterprise", None}
    /\ Allowed(s, f)

(* check_idp_access and _check_plan_and_role, when they let the request    *)
(* through: an unknown plan leaves the decision to the role.               *)
CheckPlanAndRole(s, f, reachable) ==
    /\ At(s, "idle") /\ sess[s].user
    /\ ResolvePlanForGating(reachable) \in {"enterprise", None}
    /\ RequiredRole[f] \in sess[s].roles
    /\ Allowed(s, f)

-----------------------------------------------------------------------------
(* Sharing is asynchronous: a shared role reaches the organization later.  *)
RoleArrives(r) ==
    /\ r \in shared \ visible
    /\ visible' = visible \cup {r}
    /\ UNCHANGED <<org, member, shared, held, groups, plan, late, missed, selected, sess, op>>

(* The administrator is put into a group that bears the name of a role; he *)
(* may be taken out of it again before he logs in.                         *)
GroupAssigned(n) ==
    /\ member /\ n \notin groups
    /\ groups' = groups \cup {n}
    /\ UNCHANGED <<org, member, shared, visible, held, plan, late, missed, selected, sess, op>>

OpStep(s) ==
    \/ \E out \in Outcomes : \/ CreateOrg(s, out) \/ ShareRoles(s, out)
                             \/ CreateUser(s, out) \/ AssignRole(s, out)
    \/ \E slow \in BOOLEAN : SaveFails(s, slow)
    \/ SwitchOrg(s) \/ Abandon(s)
    \/ RoleFound(s) \/ RoleMissing(s) \/ RolesDone(s)
    \/ SavePlan(s) \/ Told(s)

Next ==
    \/ \E s \in Sessions : OpStep(s) \/ Logout(s)
    \/ \E s \in Sessions : \E inGroups \in SUBSET groups : Login(s, inGroups)
    \/ \E s \in Sessions, p \in Plans : Register(s, p) \/ Upgrade(s, p)
    \/ \E s \in Sessions, b \in BOOLEAN : PopulatePlan(s, b)
    \/ \E s \in Sessions, f \in DOMAIN RequiredRole, b \in BOOLEAN : CheckPlanAndRole(s, f, b)
    \/ \E r \in Roles : RoleArrives(r)
    \/ \E n \in GroupNames : GroupAssigned(n)
    \/ \E p \in Plans : LateSave(p)

Spec == Init /\ [][Next]_vars

(* A request's thread runs, and every call it makes has a timeout. *)
FairSpec == Spec /\ \A s \in Sessions : WF_vars(OpStep(s))

-----------------------------------------------------------------------------
(* Properties *)

(* Nobody reaches the identity-provider features of an organization that   *)
(* never asked for the enterprise plan, even while the Business API is     *)
(* down and the role alone decides: the signup or upgrade to enterprise is *)
(* what hands out idp-manager.  Only a group of that name also passes.     *)
IdpAccessWasSelected ==
    \A s \in Sessions : At(s, "allowed") /\ op[s].kind = "idp" =>
        "enterprise" \in selected \/ "idp-manager" \in groups

(* The roles that a plan and its administrator need were assigned, or      *)
(* signup and upgrade went on without them.                                *)
Settled(p) ==
    /\ org /\ member
    /\ Range(PlanRoles[p]) \subseteq held \cup missed
    /\ "teamspace-admin" \in held \cup missed \cup groups

(* A plan is recorded only for an organization whose account has every     *)
(* role of that plan and may change it, however a signup or an upgrade is  *)
(* cut short, repeated or overtaken by a late save; except for a role that *)
(* was skipped because it did not arrive in time, or refused.              *)
PlanRolesSettled == plan # None => Settled(plan)

(* What a request in progress knows: its plan was asked for, and how far   *)
(* the organization exists.                                                *)
OperationOK(s) ==
    /\ op[s].kind \in {"signup", "upgrade"} => op[s].plan \in selected
    /\ op[s].pc \in Steps \ {"idle", "allowed"} => op[s].kind \in {"signup", "upgrade"}
    /\ op[s].pc \in {"share", "switch", "user"} => org
    /\ op[s].pc \in {"poll", "assign", "save"} \/ op[s].kind = "upgrade" => org /\ member
    /\ op[s].pc = "assign" => op[s].todo # <<>> /\ Head(op[s].todo) \in visible
    /\ op[s].kind = "upgrade" => "teamspace-admin" \in held \cup missed \cup groups
    /\ op[s].pc \in {"poll", "assign", "save"} =>
         LET settled == held \cup missed \cup Range(op[s].todo)
         IN  /\ Range(PlanRoles[op[s].plan]) \subseteq settled
             /\ "teamspace-admin" \in settled \cup groups
    /\ op[s].pc = "save" => op[s].todo = <<>>

(* A session belongs to the administrator and knows no role but his and    *)
(* those his groups bear the name of.                                      *)
SessionOK(s) ==
    /\ sess[s].user => org /\ member
    /\ sess[s].roles \subseteq held \cup groups

(* A plan whose save is outstanding may be recorded at any moment. *)
LateSettled == \A p \in late : Settled(p)

(* The inductive invariant behind the two properties above. *)
Inv ==
    /\ TypeOK
    /\ member => org
    /\ "idp-manager" \in shared => "enterprise" \in selected
    /\ \A s \in Sessions : OperationOK(s) /\ SessionOK(s)
    /\ IdpAccessWasSelected /\ PlanRolesSettled /\ LateSettled

(* Signup and upgrade end: polling for roles that never arrive gives up.   *)
OperationsEnd == \A s \in Sessions : op[s].pc # "idle" ~> op[s].pc = "idle"

=============================================================================

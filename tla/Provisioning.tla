---------------------------- MODULE Provisioning ----------------------------
(***************************************************************************)
(* The setup scripts, run by an operator and run again after a crash, a    *)
(* failure or a change of the configuration: setup_is.py on the primary    *)
(* WSO2 IS, where organizations sign up and upgrade meanwhile, and         *)
(* setup_idp_server.py on the federated one, where the console changes the *)
(* group.  Each is a sequence of steps that bring one resource about:      *)
(*   lookup  GET, and POST when nothing is found: what exists is kept      *)
(*   upsert  POST, and PUT or PATCH after a 409                            *)
(*   create  POST, and GET when it is refused: what exists is kept         *)
(*   write   PUT or PATCH                                                  *)
(* Independent resources of one kind (APIs, roles, users) are one here.    *)
(*                                                                         *)
(* A call is carried out or refused, and the script may die after it (an   *)
(* exception, the operator) whether or not it was carried out.  Sharing    *)
(* with all organizations is only accepted (202): WSO2 IS carries it out   *)
(* on each organization later, in any order, and may fail to.              *)
(***************************************************************************)
EXTENDS Naturals, Sequences, FiniteSets

CONSTANTS
    Orgs,      \* organizations that may sign up
    MaxRuns,   \* runs of the script
    MaxOutstanding,  \* sharings accepted and not carried out, per organization
    User,      \* a user the script seeds
    Other      \* a member the console adds to that user's group

ASSUME RunsAssumption == MaxRuns \in Nat
ASSUME OutstandingAssumption == MaxOutstanding \in Nat \ {0}
ASSUME UsersAssumption == User # Other

VARIABLES
    script,     \* the script run here
    res,        \* res[i]: "absent", "old" (another configuration's) or "new"
    orgs,       \* the organizations there are
    orgRoles,   \* the roles shared with each, or that will be when it is there
    sharing,    \* the modes of the share-with-all calls accepted so far
    outstanding,  \* those of them that were not carried out yet, of each organization
    astray,     \* history: where the last of them failed, or an earlier one was still outstanding
    members,    \* members of the group
    run,        \* the run in progress
    runs,       \* number of runs so far
    finished,   \* history: the last run ended with "complete" and all its calls carried out
    added,      \* history: the console added Other
    blind       \* history: a run could not read the group, or Other joined after it had

provisioningVars ==
    <<script, res, orgs, orgRoles, sharing, outstanding, astray, members, run, runs, finished, added, blind>>

-----------------------------------------------------------------------------
Step(item, how, must) == [item |-> item, how |-> how, must |-> must]

(* main of setup_is.py *)
SetupIs ==
    <<Step("tenant", "lookup", TRUE), Step("branding", "upsert", FALSE),
      Step("application", "lookup", TRUE), Step("sharing", "unshare", FALSE),
      Step("claims", "write", FALSE), Step("oidc", "write", FALSE), Step("apiauth", "write", FALSE),
      Step("api", "create", FALSE), Step("authorization", "create", FALSE),
      Step("role", "upsert", FALSE), Step("sharing", "share", FALSE)>>

(* bootstrap_federated_idp *)
SetupIdpServer ==
    <<Step("tenant", "lookup", TRUE), Step("branding", "upsert", FALSE),
      Step("scope", "upsert", FALSE), Step("application", "lookup", TRUE),
      Step("claims", "write", TRUE), Step("oidc", "write", TRUE), Step("user", "lookup", TRUE),
      Step("group", "find", FALSE)>>

ScriptSteps == IF script = "setup_is" THEN SetupIs ELSE SetupIdpServer
Items(steps) == {steps[k].item : k \in DOMAIN steps} \ {"sharing"}
AllItems == Items(SetupIs) \cup Items(SetupIdpServer)

NoRun == [at |-> 0, phase |-> "step", seen |-> {}, again |-> FALSE, clean |-> FALSE]

RunStates ==
    [at : 0..Len(ScriptSteps), phase : {"step", "read", "patch", "verify", "put", "repatch"},
     seen : SUBSET {User, Other}, again : BOOLEAN, clean : BOOLEAN]

ProvisioningTypeOK ==
    /\ script \in {"setup_is", "setup_idp_server"}
    /\ res \in [AllItems -> {"absent", "old", "new"}]
    /\ orgs \subseteq Orgs /\ orgRoles \in [Orgs -> SUBSET {"base", "plan"}]
    /\ sharing \in Seq({"NONE", "SELECTED"})
    /\ outstanding \in [Orgs -> SUBSET DOMAIN sharing] /\ astray \subseteq Orgs
    /\ members \subseteq {User, Other} /\ (members # {} => res["group"] # "absent")
    /\ run \in RunStates
    /\ runs \in 0..MaxRuns
    /\ finished \in BOOLEAN /\ added \in BOOLEAN /\ blind \in BOOLEAN

ProvisioningInit ==
    /\ script \in {"setup_is", "setup_idp_server"}
    /\ res = [i \in AllItems |-> "absent"]
    /\ orgs = {} /\ orgRoles = [o \in Orgs |-> {}] /\ members = {}
    /\ sharing = <<>> /\ outstanding = [o \in Orgs |-> {}] /\ astray = {}
    /\ run = NoRun /\ runs = 0
    /\ finished = FALSE /\ added = FALSE /\ blind = FALSE

Running == run.at # 0
Current == ScriptSteps[run.at]
AtStep(how) == Running /\ run.phase = "step" /\ Current.how = how
Phase(phase) == Running /\ run.phase = phase
Set(item) == res' = [res EXCEPT ![item] = "new"]

(* The script goes on with its next step, or says it is complete. *)
Advance(carried) ==
    IF run.at < Len(ScriptSteps)
    THEN /\ run' = [NoRun EXCEPT !.at = run.at + 1, !.clean = run.clean /\ carried]
         /\ finished' = finished
    ELSE run' = NoRun /\ finished' = (run.clean /\ carried)

(* It exits, raises or is killed. *)
Stop == run' = NoRun /\ finished' = FALSE

GotoPhase(phase, carried) ==
    run' = [run EXCEPT !.phase = phase, !.clean = @ /\ carried] /\ finished' = finished

SharingVars == <<orgs, orgRoles, sharing, outstanding, astray>>
GroupVars == <<members, added, blind>>

-----------------------------------------------------------------------------
Start ==
    /\ ~Running /\ runs < MaxRuns
    /\ run' = [NoRun EXCEPT !.at = 1, !.clean = TRUE]
    /\ runs' = runs + 1 /\ finished' = FALSE
    /\ UNCHANGED <<script, res, SharingVars, GroupVars>>

(* create_tenant, create_application, _bootstrap_users: a lookup that      *)
(* finds nothing, or fails, is followed by the creation, whose failure     *)
(* ends the script.                                                        *)
LookupStep ==
    /\ AtStep("lookup")
    /\ \/ res[Current.item] # "absent" /\ Advance(TRUE) /\ UNCHANGED res
       \/ res[Current.item] = "absent" /\ Set(Current.item) /\ (Advance(TRUE) \/ Stop)
       \/ Stop /\ UNCHANGED res
    /\ UNCHANGED <<script, SharingVars, GroupVars, runs>>

(* As if a 409 were taken for success. *)
UpsertStepSkips ==
    /\ AtStep("upsert")
    /\ IF res[Current.item] = "absent" THEN Set(Current.item) ELSE UNCHANGED res
    /\ Advance(TRUE)
    /\ UNCHANGED <<script, SharingVars, GroupVars, runs>>

(* set_branding, _create_role with _patch_role_permissions, and            *)
(* _bootstrap_groups_scope: POST, or the update after a 409; what goes     *)
(* wrong is only warned about, or not noticed at all.                      *)
UpsertStep ==
    /\ AtStep("upsert")
    /\ \/ Set(Current.item) /\ (Advance(TRUE) \/ Stop)
       \/ UNCHANGED res /\ (Advance(FALSE) \/ Stop)
    /\ UNCHANGED <<script, SharingVars, GroupVars, runs>>

(* _create_api_resource, _get_api_resource_id and _authorize_api: what     *)
(* exists is kept as it is, and without the API there is no authorization. *)
CreateStep ==
    /\ AtStep("create")
    /\ \/ res[Current.item] # "absent" /\ Advance(TRUE) /\ UNCHANGED res
       \/ /\ res[Current.item] = "absent"
          /\ Current.item = "authorization" => res["api"] # "absent"
          /\ Set(Current.item)
          /\ Advance(TRUE) \/ Stop
       \/ UNCHANGED res /\ (Advance(FALSE) \/ Stop)
    /\ UNCHANGED <<script, SharingVars, GroupVars, runs>>

(* update_claims, update_oidc_config, enable_api_based_auth, which warn;   *)
(* _bootstrap_application_claims_and_oidc, which raises.                   *)
WriteStep ==
    /\ AtStep("write")
    /\ \/ Set(Current.item) /\ (Advance(TRUE) \/ Stop)
       \/ UNCHANGED res /\ ((~Current.must /\ Advance(FALSE)) \/ Stop)
    /\ UNCHANGED <<script, SharingVars, GroupVars, runs>>

-----------------------------------------------------------------------------
(* share-with-all, for every organization there is and to come, is        *)
(* accepted.                                                               *)
ShareWithAll(mode) ==
    /\ \A o \in Orgs : Cardinality(outstanding[o]) < MaxOutstanding
    /\ sharing' = Append(sharing, mode)
    /\ outstanding' = [o \in Orgs |-> outstanding[o] \cup {Len(sharing) + 1}]
    /\ astray' = {}
    /\ UNCHANGED <<orgs, orgRoles>>

(* set_initial_sharing *)
Unshare ==
    /\ AtStep("unshare")
    /\ \/ ShareWithAll("NONE") /\ (Advance(TRUE) \/ Stop)
       \/ UNCHANGED SharingVars /\ (Advance(FALSE) \/ Stop)
    /\ UNCHANGED <<script, res, GroupVars, runs>>

(* As if only organizations to come were shared with. *)
ShareFutureOnly ==
    /\ AtStep("share")
    /\ sharing' = Append(sharing, "SELECTED")
    /\ outstanding' = [o \in Orgs |-> outstanding[o] \cup (IF o \in orgs THEN {} ELSE {Len(sharing) + 1})]
    /\ astray' = {}
    /\ Advance(TRUE)
    /\ UNCHANGED <<orgs, orgRoles, script, res, GroupVars, runs>>

(* share_with_roles: teamspace-admin and teamspace-user *)
Share ==
    /\ AtStep("share")
    /\ \/ ShareWithAll("SELECTED") /\ (Advance(TRUE) \/ Stop)
       \/ UNCHANGED SharingVars /\ (Advance(FALSE) \/ Stop)
    /\ UNCHANGED <<script, res, GroupVars, runs>>

SharedRoles(mode) == IF mode = "SELECTED" THEN {"base"} ELSE {}

(* WSO2 IS carries an accepted sharing out on one organization, or fails to. *)
CarryOut(o, n) ==
    /\ outstanding' = [outstanding EXCEPT ![o] = @ \ {n}]
    /\ \E carried \in BOOLEAN :
         /\ orgRoles' = IF carried THEN [orgRoles EXCEPT ![o] = SharedRoles(sharing[n])] ELSE orgRoles
         /\ astray' = IF n = Len(sharing) /\ ~(carried /\ outstanding[o] = {n})
                       THEN astray \cup {o} ELSE astray
    /\ UNCHANGED <<script, res, orgs, sharing, GroupVars, run, runs, finished>>

(* An organization signs up once there is an application to sign up to. *)
SignUp(o) ==
    /\ script = "setup_is" /\ res["application"] # "absent" /\ o \notin orgs
    /\ orgs' = orgs \cup {o}
    /\ UNCHANGED <<script, res, orgRoles, sharing, outstanding, astray, GroupVars, run, runs, finished>>

(* share_roles_with_org adds the roles of a plan to one organization: the  *)
(* moment WSO2 IS carries it out.                                          *)
UpgradePlan(o) ==
    /\ o \in orgs
    /\ orgRoles' = [orgRoles EXCEPT ![o] = @ \cup {"plan"}]
    /\ UNCHANGED <<script, res, orgs, sharing, outstanding, astray, GroupVars, run, runs, finished>>

-----------------------------------------------------------------------------
(* _bootstrap_groups *)

FindGroup ==
    /\ AtStep("find")
    /\ \/ res["group"] # "absent" /\ GotoPhase("read", TRUE) /\ UNCHANGED <<res, members>>
       \/ /\ res["group"] = "absent"
          /\ Set("group") /\ members' = {User}
          /\ Advance(TRUE) \/ Stop
       \/ (Advance(FALSE) \/ Stop) /\ UNCHANGED <<res, members>>
    /\ UNCHANGED <<script, SharingVars, runs, added, blind>>

(* _add_user_to_existing_group: members that cannot be read are none. *)
ReadMembers ==
    /\ Phase("read")
    /\ \/ /\ IF User \in members THEN Advance(TRUE)
             ELSE run' = [run EXCEPT !.phase = "patch", !.seen = members] /\ finished' = finished
          /\ blind' = blind
       \/ GotoPhase("patch", FALSE) /\ blind' = TRUE
       \/ Stop /\ blind' = blind
    /\ UNCHANGED <<script, res, SharingVars, members, added, runs>>

PatchMember ==
    /\ Phase("patch")
    /\ \/ members' = members \cup {User} /\ (GotoPhase("verify", TRUE) \/ Stop)
       \/ /\ members' = members
          /\ run' = [run EXCEPT !.phase = "put", !.again = TRUE, !.clean = FALSE] /\ finished' = finished
       \/ members' = members /\ Stop
    /\ UNCHANGED <<script, res, SharingVars, added, blind, runs>>

VerifyMember ==
    /\ Phase("verify")
    /\ (User \in members /\ Advance(TRUE)) \/ GotoPhase("put", FALSE) \/ Stop
    /\ UNCHANGED <<script, res, SharingVars, GroupVars, runs>>

(* As if the fallback replaced the members by the new one. *)
FallbackMembersNew == {User}

FallbackMembers == run.seen \cup {User}

(* _put_member_fallback, whose failure is warned about *)
PutMembers ==
    /\ Phase("put")
    /\ members' \in {FallbackMembers, members}
    /\ \/ run.again /\ GotoPhase("repatch", TRUE)
       \/ ~run.again /\ Advance(members' = FallbackMembers)
       \/ Stop
    /\ UNCHANGED <<script, res, SharingVars, added, blind, runs>>

PatchAgain ==
    /\ Phase("repatch")
    /\ members' \in {members \cup {User}, members}
    /\ Advance(FALSE) \/ Stop
    /\ UNCHANGED <<script, res, SharingVars, added, blind, runs>>

JoinGroup ==
    /\ script = "setup_idp_server" /\ res["group"] # "absent" /\ ~added
    /\ members' = members \cup {Other} /\ added' = TRUE
    /\ blind' = (blind \/ run.phase \in {"patch", "verify", "put"})
    /\ UNCHANGED <<script, res, SharingVars, run, runs, finished>>

LeaveGroup ==
    /\ User \in members
    /\ members' = members \ {User}
    /\ finished' = FALSE
    /\ UNCHANGED <<script, res, SharingVars, run, runs, added, blind>>

-----------------------------------------------------------------------------
(* The operator changes the environment the scripts read when they start. *)
Reconfigure ==
    /\ ~Running
    /\ res' = [i \in AllItems |-> IF res[i] = "new" THEN "old" ELSE res[i]]
    /\ finished' = FALSE
    /\ UNCHANGED <<script, SharingVars, GroupVars, run, runs>>

ProvisioningNext ==
    \/ Start \/ Reconfigure
    \/ LookupStep \/ UpsertStep \/ CreateStep \/ WriteStep
    \/ Unshare \/ Share \/ \E o \in Orgs : SignUp(o) \/ UpgradePlan(o) \/ \E n \in outstanding[o] : CarryOut(o, n)
    \/ FindGroup \/ ReadMembers \/ PatchMember \/ VerifyMember \/ PutMembers \/ PatchAgain
    \/ JoinGroup \/ LeaveGroup

ProvisioningSpec == ProvisioningInit /\ [][ProvisioningNext]_provisioningVars

-----------------------------------------------------------------------------
(* What the kth step is there for is so. *)
Done(k) ==
    ScriptSteps[k].item # "sharing" =>
        /\ res[ScriptSteps[k].item] # "absent"
        /\ ScriptSteps[k].how \in {"upsert", "write"} => res[ScriptSteps[k].item] = "new"
        /\ ScriptSteps[k].how = "find" => User \in members

(* "Idempotent: safe to run multiple times" (setup_is.py): a run that says *)
(* it is complete and whose calls were all carried out leaves everything   *)
(* there, whatever earlier runs created, left out or died in the middle    *)
(* of; and what the script does not merely create has the configuration of *)
(* this run.                                                               *)
CompleteRunProvisions == finished => \A k \in DOMAIN ScriptSteps : Done(k)

(* The first sharing step takes its roles from every organization, and the *)
(* last gives the base roles back; WSO2 IS does both later, organization   *)
(* by organization.  Once such a run is complete every organization,       *)
(* whenever it signed up, has the base roles or gets them with what is     *)
(* still outstanding, unless that failed there or was carried out before a *)
(* sharing accepted earlier.                                               *)
BaseRolesReturn ==
    finished /\ script = "setup_is" =>
        \A o \in orgs : \/ "base" \in orgRoles[o]
                        \/ \E n \in outstanding[o] : sharing[n] = "SELECTED"
                        \/ o \in astray

(* The fallback that replaces the members of a group loses a member only   *)
(* when the script could not read the group, or had read it before the     *)
(* member joined.                                                          *)
MembersKept == added /\ Other \notin members => blind
-----------------------------------------------------------------------------
(* The inductive invariant behind the safety properties.                   *)

(* How far a run has got whose calls were all carried out. *)
Progress ==
    /\ Running => ~finished
    /\ run.clean => \A k \in DOMAIN ScriptSteps : k < run.at => Done(k)
    /\ run.phase # "step" => Running /\ Current.how = "find" /\ res["group"] # "absent"

(* What a run may write over the members of the group with. *)
SeenMembers ==
    /\ added => res["group"] # "absent"
    /\ run.phase \in {"patch", "verify", "put"} /\ added /\ Other \notin run.seen => blind

(* An organization has what the last sharing gives, or will have. *)
SharingKept ==
    \A o \in Orgs : o \notin astray /\ Len(sharing) \notin outstanding[o] =>
        /\ outstanding[o] = {}
        /\ sharing # <<>> /\ sharing[Len(sharing)] = "SELECTED" => "base" \in orgRoles[o]

EndedShared ==
    finished /\ script = "setup_is" => sharing # <<>> /\ sharing[Len(sharing)] = "SELECTED"

ProvisioningInv ==
    /\ ProvisioningTypeOK /\ Progress /\ SeenMembers /\ SharingKept /\ EndedShared
    /\ CompleteRunProvisions /\ MembersKept
=============================================================================

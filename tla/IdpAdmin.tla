------------------------------ MODULE IdpAdmin ------------------------------
(***************************************************************************)
(* The identity providers and the login flow of an organization, as the    *)
(* portal's administration pages change them in WSO2 IS: add_idp, edit_idp, *)
(* delete_idp and update_login_flow, sequences of calls most of whose      *)
(* results are not looked at, with the read-modify-write of the groups of  *)
(* every role in between.                                                  *)
(*                                                                         *)
(* A call is carried out, or refused (any other status), or it raises      *)
(* (a timeout), carried out or not, which ends the handler with a 500.     *)
(* Names, endpoints, JIT and claims are written and never read by another  *)
(* request, so their calls may only raise here.                            *)
(***************************************************************************)
EXTENDS Naturals, FiniteSets

CONSTANTS
    Sessions,   \* administrators' browser sessions, one request at a time each
    MaxIdps,    \* identity providers made
    MaxRequests, \* requests of the model's run
    Groups,     \* names of external groups
    Roles,      \* the roles teamspace-admin and teamspace-user of the organization
    Secrets,    \* client secrets
    None

ASSUME IdpsAssumption == MaxIdps \in Nat /\ MaxRequests \in Nat
ASSUME SecretsAssumption == None \notin Secrets
ASSUME NoneAssumption == None \notin 0..MaxIdps

VARIABLES
    made,     \* number of identity providers made so far
    idps,     \* the identity providers there are
    secret,   \* secret[i]: ClientSecret of the authenticator, None when empty
    groups,   \* groups[i]: the names in the provider's list of groups
    roles,    \* the roles there are in the organization
    mapped,   \* the groups of the roles: <<role, provider, name>>
    flow,     \* what the login flow offers: providers, LOCAL
    begun,    \* number of requests so far
    op,       \* op[s]: the request in progress; history, op[s].ok: its calls were all
              \* carried out so far and no other session's overlapped
    flash,    \* the last message to a session nobody interfered with
    alone,    \* history: sessions whose last request no other session's overlapped or followed
    before,   \* history: what mapped other providers when that request began
    unread,   \* history: providers whose secret an edit could not read
    last,     \* history: last[i]: the secret last submitted for the provider and written
    lapsed    \* history: providers whose secret an edit in progress does not know, or one
              \* since last[i] was written has not known

isVars == <<made, idps, secret, groups, roles, mapped, flow>>
secretHistory == <<unread, last, lapsed>>
historyVars == <<begun, alone, before, secretHistory>>
vars == <<isVars, op, flash, historyVars>>

-----------------------------------------------------------------------------
LOCAL_IDP == 0   \* {"idp": "LOCAL", "authenticator": "BasicAuthenticator"}
Ids == 1..MaxIdps

(* What a form submits about groups: the provider's, and those checked for *)
(* each role.                                                              *)
Forms == {f \in [groups : SUBSET Groups, checked : [Roles -> SUBSET Groups]] :
             \A r \in Roles : f.checked[r] \subseteq f.groups}
NoForm == [groups |-> {}, checked |-> [r \in Roles |-> {}]]

Pcs == {"idle", "ensure", "create", "props", "auth", "keep", "groups", "roles", "role", "patch",
        "flow", "remove"}

NoOp == [pc |-> "idle", kind |-> "none", idp |-> None, form |-> NoForm, secret |-> None,
         resolved |-> {}, todo |-> {}, role |-> None, current |-> {}, ok |-> FALSE]
NoFlash == [kind |-> "none", idp |-> None, form |-> NoForm, secret |-> None, ok |-> FALSE]

(* Requests in progress, and the messages they end with. *)
Ops == [pc : Pcs, kind : {"none", "add", "edit", "delete"}, idp : Ids \cup {None}, form : Forms,
        secret : Secrets \cup {None}, resolved : SUBSET Groups, todo : SUBSET Roles,
        role : Roles \cup {None}, current : SUBSET (Ids \X Groups), ok : BOOLEAN]
Flashes == [kind : {"none", "created", "updated", "deleted", "kept"}, idp : Ids \cup {None},
            form : Forms, secret : Secrets \cup {None}, ok : BOOLEAN]

TypeOK ==
    /\ begun \in 0..MaxRequests
    /\ made \in 0..MaxIdps /\ idps \subseteq 1..made
    /\ secret \in [Ids -> Secrets \cup {None}]
    /\ groups \in [Ids -> SUBSET Groups]
    /\ roles \subseteq Roles
    /\ mapped \subseteq roles \X (1..made) \X Groups
    /\ flow \subseteq idps \cup {LOCAL_IDP} /\ flow # {}
    /\ op \in [Sessions -> Ops] /\ flash \in Flashes
    /\ alone \subseteq Sessions /\ Cardinality(alone) <= 1
    /\ before \subseteq Roles \X Ids \X Groups /\ unread \subseteq Ids
    /\ last \in [Ids -> Secrets \cup {None}] /\ lapsed \subseteq Ids

Init ==
    /\ begun = 0 /\ made = 0 /\ idps = {}
    /\ secret = [i \in Ids |-> None] /\ groups = [i \in Ids |-> {}]
    /\ roles \in SUBSET Roles   \* sharing may not have brought them yet
    /\ mapped = {} /\ flow = {LOCAL_IDP}
    /\ op = [s \in Sessions |-> NoOp] /\ flash = NoFlash
    /\ alone = {} /\ before = {}
    /\ unread = {} /\ last = secret /\ lapsed = {}

-----------------------------------------------------------------------------
At(s, pc) == op[s].pc = pc
Goto(s, pc) == op' = [op EXCEPT ![s].pc = pc] /\ flash' = flash
PassOver(s, pc) == op' = [op EXCEPT ![s].pc = pc, ![s].ok = FALSE] /\ flash' = flash

Redirect(s, kind, ok) ==
    /\ flash' = IF s \in alone
                THEN [kind |-> kind, idp |-> op[s].idp, form |-> op[s].form,
                      secret |-> op[s].secret, ok |-> op[s].ok /\ ok]
                ELSE flash
    /\ op' = [op EXCEPT ![s] = NoOp]

(* A 500, or a redirect with an error message about a request that did     *)
(* nothing.                                                                *)
Raise(s) == op' = [op EXCEPT ![s] = NoOp] /\ flash' = flash

Others(i) == {m \in mapped : m[2] # i}

Begin(s, kind, pc, i, f, k) ==
    LET undisturbed == \A other \in Sessions : At(other, "idle")
    IN  /\ At(s, "idle") /\ begun < MaxRequests
        /\ begun' = begun + 1
        /\ op' = [t \in Sessions |->
                     IF t # s THEN [op[t] EXCEPT !.ok = FALSE]
                     ELSE [NoOp EXCEPT !.pc = pc, !.kind = kind, !.idp = i, !.form = f, !.secret = k,
                                       !.todo = IF kind = "add" THEN Roles ELSE {}, !.ok = undisturbed]]
        /\ alone' = IF undisturbed THEN {s} ELSE {}
        /\ before' = IF undisturbed THEN Others(i) ELSE {}
        /\ flash' = NoFlash
        /\ UNCHANGED <<isVars, secretHistory>>

-----------------------------------------------------------------------------
(* add_idp *)

AddIdp(s, f, k) == k # None /\ Begin(s, "add", "ensure", None, f, k)

(* A role that is not found, or cannot be looked up, is created; if it is  *)
(* there after all WSO2 IS makes a twin without groups or refuses.         *)
EnsureRole(s, r) ==
    /\ At(s, "ensure") /\ r \in op[s].todo
    /\ roles' \in {roles, roles \cup {r}}
    /\ \/ /\ op' = [op EXCEPT ![s].todo = @ \ {r}, ![s].pc = IF op[s].todo = {r} THEN "create" ELSE @,
                              ![s].ok = @ /\ r \in roles']
          /\ flash' = flash
       \/ Raise(s)
    /\ UNCHANGED <<made, idps, secret, groups, mapped, flow, historyVars>>

(* The provider is made; the PUT of its JIT provisioning may raise. *)
CreateIdp(s) ==
    /\ At(s, "create")
    /\ \/ /\ made < MaxIdps
          /\ made' = made + 1 /\ idps' = idps \cup {made + 1}
          /\ secret' = [secret EXCEPT ![made + 1] = op[s].secret]
          /\ last' = [last EXCEPT ![made + 1] = op[s].secret]
          /\ \/ op' = [op EXCEPT ![s].pc = "groups", ![s].idp = made + 1] /\ flash' = flash
             \/ Raise(s)
       \/ Raise(s) /\ UNCHANGED <<made, idps, secret, last>>
    /\ UNCHANGED <<groups, roles, mapped, flow, begun, alone, before, unread, lapsed>>

-----------------------------------------------------------------------------
(* edit_idp *)

EditIdp(s, i, f, k) == i \in 1..made /\ Begin(s, "edit", "props", i, f, k)

(* As if a blank field were submitted as it is. *)
FetchIdpPropsUnused(s) ==
    /\ At(s, "props")
    /\ Goto(s, IF op[s].secret # None THEN "auth" ELSE "keep")
    /\ UNCHANGED <<isVars, historyVars>>

(* The provider is read, which ends the edit when it fails; then           *)
(* _fetch_idp_props_dict, and the secret: the form's ("auth") or, for a    *)
(* blank field, the one there is ("keep").  A read of the properties that  *)
(* fails gives none.                                                       *)
FetchIdpProps(s) ==
    LET i == op[s].idp
    IN  /\ At(s, "props")
        /\ \/ /\ i \in idps /\ op[s].secret # None
              /\ op' = [op EXCEPT ![s].pc = "auth"]
              /\ UNCHANGED secretHistory
           \/ /\ i \in idps /\ op[s].secret = None
              /\ op' = [op EXCEPT ![s].pc = "keep", ![s].secret = secret[i]]
              /\ UNCHANGED secretHistory
           \/ /\ i \in idps /\ op[s].secret = None
              /\ op' = [op EXCEPT ![s].pc = "keep", ![s].ok = FALSE]
              /\ unread' = unread \cup {i} /\ lapsed' = lapsed \cup {i} /\ last' = last
           \/ op' = [op EXCEPT ![s] = NoOp] /\ UNCHANGED secretHistory
        /\ UNCHANGED <<isVars, flash, begun, alone, before>>

(* An edit that is to put back another secret than the one s submits. *)
Overtaken(s) ==
    \E t \in Sessions : At(t, "keep") /\ op[t].idp = op[s].idp /\ op[t].secret # op[s].secret

(* PATCH of the name, PUT of the authenticator with every property, of the *)
(* JIT provisioning and of the claims.                                     *)
PutAuthenticator(s) ==
    LET i == op[s].idp
    IN  /\ At(s, "auth") \/ At(s, "keep")
        /\ \/ /\ i \in idps
              /\ secret' = [secret EXCEPT ![i] = op[s].secret]
              /\ last' = IF At(s, "auth") THEN [last EXCEPT ![i] = op[s].secret] ELSE last
              /\ lapsed' = IF At(s, "keep") THEN lapsed
                           ELSE IF Overtaken(s) THEN lapsed \cup {i} ELSE lapsed \ {i}
              /\ Goto(s, "groups") \/ Raise(s)
           \/ /\ UNCHANGED <<secret, last, lapsed>>
              /\ PassOver(s, "groups") \/ Raise(s)
        /\ UNCHANGED <<made, idps, groups, roles, mapped, flow, begun, alone, before, unread>>

-----------------------------------------------------------------------------
(* _apply_idp_role_group_mappings *)

(* PUT of the groups; if it is refused, those there are, or none. *)
PutGroups(s) ==
    /\ At(s, "groups")
    /\ \/ /\ op[s].idp \in idps
          /\ groups' = [groups EXCEPT ![op[s].idp] = op[s].form.groups]
          /\ \/ /\ op' = [op EXCEPT ![s].pc = "roles", ![s].resolved = op[s].form.groups]
                /\ flash' = flash
             \/ Raise(s)
       \/ /\ UNCHANGED groups
          /\ \/ \E resolved \in {groups[op[s].idp], {}} :
                   /\ op' = [op EXCEPT ![s].pc = "roles", ![s].resolved = resolved, ![s].ok = FALSE]
                   /\ flash' = flash
             \/ Raise(s)
    /\ UNCHANGED <<made, idps, secret, roles, mapped, flow, historyVars>>

(* The handler goes on with the roles left; edit_idp ends after the last.  *)
NextRole(s, left, ok) ==
    IF left # {}
    THEN /\ op' = [op EXCEPT ![s].pc = "role", ![s].todo = left, ![s].role = None, ![s].current = {},
                             ![s].ok = @ /\ ok]
         /\ flash' = flash
    ELSE IF op[s].kind = "add"
    THEN /\ op' = [op EXCEPT ![s].pc = "flow", ![s].todo = {}, ![s].role = None, ![s].current = {},
                             ![s].resolved = {}, ![s].ok = @ /\ ok]
         /\ flash' = flash
    ELSE Redirect(s, "updated", ok)

ListRoles(s) ==
    /\ At(s, "roles")
    /\ NextRole(s, roles, TRUE) \/ NextRole(s, {}, FALSE) \/ Raise(s)
    /\ UNCHANGED <<isVars, historyVars>>

GetRoleFails(s, r) ==
    /\ At(s, "role") /\ r \in op[s].todo
    /\ NextRole(s, op[s].todo \ {r}, FALSE) \/ Raise(s)
    /\ UNCHANGED <<isVars, historyVars>>

GetRole(s, r) ==
    /\ At(s, "role") /\ r \in op[s].todo
    /\ op' = [op EXCEPT ![s].pc = "patch", ![s].role = r,
                        ![s].current = {<<m[2], m[3]>> : m \in {n \in mapped : n[1] = r}}]
    /\ UNCHANGED <<isVars, flash, historyVars>>

Own(s) == {op[s].idp} \X op[s].resolved
Selected(s) == {op[s].idp} \X (op[s].form.checked[op[s].role] \cap op[s].resolved)

(* As if other providers' groups were not carried over. *)
CombinedOwnOnly(s) == Selected(s)

(* As if unchecking a group did not take it away. *)
CombinedGrowing(s) == op[s].current \cup Selected(s)

Combined(s) == (op[s].current \ Own(s)) \cup Selected(s)

PatchRole(s) ==
    LET r == op[s].role
    IN  /\ At(s, "patch")
        /\ \/ /\ mapped' = {m \in mapped : m[1] # r} \cup {<<r, c[1], c[2]>> : c \in Combined(s)}
              /\ NextRole(s, op[s].todo \ {r}, TRUE) \/ Raise(s)
           \/ /\ UNCHANGED mapped
              /\ NextRole(s, op[s].todo \ {r}, FALSE) \/ Raise(s)
        /\ UNCHANGED <<made, idps, secret, groups, roles, flow, historyVars>>

-----------------------------------------------------------------------------
(* The login flow.  WSO2 IS refuses a flow with a provider it does not     *)
(* know, and the deletion of a provider the flow offers.                   *)

DeleteIdp(s, i) == i \in 1..made /\ Begin(s, "delete", "flow", i, NoForm, None)

(* As if a deletion left the flow alone. *)
AuthSequenceAsIs(s) == IF op[s].kind = "add" THEN {LOCAL_IDP, op[s].idp} ELSE flow

AuthSequence(s) == IF op[s].kind = "add" THEN {LOCAL_IDP, op[s].idp} ELSE {LOCAL_IDP}

(* _resolve_teamspace_app_id and _patch_auth_sequence: an application that *)
(* is not found and a refusal are passed over.  delete_idp reads the       *)
(* provider first and looks at nothing of it.                              *)
PatchAuthSequence(s) ==
    /\ At(s, "flow")
    /\ \E done \in {d \in BOOLEAN : d => AuthSequence(s) \subseteq idps \cup {LOCAL_IDP}} :
          /\ flow' = IF done THEN AuthSequence(s) ELSE flow
          /\ \/ IF op[s].kind = "add" THEN Redirect(s, "created", done)
                ELSE IF done THEN Goto(s, "remove") ELSE PassOver(s, "remove")
             \/ Raise(s)
    /\ UNCHANGED <<made, idps, secret, groups, roles, mapped, historyVars>>

RemoveIdp(s) ==
    /\ At(s, "remove")
    /\ op[s].idp \in idps \ flow
    /\ idps' = idps \ {op[s].idp}
    /\ Redirect(s, "deleted", TRUE) \/ Raise(s)
    /\ UNCHANGED <<made, secret, groups, roles, mapped, flow, historyVars>>

RemoveFails(s) ==
    /\ At(s, "remove")
    /\ Redirect(s, "kept", op[s].idp \notin idps \ flow) \/ Raise(s)
    /\ UNCHANGED <<isVars, historyVars>>

Interfere ==
    /\ begun' = begun + 1
    /\ op' = [t \in Sessions |-> [op[t] EXCEPT !.ok = FALSE]]
    /\ alone' = {} /\ before' = {} /\ flash' = NoFlash

(* As if the steps were not looked at. *)
UpdateLoginFlowUnparsed(s, options) ==
    /\ At(s, "idle") /\ begun < MaxRequests
    /\ options \subseteq idps \cup {LOCAL_IDP}
    /\ flow' = options
    /\ Interfere
    /\ UNCHANGED <<made, idps, secret, groups, roles, mapped, secretHistory>>

(* update_login_flow: _parse_login_flow_steps, then one call. *)
UpdateLoginFlow(s, options) ==
    /\ At(s, "idle") /\ begun < MaxRequests
    /\ options # {} /\ options \subseteq idps \cup {LOCAL_IDP}
    /\ flow' = options
    /\ Interfere
    /\ UNCHANGED <<made, idps, secret, groups, roles, mapped, secretHistory>>

(* The page with the providers, or the one with the flow, shows the        *)
(* message.                                                                *)
ShowPage(s) ==
    /\ At(s, "idle")
    /\ flash' = IF s \in alone THEN NoFlash ELSE flash
    /\ UNCHANGED <<isVars, op, historyVars>>

-----------------------------------------------------------------------------
HandlerStep(s) ==
    \/ \E r \in Roles : EnsureRole(s, r) \/ GetRole(s, r) \/ GetRoleFails(s, r)
    \/ CreateIdp(s) \/ FetchIdpProps(s) \/ PutAuthenticator(s)
    \/ PutGroups(s) \/ ListRoles(s) \/ PatchRole(s)
    \/ PatchAuthSequence(s) \/ RemoveIdp(s) \/ RemoveFails(s)

Next ==
    \E s \in Sessions :
        \/ \E f \in Forms, k \in Secrets \cup {None} :
              AddIdp(s, f, k) \/ \E i \in Ids : EditIdp(s, i, f, k)
        \/ \E i \in Ids : DeleteIdp(s, i)
        \/ \E options \in SUBSET (Ids \cup {LOCAL_IDP}) : UpdateLoginFlow(s, options)
        \/ ShowPage(s) \/ HandlerStep(s)

Spec == Init /\ [][Next]_vars

-----------------------------------------------------------------------------
(* An administrator nobody interferes with, whose calls are all carried    *)
(* out, gets what the form said, whatever earlier requests left half done: *)
(* the provider's groups, the secret, in every role exactly the checked    *)
(* ones of these groups, and after the creation a login flow that offers   *)
(* the provider beside the local password.                                 *)
FormTakesEffect ==
    LET i == flash.idp
        f == flash.form
    IN  flash.kind \in {"created", "updated"} /\ flash.ok =>
            /\ i \in idps /\ groups[i] = f.groups
            /\ secret[i] = flash.secret
            /\ \A r \in roles, g \in f.groups : <<r, i, g>> \in mapped <=> g \in f.checked[r]
            /\ flash.kind = "created" => flow = {LOCAL_IDP, i}

(* The rewriting of the roles' groups for one provider leaves the mappings *)
(* of every other one alone, at every moment of a request nobody           *)
(* interferes with and whichever of its calls fail, the two reads of the   *)
(* provider's own groups included.                                         *)
OthersKept ==
    \A s \in alone : ~At(s, "idle") => Others(op[s].idp) = before

(* A blank field keeps the secret, as far as edit_idp can know it: whatever *)
(* requests overlap, fail or raise, a provider's secret is the one last    *)
(* submitted for it, unless an edit with a blank field could not read it,  *)
(* or read an older one before that one was written and then puts every    *)
(* property back as it was read.  It is empty only after a failed read.    *)
SecretSurvives ==
    \A i \in idps : /\ secret[i] # last[i] => i \in lapsed
                    /\ secret[i] = None => i \in unread

(* delete_idp takes the provider out of the login flow first, so a         *)
(* deletion nobody interferes with and whose calls are all answered is     *)
(* refused only when the provider is gone already.                         *)
DeletionNotBlocked ==
    flash.kind = "kept" /\ flash.ok => flash.idp \notin idps

-----------------------------------------------------------------------------
(* The inductive invariants behind the four. *)

(* Which request is at which call, and what it holds there. *)
OpOK(s) ==
    /\ op[s].ok => s \in alone
    /\ op[s].pc \in {"ensure", "create"} =>
          op[s].kind = "add" /\ op[s].idp = None /\ op[s].secret # None
    /\ op[s].pc \in {"props", "auth", "keep"} => op[s].kind = "edit"
    /\ op[s].pc = "auth" => op[s].secret # None
    /\ op[s].pc \in {"groups", "roles", "role", "patch"} => op[s].kind \in {"add", "edit"}
    /\ op[s].pc = "flow" => op[s].kind \in {"add", "delete"}
    /\ op[s].pc = "remove" => op[s].kind = "delete"
    /\ op[s].pc \notin {"idle", "ensure", "create"} => op[s].idp \in 1..made
    /\ op[s].pc = "keep" /\ op[s].secret = None => op[s].idp \in unread
    /\ op[s].pc \in {"role", "patch"} => op[s].todo \subseteq roles
    /\ op[s].pc = "patch" => op[s].role \in op[s].todo
    /\ op[s].current \subseteq (1..made) \X Groups

MappedAs(rs, i, f) == \A r \in rs, g \in f.groups : <<r, i, g>> \in mapped <=> g \in f.checked[r]

(* How far a request has come whose calls were all carried out. *)
Reached(s) ==
    LET i == op[s].idp
        f == op[s].form
    IN  /\ op[s].pc \in {"groups", "roles", "role", "patch", "flow"} /\ op[s].kind # "delete" =>
              i \in idps /\ secret[i] = op[s].secret
        /\ op[s].pc \in {"roles", "role", "patch"} => op[s].resolved = f.groups
        /\ op[s].pc \in {"roles", "role", "patch", "flow"} /\ op[s].kind # "delete" => groups[i] = f.groups
        /\ op[s].pc \in {"role", "patch"} => MappedAs(roles \ op[s].todo, i, f)
        /\ op[s].pc = "flow" /\ op[s].kind = "add" => MappedAs(roles, i, f)
        /\ op[s].pc = "remove" => flow = {LOCAL_IDP}

CurrentOf(r) == {<<m[2], m[3]>> : m \in {n \in mapped : n[1] = r}}

AloneOK(s) ==
    /\ \A other \in Sessions \ {s} : At(other, "idle")
    /\ ~At(s, "idle") => Others(op[s].idp) = before
    /\ At(s, "patch") => op[s].current = CurrentOf(op[s].role)

NotEmptied == \A i \in idps : secret[i] = None => i \in unread

Inv ==
    /\ TypeOK /\ NotEmptied /\ FormTakesEffect /\ DeletionNotBlocked
    /\ \A s \in Sessions : OpOK(s) /\ (op[s].ok => Reached(s))
    /\ \A s \in alone : AloneOK(s)
    /\ flash.ok => \A s \in Sessions : At(s, "idle")

(* Besides Inv, for SecretSurvives: an edit about to put a secret back     *)
(* knows the last one, or the provider has lapsed.                         *)
KeptOK ==
    /\ \A i \in 1..made : secret[i] # last[i] => i \in lapsed
    /\ \A s \in Sessions :
          At(s, "keep") /\ op[s].secret # last[op[s].idp] => op[s].idp \in lapsed
=============================================================================

--------------------------- MODULE IdpAdminProofs ---------------------------
(* The invariants of IdpAdmin, for every number of administrators, identity *)
(* providers, groups, roles and requests.                                   *)
EXTENDS IdpAdmin, FiniteSetTheorems, TLAPS

USE IdpsAssumption, SecretsAssumption, NoneAssumption

-----------------------------------------------------------------------------
(* The parts of the invariant that speak of WSO2 IS alone. *)

EnvOK ==
    /\ begun \in 0..MaxRequests /\ made \in 0..MaxIdps /\ idps \subseteq 1..made
    /\ secret \in [Ids -> Secrets \cup {None}] /\ groups \in [Ids -> SUBSET Groups]
    /\ roles \subseteq Roles /\ mapped \subseteq roles \X (1..made) \X Groups
    /\ flow \subseteq idps \cup {LOCAL_IDP} /\ flow # {}
    /\ alone \subseteq Sessions /\ Cardinality(alone) <= 1
    /\ before \subseteq Roles \X Ids \X Groups /\ unread \subseteq Ids
    /\ last \in [Ids -> Secrets \cup {None}] /\ lapsed \subseteq Ids
    /\ NotEmptied

LEMMA EnvNow == Inv => EnvOK /\ op \in [Sessions -> Ops] /\ flash \in Flashes
BY DEF Inv, TypeOK, EnvOK

LEMMA NoneMade == ASSUME EnvOK PROVE None \notin 1..made /\ made \in Nat /\ 1..made \subseteq Ids
BY DEF EnvOK, Ids

LEMMA Blanks == NoForm \in Forms /\ NoOp \in Ops /\ NoFlash \in Flashes
<1>1. NoForm \in Forms
  BY DEF NoForm, Forms
<1> QED BY <1>1 DEF NoOp, Ops, NoFlash, Flashes, Pcs

LEMMA OpFields ==
    ASSUME NEW o \in Ops
    PROVE  /\ o.pc \in Pcs /\ o.kind \in {"none", "add", "edit", "delete"} /\ o.idp \in Ids \cup {None}
           /\ o.form \in Forms /\ o.secret \in Secrets \cup {None} /\ o.resolved \subseteq Groups
           /\ o.todo \subseteq Roles /\ o.role \in Roles \cup {None}
           /\ o.current \subseteq Ids \X Groups /\ o.ok \in BOOLEAN
           /\ o.form.groups \subseteq Groups
           /\ \A r \in Roles : o.form.checked[r] \subseteq o.form.groups
BY DEF Ops, Forms

(* While a handler runs, no other session is without interference. *)
LEMMA OnlyOne ==
    ASSUME Inv, NEW s \in Sessions, ~At(s, "idle")
    PROVE  /\ \A r \in Sessions : r # s => r \notin alone /\ ~op[r].ok
           /\ ~flash.ok
<1>1. \A r \in alone : r # s => At(s, "idle")
  BY DEF Inv, AloneOK
<1>2. \A r \in Sessions : op[r].ok => r \in alone
  BY DEF Inv, OpOK
<1>3. flash.ok => At(s, "idle")
  BY DEF Inv
<1> QED BY <1>1, <1>2, <1>3

(* Others and CurrentOf of the next state. *)
OthersNext(i) == {m \in mapped' : m[2] # i}
CurrentNext(r) == {<<m[2], m[3]>> : m \in {n \in mapped' : n[1] = r}}

(* A step of a handler keeps the invariant if the request it leaves and the *)
(* message it may leave fit what WSO2 IS then holds.                        *)
LEMMA HandlerInv ==
    ASSUME Inv, NEW s \in Sessions, ~At(s, "idle"), EnvOK',
           made <= made', roles \subseteq roles', unread \subseteq unread',
           UNCHANGED <<begun, alone, before>>,
           NEW q \in Ops, op' = [op EXCEPT ![s] = q], flash' \in Flashes,
           OpOK(s)', q.ok => Reached(s)',
           s \in alone /\ q.pc # "idle" => OthersNext(q.idp) = before,
           q.pc = "patch" /\ s \in alone => q.current = CurrentNext(q.role),
           flash'.ok => s \in alone /\ q.pc = "idle" /\ FormTakesEffect' /\ DeletionNotBlocked'
    PROVE  Inv'
<1>1. op \in [Sessions -> Ops] /\ EnvOK /\ made \in Nat
  BY EnvNow, NoneMade
<1>2. op' \in [Sessions -> Ops] /\ op'[s] = q /\ \A r \in Sessions : r # s => op'[r] = op[r]
  BY <1>1
<1>3. \A r \in Sessions : r # s => r \notin alone /\ ~op[r].ok
  BY OnlyOne
<1>4. TypeOK' /\ NotEmptied'
  BY <1>2 DEF EnvOK, TypeOK
<1>5. FormTakesEffect' /\ DeletionNotBlocked'
  BY DEF FormTakesEffect, DeletionNotBlocked
<1>6. made' \in Nat
  BY <1>4 DEF TypeOK
<1>7. 1..made \subseteq 1..made'
  BY <1>1, <1>6
<1>8. ASSUME NEW r \in Sessions, r # s PROVE OpOK(r)' /\ ~op'[r].ok
  <2>1. OpOK(r) /\ op'[r] = op[r] /\ ~op[r].ok
    BY <1>2, <1>3, <1>8 DEF Inv
  <2>2. op[r].current \subseteq (1..made') \X Groups
    BY <1>7, <2>1 DEF OpOK
  <2> QED BY <1>7, <2>1, <2>2 DEF OpOK
<1>9. ASSUME NEW r \in Sessions PROVE OpOK(r)' /\ (op'[r].ok => Reached(r)')
  <2>1. CASE r = s
    BY <1>2, <2>1
  <2>2. CASE r # s
    BY <1>8, <2>2
  <2> QED BY <2>1, <2>2
<1>10. ASSUME NEW r \in alone' PROVE AloneOK(r)'
  <2>1. r = s /\ r \in Sessions /\ s \in alone
    BY <1>1, <1>3, <1>10 DEF EnvOK
  <2>2. \A other \in Sessions \ {s} : At(other, "idle")
    BY <2>1 DEF Inv, AloneOK
  <2>3. \A other \in Sessions \ {s} : At(other, "idle")'
    BY <1>2, <2>2 DEF At
  <2>4. q.pc # "idle" => OthersNext(q.idp) = before'
    BY <2>1
  <2>5. q.pc = "patch" => q.current = CurrentNext(q.role)
    BY <2>1
  <2> QED BY <1>2, <2>1, <2>3, <2>4, <2>5 DEF AloneOK, At, Others, OthersNext, CurrentOf, CurrentNext
<1>11. flash'.ok => \A r \in Sessions : At(r, "idle")'
  <2>1. SUFFICES ASSUME flash'.ok, NEW r \in Sessions PROVE At(r, "idle")'
    OBVIOUS
  <2>2. s \in alone /\ q.pc = "idle"
    BY <2>1
  <2>3. r # s => At(r, "idle")
    BY <2>2 DEF Inv, AloneOK
  <2> QED BY <1>2, <2>2, <2>3 DEF At
<1> QED BY <1>4, <1>5, <1>9, <1>10, <1>11 DEF Inv

-----------------------------------------------------------------------------
(* The ways a call ends. *)

EnvStep ==
    /\ EnvOK' /\ made <= made' /\ roles \subseteq roles' /\ unread \subseteq unread'
    /\ UNCHANGED <<begun, alone, before>>

LEMMA EnvSame == ASSUME Inv, UNCHANGED <<isVars, historyVars>> PROVE EnvStep
<1>1. EnvOK /\ made \in Nat
  BY EnvNow, NoneMade
<1>2. UNCHANGED <<made, idps, secret, groups, roles, mapped, flow, begun, alone, before, unread, last, lapsed>>
  BY DEF isVars, historyVars, secretHistory
<1>3. EnvOK'
  BY <1>1, <1>2 DEF EnvOK, NotEmptied
<1> QED BY <1>1, <1>2, <1>3 DEF EnvStep

LEMMA IdleOK ==
    ASSUME NEW s \in Sessions, op'[s] = NoOp
    PROVE  OpOK(s)'
BY DEF OpOK, NoOp

LEMMA RaiseInv ==
    ASSUME Inv, NEW s \in Sessions, ~At(s, "idle"), EnvStep, Raise(s)
    PROVE  Inv'
<1>1. op' = [op EXCEPT ![s] = NoOp] /\ flash' = flash
  BY DEF Raise
<1>2. op \in [Sessions -> Ops] /\ flash \in Flashes /\ NoOp \in Ops /\ ~flash.ok
  BY EnvNow, Blanks, OnlyOne
<1>3. op'[s] = NoOp
  BY <1>1, <1>2
<1>4. OpOK(s)' /\ NoOp.pc = "idle" /\ ~NoOp.ok
  BY <1>3, IdleOK DEF NoOp
<1> QED BY <1>1, <1>2, <1>4, HandlerInv DEF EnvStep

LEMMA MoveInv ==
    ASSUME Inv, NEW s \in Sessions, ~At(s, "idle"), EnvStep,
           NEW q \in Ops, op' = [op EXCEPT ![s] = q], flash' = flash,
           OpOK(s)', q.ok => Reached(s)', s \in alone => OthersNext(q.idp) = before,
           q.pc = "patch" /\ s \in alone => q.current = CurrentNext(q.role)
    PROVE  Inv'
<1>1. flash \in Flashes /\ ~flash.ok
  BY EnvNow, OnlyOne
<1> QED BY <1>1, HandlerInv DEF EnvStep

LEMMA RedirectInv ==
    ASSUME Inv, NEW s \in Sessions, ~At(s, "idle"), EnvStep,
           NEW kind \in {"created", "updated", "deleted", "kept"}, NEW ok \in BOOLEAN,
           Redirect(s, kind, ok),
           s \in alone /\ op[s].ok /\ ok /\ kind \in {"created", "updated"} =>
              /\ op[s].idp \in idps' /\ groups'[op[s].idp] = op[s].form.groups
              /\ secret'[op[s].idp] = op[s].secret
              /\ \A r \in roles', g \in op[s].form.groups :
                    <<r, op[s].idp, g>> \in mapped' <=> g \in op[s].form.checked[r]
              /\ kind = "created" => flow' = {LOCAL_IDP, op[s].idp},
           s \in alone /\ op[s].ok /\ ok /\ kind = "kept" => op[s].idp \notin idps'
    PROVE  Inv'
<1> DEFINE m == [kind |-> kind, idp |-> op[s].idp, form |-> op[s].form,
                 secret |-> op[s].secret, ok |-> op[s].ok /\ ok]
<1>1. op' = [op EXCEPT ![s] = NoOp] /\ flash' = IF s \in alone THEN m ELSE flash
  BY DEF Redirect
<1>2. op \in [Sessions -> Ops] /\ flash \in Flashes /\ NoOp \in Ops /\ ~flash.ok
  BY EnvNow, Blanks, OnlyOne
<1>3. op'[s] = NoOp /\ op[s] \in Ops
  BY <1>1, <1>2
<1>4. OpOK(s)' /\ NoOp.pc = "idle" /\ ~NoOp.ok
  BY <1>3, IdleOK DEF NoOp
<1>5. m \in Flashes
  <2>1. (op[s].ok /\ ok) \in BOOLEAN
    OBVIOUS
  <2> QED BY <1>3, <2>1, OpFields DEF Flashes
<1>6. /\ m.kind = kind /\ m.idp = op[s].idp /\ m.form = op[s].form /\ m.secret = op[s].secret
      /\ (m.ok <=> op[s].ok /\ ok)
  OBVIOUS
<1> HIDE DEF m
<1>7. flash' \in Flashes
  BY <1>1, <1>2, <1>5
<1>8. flash'.ok => s \in alone /\ flash' = m
  BY <1>1, <1>2
<1>9. ASSUME flash'.ok PROVE FormTakesEffect'
  <2>1. s \in alone /\ flash' = m /\ op[s].ok /\ ok
    BY <1>6, <1>8, <1>9
  <2>2. FormTakesEffect' <=>
          (m.kind \in {"created", "updated"} =>
              /\ m.idp \in idps' /\ groups'[m.idp] = m.form.groups
              /\ secret'[m.idp] = m.secret
              /\ \A r \in roles', g \in m.form.groups :
                    <<r, m.idp, g>> \in mapped' <=> g \in m.form.checked[r]
              /\ m.kind = "created" => flow' = {LOCAL_IDP, m.idp})
    BY <1>6, <2>1 DEF FormTakesEffect
  <2> QED BY <1>6, <2>1, <2>2
<1>10. ASSUME flash'.ok PROVE DeletionNotBlocked'
  BY <1>6, <1>8, <1>10 DEF DeletionNotBlocked
<1> QED BY <1>1, <1>2, <1>4, <1>7, <1>8, <1>9, <1>10, HandlerInv DEF EnvStep

-----------------------------------------------------------------------------
(* add_idp *)

LEMMA EnsureRoleInv ==
    ASSUME Inv, NEW s \in Sessions, NEW r \in Roles, EnsureRole(s, r)
    PROVE  Inv'
<1>1. /\ op[s].pc = "ensure" /\ ~At(s, "idle") /\ r \in op[s].todo
      /\ roles' \in {roles, roles \cup {r}}
      /\ UNCHANGED <<made, idps, secret, groups, mapped, flow, historyVars>>
  BY DEF EnsureRole, At
<1>2. UNCHANGED <<made, idps, secret, groups, mapped, flow, begun, alone, before, unread, last, lapsed>>
  BY <1>1 DEF historyVars, secretHistory
<1>3. EnvOK /\ op \in [Sessions -> Ops] /\ OpOK(s) /\ made \in Nat
  BY EnvNow, NoneMade DEF Inv
<1>4. EnvStep
  <2>1. roles \subseteq roles' /\ roles' \subseteq Roles
    BY <1>1, <1>3 DEF EnvOK
  <2>2. mapped' \subseteq roles' \X (1..made) \X Groups
    BY <1>2, <1>3, <2>1 DEF EnvOK
  <2> QED BY <1>2, <1>3, <2>1, <2>2 DEF EnvOK, EnvStep, NotEmptied
<1>5. CASE Raise(s)
  BY <1>1, <1>4, <1>5, RaiseInv
<1>6. CASE op' = [op EXCEPT ![s].todo = @ \ {r}, ![s].pc = IF op[s].todo = {r} THEN "create" ELSE @,
                            ![s].ok = @ /\ r \in roles'] /\ flash' = flash
  <2> DEFINE q == [op[s] EXCEPT !.todo = @ \ {r}, !.pc = IF op[s].todo = {r} THEN "create" ELSE @,
                                !.ok = @ /\ r \in roles']
  <2>1. op' = [op EXCEPT ![s] = q]
    BY <1>3, <1>6
  <2>2. op[s] \in Ops
    BY <1>3
  <2>3. /\ q.pc \in {"ensure", "create"} /\ q.kind = op[s].kind /\ q.idp = op[s].idp
        /\ q.secret = op[s].secret /\ q.current = op[s].current /\ (q.ok => op[s].ok)
    BY <1>1, <2>2 DEF Ops
  <2>4. q \in Ops
    <3>1. (op[s].ok /\ r \in roles') \in BOOLEAN /\ op[s].todo \ {r} \subseteq Roles
      BY <2>2, OpFields
    <3>2. (IF op[s].todo = {r} THEN "create" ELSE op[s].pc) \in Pcs
      BY <1>1 DEF Pcs
    <3>3. \A p \in Pcs, d \in SUBSET Roles, k \in BOOLEAN :
             [op[s] EXCEPT !.todo = d, !.pc = p, !.ok = k] \in Ops
      BY <2>2 DEF Ops
    <3> QED BY <3>1, <3>2, <3>3
  <2> HIDE DEF q
  <2>5. op'[s] = q
    BY <1>3, <2>1
  <2>6. OpOK(s)'
    BY <1>1, <1>2, <1>3, <2>3, <2>5 DEF OpOK
  <2>7. q.ok => Reached(s)'
    BY <2>3, <2>5 DEF Reached
  <2>8. s \in alone => OthersNext(q.idp) = before
    BY <1>1, <1>2, <2>3, <2>5 DEF Inv, AloneOK, Others, OthersNext
  <2> QED BY <1>1, <1>4, <1>6, <2>1, <2>3, <2>4, <2>6, <2>7, <2>8, MoveInv
<1> QED BY <1>5, <1>6 DEF EnsureRole

LEMMA CreateIdpInv ==
    ASSUME Inv, NEW s \in Sessions, CreateIdp(s)
    PROVE  Inv'
<1>1. /\ op[s].pc = "create" /\ ~At(s, "idle")
      /\ UNCHANGED <<groups, roles, mapped, flow, begun, alone, before, unread, lapsed>>
  BY DEF CreateIdp, At, historyVars, secretHistory
<1>2. EnvOK /\ op \in [Sessions -> Ops] /\ OpOK(s) /\ made \in Nat /\ op[s] \in Ops
      /\ None \notin 1..made
  BY EnvNow, NoneMade DEF Inv
<1>3. op[s].kind = "add" /\ op[s].idp = None /\ op[s].secret \in Secrets /\ op[s].secret # None
  BY <1>1, <1>2, OpFields DEF OpOK
<1>4. CASE Raise(s) /\ UNCHANGED <<made, idps, secret, last>>
  <2>1. EnvStep
    <3>1. UNCHANGED <<isVars, historyVars>>
      BY <1>1, <1>4 DEF isVars, historyVars, secretHistory
    <3> QED BY <3>1, EnvSame
  <2> QED BY <1>1, <1>4, <2>1, RaiseInv
<1>5. ASSUME made < MaxIdps, made' = made + 1, idps' = idps \cup {made + 1},
             secret' = [secret EXCEPT ![made + 1] = op[s].secret],
             last' = [last EXCEPT ![made + 1] = op[s].secret],
             \/ op' = [op EXCEPT ![s].pc = "groups", ![s].idp = made + 1] /\ flash' = flash
             \/ Raise(s)
      PROVE  Inv'
  <2> DEFINE i == made + 1
  <2>1. i \in Ids /\ i \in 1..made' /\ 1..made \subseteq 1..made' /\ i # None /\ i \notin 1..made /\ i # 0
        /\ made' \in 0..MaxIdps /\ made <= made'
    BY <1>2, <1>5 DEF Ids
  <2>2. secret' \in [Ids -> Secrets \cup {None}] /\ secret'[i] = op[s].secret
        /\ \A j \in Ids : j # i => secret'[j] = secret[j]
    BY <1>2, <1>3, <1>5, <2>1 DEF EnvOK
  <2>a. last' \in [Ids -> Secrets \cup {None}]
    BY <1>2, <1>3, <1>5, <2>1 DEF EnvOK
  <2>3. idps' \subseteq 1..made' /\ flow' \subseteq idps' \cup {LOCAL_IDP} /\ idps \subseteq Ids
    BY <1>1, <1>2, <1>5, <2>1, NoneMade DEF EnvOK
  <2>4. mapped' \subseteq roles' \X (1..made') \X Groups
    BY <1>1, <1>2, <2>1 DEF EnvOK
  <2>5. NotEmptied'
    BY <1>1, <1>2, <1>3, <1>5, <2>2, <2>3 DEF EnvOK, NotEmptied
  <2>6. EnvStep
    <3> HIDE DEF i
    <3> QED BY <1>1, <1>2, <2>1, <2>2, <2>a, <2>3, <2>4, <2>5 DEF EnvOK, EnvStep
  <2>7. CASE Raise(s)
    BY <1>1, <2>6, <2>7, RaiseInv
  <2>8. CASE op' = [op EXCEPT ![s].pc = "groups", ![s].idp = made + 1] /\ flash' = flash
    <3> DEFINE q == [op[s] EXCEPT !.pc = "groups", !.idp = i]
    <3>1. op' = [op EXCEPT ![s] = q]
      BY <1>2, <2>8
    <3>2. /\ q.pc = "groups" /\ q.kind = "add" /\ q.idp = i /\ q.secret = op[s].secret
          /\ q.current = op[s].current /\ q.ok = op[s].ok
      BY <1>2, <1>3 DEF Ops
    <3>3. q \in Ops
      BY <1>2, <2>1, OpFields DEF Ops, Pcs
    <3> HIDE DEF q, i
    <3>4. op'[s] = q
      BY <1>2, <3>1
    <3>5. op[s].current \subseteq (1..made') \X Groups
      BY <1>2, <2>1 DEF OpOK
    <3>6. OpOK(s)'
      BY <1>1, <1>2, <2>1, <3>2, <3>4, <3>5 DEF OpOK
    <3>7. i \in idps'
      BY <1>5 DEF i
    <3>8. q.ok => Reached(s)'
      BY <2>2, <3>2, <3>4, <3>7 DEF Reached
    <3>9. s \in alone => OthersNext(q.idp) = before
      <4>1. s \in alone => Others(None) = before
        BY <1>1, <1>3 DEF Inv, AloneOK
      <4>2. \A m \in mapped : m[2] # i /\ m[2] # None
        <5>1. \A m \in mapped : m[2] \in 1..made
          BY <1>2 DEF EnvOK
        <5> QED BY <1>2, <2>1, <5>1
      <4> QED BY <1>1, <3>2, <4>1, <4>2 DEF Others, OthersNext
    <3> QED BY <1>1, <2>6, <2>8, <3>1, <3>2, <3>3, <3>6, <3>8, <3>9, MoveInv
  <2> QED BY <1>5, <2>7, <2>8
<1> QED BY <1>4, <1>5 DEF CreateIdp

-----------------------------------------------------------------------------
(* edit_idp *)

LEMMA FetchIdpPropsInv ==
    ASSUME Inv, NEW s \in Sessions, FetchIdpProps(s)
    PROVE  Inv'
<1> DEFINE i == op[s].idp
<1>1. op[s].pc = "props" /\ ~At(s, "idle") /\ UNCHANGED <<isVars, flash, begun, alone, before>>
  BY DEF FetchIdpProps, At
<1>a. UNCHANGED <<made, idps, secret, groups, roles, mapped, flow, flash, begun, alone, before>>
  BY <1>1 DEF isVars
<1>2. EnvOK /\ op \in [Sessions -> Ops] /\ OpOK(s) /\ made \in Nat /\ op[s] \in Ops /\ i \in Ids
      /\ i \in 1..made /\ op[s].kind = "edit"
  <2>1. EnvOK /\ op \in [Sessions -> Ops] /\ OpOK(s) /\ made \in Nat /\ op[s] \in Ops
    BY EnvNow, NoneMade DEF Inv
  <2>2. i \in 1..made /\ op[s].kind = "edit"
    BY <1>1, <2>1 DEF OpOK
  <2> QED BY <2>1, <2>2, NoneMade
<1> DEFINE Read == UNCHANGED secretHistory
           Unread == unread' = unread \cup {i} /\ lapsed' = lapsed \cup {i} /\ last' = last
<1>3. ASSUME Read \/ Unread PROVE EnvStep
  <2>1. /\ unread' \subseteq Ids /\ unread \subseteq unread'
        /\ lapsed' \subseteq Ids /\ last' = last
    BY <1>2, <1>3 DEF EnvOK, secretHistory
  <2>2. NotEmptied'
    BY <1>2, <1>a, <2>1 DEF EnvOK, NotEmptied
  <2> HIDE DEF i, Read, Unread
  <2> QED BY <1>2, <1>a, <2>1, <2>2 DEF EnvOK, EnvStep
<1>4. ASSUME NEW q \in Ops, op' = [op EXCEPT ![s] = q], Read \/ Unread,
             q.pc \in {"auth", "keep"}, q.kind = "edit", q.idp = i, q.current = op[s].current,
             q.ok => op[s].ok, q.pc = "auth" => q.secret # None, q.secret = None => i \in unread'
      PROVE  Inv'
  <2>1. op'[s] = q
    BY <1>2, <1>4
  <2>2. OpOK(s)'
    BY <1>1, <1>a, <1>2, <1>4, <2>1 DEF OpOK
  <2>3. Reached(s)'
    BY <1>4, <2>1 DEF Reached
  <2>4. s \in alone => OthersNext(q.idp) = before
    BY <1>1, <1>a, <1>4 DEF Inv, AloneOK, Others, OthersNext
  <2> QED BY <1>1, <1>3, <1>4, <2>2, <2>3, <2>4, MoveInv
<1>5. CASE op[s].secret # None /\ op' = [op EXCEPT ![s].pc = "auth"] /\ Read
  <2> DEFINE q == [op[s] EXCEPT !.pc = "auth"]
  <2>1. op' = [op EXCEPT ![s] = q]
    BY <1>2, <1>5
  <2>2. q \in Ops /\ q.pc = "auth" /\ q.kind = "edit" /\ q.idp = i /\ q.current = op[s].current
        /\ q.ok = op[s].ok /\ q.secret # None
    BY <1>2, <1>5 DEF Ops, Pcs
  <2> HIDE DEF q, i, Read, Unread
  <2> QED BY <1>4, <1>5, <2>1, <2>2
<1>6. CASE /\ i \in idps /\ Read
           /\ op' = [op EXCEPT ![s].pc = "keep", ![s].secret = secret[i]]
  <2> DEFINE k == secret[i]
             q == [op[s] EXCEPT !.pc = "keep", !.secret = k]
  <2>1. op' = [op EXCEPT ![s] = q]
    BY <1>2, <1>6
  <2>2. k \in Secrets \cup {None}
    BY <1>2 DEF EnvOK
  <2>3. k = None => i \in unread'
    BY <1>2, <1>6 DEF EnvOK, NotEmptied, secretHistory
  <2> HIDE DEF k, i, Read, Unread
  <2>4. q \in Ops /\ q.pc = "keep" /\ q.kind = "edit" /\ q.idp = op[s].idp /\ q.current = op[s].current
        /\ q.ok = op[s].ok /\ q.secret = k
    BY <1>2, <2>2 DEF Ops, Pcs
  <2> HIDE DEF q
  <2> QED BY <1>4, <1>6, <2>1, <2>3, <2>4 DEF i
<1>7. CASE /\ op' = [op EXCEPT ![s].pc = "keep", ![s].ok = FALSE]
           /\ Unread
  <2> DEFINE q == [op[s] EXCEPT !.pc = "keep", !.ok = FALSE]
  <2>1. op' = [op EXCEPT ![s] = q]
    BY <1>2, <1>7
  <2>2. q \in Ops /\ q.pc = "keep" /\ q.kind = "edit" /\ q.idp = i /\ q.current = op[s].current /\ ~q.ok
    BY <1>2 DEF Ops, Pcs
  <2>3. i \in unread'
    BY <1>7
  <2> HIDE DEF q, i, Read, Unread
  <2> QED BY <1>4, <1>7, <2>1, <2>2, <2>3
<1>8. CASE op' = [op EXCEPT ![s] = NoOp] /\ Read
  BY <1>1, <1>3, <1>8, RaiseInv DEF Raise
<1> QED BY <1>5, <1>6, <1>7, <1>8 DEF FetchIdpProps

(* A call after which the handler goes on: where to, and whether ok stands. *)
OnTo(s, pc) == op' = [op EXCEPT ![s].pc = pc]
OnToDespite(s, pc) == op' = [op EXCEPT ![s].pc = pc, ![s].ok = FALSE]

LEMMA OnToRecord ==
    ASSUME Inv, NEW s \in Sessions, NEW pc \in Pcs, OnTo(s, pc) \/ OnToDespite(s, pc)
    PROVE  \E q \in Ops :
              /\ op' = [op EXCEPT ![s] = q] /\ op'[s] = q
              /\ q.pc = pc /\ q.kind = op[s].kind /\ q.idp = op[s].idp /\ q.form = op[s].form
              /\ q.secret = op[s].secret /\ q.resolved = op[s].resolved /\ q.todo = op[s].todo
              /\ q.current = op[s].current /\ (q.ok => op[s].ok /\ OnTo(s, pc))
<1>1. op \in [Sessions -> Ops] /\ op[s] \in Ops
  BY EnvNow
<1>2. CASE OnTo(s, pc)
  <2> DEFINE q == [op[s] EXCEPT !.pc = pc]
  <2>1. op' = [op EXCEPT ![s] = q]
    BY <1>1, <1>2 DEF OnTo
  <2>2. /\ q \in Ops
        /\ q.pc = pc /\ q.kind = op[s].kind /\ q.idp = op[s].idp /\ q.form = op[s].form
        /\ q.secret = op[s].secret /\ q.resolved = op[s].resolved /\ q.todo = op[s].todo
        /\ q.current = op[s].current /\ q.ok = op[s].ok
    BY <1>1 DEF Ops
  <2> HIDE DEF q
  <2>3. op'[s] = q
    BY <1>1, <2>1
  <2> QED BY <1>2, <2>1, <2>2, <2>3
<1>3. CASE OnToDespite(s, pc)
  <2> DEFINE q == [op[s] EXCEPT !.pc = pc, !.ok = FALSE]
  <2>1. op' = [op EXCEPT ![s] = q]
    BY <1>1, <1>3 DEF OnToDespite
  <2>2. /\ q \in Ops
        /\ q.pc = pc /\ q.kind = op[s].kind /\ q.idp = op[s].idp /\ q.form = op[s].form
        /\ q.secret = op[s].secret /\ q.resolved = op[s].resolved /\ q.todo = op[s].todo
        /\ q.current = op[s].current /\ ~q.ok
    BY <1>1 DEF Ops
  <2> HIDE DEF q
  <2>3. op'[s] = q
    BY <1>1, <2>1
  <2> QED BY <2>1, <2>2, <2>3
<1> QED BY <1>2, <1>3

LEMMA PutAuthenticatorInv ==
    ASSUME Inv, NEW s \in Sessions, PutAuthenticator(s)
    PROVE  Inv'
<1> DEFINE i == op[s].idp
<1>1. /\ op[s].pc \in {"auth", "keep"} /\ ~At(s, "idle")
      /\ UNCHANGED <<made, idps, groups, roles, mapped, flow, begun, alone, before, unread>>
  BY DEF PutAuthenticator, At
<1>2. EnvOK /\ op \in [Sessions -> Ops] /\ OpOK(s) /\ made \in Nat /\ op[s] \in Ops
  BY EnvNow, NoneMade DEF Inv
<1>3. i \in 1..made /\ op[s].kind = "edit" /\ (op[s].secret = None => i \in unread) /\ i \in Ids
      /\ op[s].secret \in Secrets \cup {None}
  <2>1. i \in 1..made /\ op[s].kind = "edit" /\ (op[s].secret = None => i \in unread)
    BY <1>1, <1>2 DEF OpOK
  <2> QED BY <1>2, <2>1, NoneMade, OpFields
<1> HIDE DEF i
<1>4. ASSUME i \in idps, secret' = [secret EXCEPT ![i] = op[s].secret],
             last' \in {last, [last EXCEPT ![i] = op[s].secret]},
             lapsed' \in {lapsed, lapsed \cup {i}, lapsed \ {i}}, Goto(s, "groups") \/ Raise(s)
      PROVE  Inv'
  <2>1. secret' \in [Ids -> Secrets \cup {None}] /\ secret'[i] = op[s].secret
        /\ \A j \in Ids : j # i => secret'[j] = secret[j]
    BY <1>2, <1>3, <1>4 DEF EnvOK
  <2>2. NotEmptied'
    <3>1. idps \subseteq Ids
      BY <1>2, NoneMade DEF EnvOK
    <3> QED BY <1>1, <1>2, <1>3, <2>1, <3>1 DEF EnvOK, NotEmptied
  <2>a. last' \in [Ids -> Secrets \cup {None}] /\ lapsed' \subseteq Ids
    BY <1>2, <1>3, <1>4 DEF EnvOK
  <2>3. EnvStep
    BY <1>1, <1>2, <2>1, <2>a, <2>2 DEF EnvOK, EnvStep
  <2>4. CASE Raise(s)
    BY <1>1, <2>3, <2>4, RaiseInv
  <2>5. CASE Goto(s, "groups")
    <3>1. OnTo(s, "groups") /\ flash' = flash /\ "groups" \in Pcs
      BY <2>5 DEF OnTo, Goto, Pcs
    <3>2. PICK q \in Ops :
              /\ op' = [op EXCEPT ![s] = q] /\ op'[s] = q
              /\ q.pc = "groups" /\ q.kind = op[s].kind /\ q.idp = op[s].idp /\ q.form = op[s].form
              /\ q.secret = op[s].secret /\ q.resolved = op[s].resolved /\ q.todo = op[s].todo
              /\ q.current = op[s].current /\ (q.ok => op[s].ok /\ OnTo(s, "groups"))
      BY <3>1, OnToRecord
    <3>3. OpOK(s)'
      BY <1>1, <1>2, <1>3, <3>2 DEF OpOK, i
    <3>4. Reached(s)'
      BY <1>1, <1>3, <1>4, <2>1, <3>2 DEF Reached, i
    <3>5. s \in alone => OthersNext(q.idp) = before
      BY <1>1, <3>2 DEF Inv, AloneOK, Others, OthersNext
    <3> QED BY <1>1, <2>3, <3>1, <3>2, <3>3, <3>4, <3>5, MoveInv
  <2> QED BY <1>4, <2>4, <2>5
<1>5. ASSUME UNCHANGED <<secret, last, lapsed>>, PassOver(s, "groups") \/ Raise(s) PROVE Inv'
  <2>1. UNCHANGED <<isVars, historyVars>>
    BY <1>1, <1>5 DEF isVars, historyVars, secretHistory
  <2>2. EnvStep
    BY <2>1, EnvSame
  <2>3. CASE Raise(s)
    BY <1>1, <2>2, <2>3, RaiseInv
  <2>4. CASE PassOver(s, "groups")
    <3>1. OnToDespite(s, "groups") /\ flash' = flash /\ "groups" \in Pcs
      BY <2>4 DEF OnToDespite, PassOver, Pcs
    <3>3. ~op'[s].ok
      BY <1>2, <3>1 DEF OnToDespite
    <3>4. PICK q \in Ops :
              /\ op' = [op EXCEPT ![s] = q] /\ op'[s] = q
              /\ q.pc = "groups" /\ q.kind = op[s].kind /\ q.idp = op[s].idp /\ q.form = op[s].form
              /\ q.secret = op[s].secret /\ q.resolved = op[s].resolved /\ q.todo = op[s].todo
              /\ q.current = op[s].current /\ (q.ok => op[s].ok /\ OnTo(s, "groups"))
      BY <3>1, OnToRecord
    <3>5. OpOK(s)'
      BY <1>1, <1>2, <1>3, <1>5, <3>4 DEF OpOK, i
    <3>6. s \in alone => OthersNext(q.idp) = before
      BY <1>1, <3>4 DEF Inv, AloneOK, Others, OthersNext
    <3> QED BY <1>1, <2>2, <3>1, <3>3, <3>4, <3>5, <3>6, MoveInv
  <2> QED BY <1>5, <2>3, <2>4
<1> QED BY <1>4, <1>5 DEF PutAuthenticator, i

-----------------------------------------------------------------------------
(* _apply_idp_role_group_mappings *)

LEMMA PutGroupsInv ==
    ASSUME Inv, NEW s \in Sessions, PutGroups(s)
    PROVE  Inv'
<1> DEFINE i == op[s].idp
<1>1. /\ op[s].pc = "groups" /\ ~At(s, "idle")
      /\ UNCHANGED <<made, idps, secret, roles, mapped, flow, begun, alone, before, unread, last, lapsed>>
  BY DEF PutGroups, At, historyVars, secretHistory
<1>2. EnvOK /\ op \in [Sessions -> Ops] /\ OpOK(s) /\ made \in Nat /\ op[s] \in Ops
  BY EnvNow, NoneMade DEF Inv
<1>3. i \in 1..made /\ op[s].kind \in {"add", "edit"} /\ i \in Ids
  <2>1. i \in 1..made /\ op[s].kind \in {"add", "edit"}
    BY <1>1, <1>2 DEF OpOK
  <2> QED BY <1>2, <2>1, NoneMade
<1>4. op[s].form.groups \subseteq Groups /\ groups[i] \subseteq Groups
  BY <1>2, <1>3, OpFields DEF EnvOK
<1> HIDE DEF i
<1>5. ASSUME groups' \in {groups, [groups EXCEPT ![i] = op[s].form.groups]} PROVE EnvStep
  <2>1. groups' \in [Ids -> SUBSET Groups]
    BY <1>2, <1>4, <1>5 DEF EnvOK
  <2>2. NotEmptied'
    BY <1>1, <1>2 DEF EnvOK, NotEmptied
  <2> QED BY <1>1, <1>2, <2>1, <2>2 DEF EnvOK, EnvStep
<1>6. ASSUME groups' \in {groups, [groups EXCEPT ![i] = op[s].form.groups]}, flash' = flash,
             NEW q \in Ops, op' = [op EXCEPT ![s] = q],
             q.pc = "roles", q.kind = op[s].kind, q.idp = i, q.form = op[s].form,
             q.secret = op[s].secret, q.current = op[s].current,
             q.ok => /\ op[s].ok /\ i \in idps /\ q.resolved = op[s].form.groups
                     /\ groups'[i] = op[s].form.groups
      PROVE  Inv'
  <2>1. op'[s] = q
    BY <1>2, <1>6
  <2>2. OpOK(s)'
    BY <1>1, <1>2, <1>3, <1>6, <2>1 DEF OpOK
  <2>3. op[s].ok => secret[i] = op[s].secret
    BY <1>1, <1>3 DEF Inv, Reached, i
  <2>4. q.ok => Reached(s)'
    BY <1>1, <1>3, <1>6, <2>1, <2>3 DEF Reached
  <2>5. s \in alone => OthersNext(q.idp) = before
    BY <1>1, <1>6 DEF Inv, AloneOK, Others, OthersNext, i
  <2> QED BY <1>1, <1>5, <1>6, <2>2, <2>4, <2>5, MoveInv
<1>7. ASSUME i \in idps, groups' = [groups EXCEPT ![i] = op[s].form.groups],
             \/ /\ op' = [op EXCEPT ![s].pc = "roles", ![s].resolved = op[s].form.groups]
                /\ flash' = flash
             \/ Raise(s)
      PROVE  Inv'
  <2>1. CASE Raise(s)
    BY <1>1, <1>5, <1>7, <2>1, RaiseInv
  <2>2. CASE /\ op' = [op EXCEPT ![s].pc = "roles", ![s].resolved = op[s].form.groups]
             /\ flash' = flash
    <3> DEFINE q == [op[s] EXCEPT !.pc = "roles", !.resolved = op[s].form.groups]
    <3>1. op' = [op EXCEPT ![s] = q]
      BY <1>2, <2>2
    <3>2. /\ q.pc = "roles" /\ q.kind = op[s].kind /\ q.idp = i /\ q.form = op[s].form
          /\ q.secret = op[s].secret /\ q.current = op[s].current /\ q.ok = op[s].ok
          /\ q.resolved = op[s].form.groups
      BY <1>2 DEF Ops, i
    <3>3. q \in Ops
      BY <1>2, <1>4 DEF Ops, Pcs
    <3>4. groups'[i] = op[s].form.groups
      BY <1>2, <1>3, <1>7 DEF EnvOK
    <3> HIDE DEF q
    <3> QED BY <1>6, <1>7, <2>2, <3>1, <3>2, <3>3, <3>4
  <2> QED BY <1>7, <2>1, <2>2
<1>8. ASSUME groups' = groups, NEW resolved \in {groups[i], {}}, flash' = flash,
             op' = [op EXCEPT ![s].pc = "roles", ![s].resolved = resolved, ![s].ok = FALSE]
      PROVE  Inv'
  <2> DEFINE q == [op[s] EXCEPT !.pc = "roles", !.resolved = resolved, !.ok = FALSE]
  <2>1. op' = [op EXCEPT ![s] = q]
    BY <1>2, <1>8
  <2>2. /\ q.pc = "roles" /\ q.kind = op[s].kind /\ q.idp = i /\ q.form = op[s].form
        /\ q.secret = op[s].secret /\ q.current = op[s].current /\ ~q.ok
    BY <1>2 DEF Ops, i
  <2>3. q \in Ops
    BY <1>2, <1>4, <1>8 DEF Ops, Pcs
  <2> HIDE DEF q
  <2> QED BY <1>6, <1>8, <2>1, <2>2, <2>3
<1>9. CASE groups' = groups /\ Raise(s)
  BY <1>1, <1>5, <1>9, RaiseInv
<1> QED BY <1>7, <1>8, <1>9 DEF PutGroups, i

(* What the handler goes on to fits if the roles that are not left are *)
(* mapped as the form said.                                            *)
MappedNext(rs, i, f) == \A r \in rs, g \in f.groups : <<r, i, g>> \in mapped' <=> g \in f.checked[r]

LEMMA NextRoleInv ==
    ASSUME Inv, NEW s \in Sessions, op[s].pc \in {"roles", "role", "patch"},
           EnvStep, UNCHANGED <<made, idps, secret, groups, roles, flow, unread, last, lapsed>>,
           NEW left \in SUBSET roles, NEW ok \in BOOLEAN, NextRole(s, left, ok),
           s \in alone => OthersNext(op[s].idp) = before,
           op[s].ok /\ ok => MappedNext(roles \ left, op[s].idp, op[s].form)
    PROVE  Inv'
<1> DEFINE i == op[s].idp
           f == op[s].form
<1>1. EnvOK /\ op \in [Sessions -> Ops] /\ OpOK(s) /\ made \in Nat /\ op[s] \in Ops /\ ~At(s, "idle")
  BY EnvNow, NoneMade DEF Inv, At
<1>2. i \in 1..made /\ op[s].kind \in {"add", "edit"} /\ left \subseteq Roles
  BY <1>1 DEF OpOK, EnvOK
<1>3. op[s].ok => /\ i \in idps /\ secret[i] = op[s].secret /\ op[s].resolved = f.groups
                  /\ groups[i] = f.groups
  BY <1>2 DEF Inv, Reached
<1> HIDE DEF i, f
<1>4. (op[s].ok /\ ok) \in BOOLEAN
  BY <1>1, OpFields
<1>5. CASE left # {}
  <2> DEFINE q == [op[s] EXCEPT !.pc = "role", !.todo = left, !.role = None, !.current = {},
                                !.ok = @ /\ ok]
  <2>1. op' = [op EXCEPT ![s] = q] /\ flash' = flash
    BY <1>1, <1>5 DEF NextRole
  <2>2. /\ q.pc = "role" /\ q.kind = op[s].kind /\ q.idp = i /\ q.form = f /\ q.secret = op[s].secret
        /\ q.resolved = op[s].resolved /\ q.todo = left /\ q.current = {} /\ (q.ok <=> op[s].ok /\ ok)
    BY <1>1 DEF Ops, i, f
  <2>3. q \in Ops
    <3>1. \A k \in BOOLEAN : [op[s] EXCEPT !.pc = "role", !.todo = left, !.role = None, !.current = {},
                                           !.ok = k] \in Ops
      BY <1>1, <1>2 DEF Ops, Pcs
    <3> QED BY <1>4, <3>1
  <2> HIDE DEF q
  <2>4. op'[s] = q
    BY <1>1, <2>1
  <2>5. OpOK(s)'
    BY <1>1, <1>2, <2>2, <2>4 DEF OpOK, EnvStep
  <2>6. q.ok => Reached(s)'
    BY <1>3, <2>2, <2>4 DEF Reached, MappedNext, MappedAs, i, f
  <2>7. s \in alone => OthersNext(q.idp) = before
    BY <2>2 DEF i
  <2> QED BY <1>1, <2>1, <2>2, <2>3, <2>5, <2>6, <2>7, MoveInv
<1>6. CASE left = {} /\ op[s].kind = "add"
  <2> DEFINE q == [op[s] EXCEPT !.pc = "flow", !.todo = {}, !.role = None, !.current = {},
                                !.resolved = {}, !.ok = @ /\ ok]
  <2>1. op' = [op EXCEPT ![s] = q] /\ flash' = flash
    BY <1>1, <1>6 DEF NextRole
  <2>2. /\ q.pc = "flow" /\ q.kind = "add" /\ q.idp = i /\ q.form = f /\ q.secret = op[s].secret
        /\ q.current = {} /\ (q.ok <=> op[s].ok /\ ok)
    BY <1>1, <1>6 DEF Ops, i, f
  <2>3. q \in Ops
    <3>1. \A k \in BOOLEAN : [op[s] EXCEPT !.pc = "flow", !.todo = {}, !.role = None, !.current = {},
                                           !.resolved = {}, !.ok = k] \in Ops
      BY <1>1 DEF Ops, Pcs
    <3> QED BY <1>4, <3>1
  <2> HIDE DEF q
  <2>4. op'[s] = q
    BY <1>1, <2>1
  <2>5. OpOK(s)'
    BY <1>1, <1>2, <2>2, <2>4 DEF OpOK, EnvStep
  <2>6. q.ok => Reached(s)'
    <3>1. roles \ left = roles
      BY <1>6
    <3> QED BY <1>3, <2>2, <2>4, <3>1 DEF Reached, MappedNext, MappedAs, i, f
  <2>7. s \in alone => OthersNext(q.idp) = before
    BY <2>2 DEF i
  <2> QED BY <1>1, <2>1, <2>2, <2>3, <2>5, <2>6, <2>7, MoveInv
<1>7. CASE left = {} /\ op[s].kind # "add"
  <2>1. Redirect(s, "updated", ok)
    BY <1>7 DEF NextRole
  <2>2. op[s].ok /\ ok => MappedNext(roles, i, f)
    <3>1. roles \ left = roles
      BY <1>7
    <3> QED BY <3>1 DEF i, f
  <2> QED BY <1>1, <1>3, <2>1, <2>2, RedirectInv DEF MappedNext, i, f
<1> QED BY <1>5, <1>6, <1>7

LEMMA ListRolesInv ==
    ASSUME Inv, NEW s \in Sessions, ListRoles(s)
    PROVE  Inv'
<1>1. op[s].pc = "roles" /\ ~At(s, "idle") /\ UNCHANGED <<isVars, historyVars>>
  BY DEF ListRoles, At
<1>2. UNCHANGED <<made, idps, secret, groups, roles, mapped, flow, begun, alone, before, unread, last, lapsed>>
  BY <1>1 DEF isVars, historyVars, secretHistory
<1>3. EnvStep
  BY <1>1, EnvSame
<1>4. s \in alone => OthersNext(op[s].idp) = before
  BY <1>1, <1>2 DEF Inv, AloneOK, Others, OthersNext
<1>5. CASE NextRole(s, roles, TRUE)
  <2>1. MappedNext(roles \ roles, op[s].idp, op[s].form)
    BY DEF MappedNext
  <2> QED BY <1>1, <1>2, <1>3, <1>4, <1>5, <2>1, NextRoleInv
<1>6. CASE NextRole(s, {}, FALSE)
  BY <1>1, <1>2, <1>3, <1>4, <1>6, NextRoleInv
<1>7. CASE Raise(s)
  BY <1>1, <1>3, <1>7, RaiseInv
<1> QED BY <1>5, <1>6, <1>7 DEF ListRoles

LEMMA GetRoleFailsInv ==
    ASSUME Inv, NEW s \in Sessions, NEW r \in Roles, GetRoleFails(s, r)
    PROVE  Inv'
<1>1. op[s].pc = "role" /\ ~At(s, "idle") /\ UNCHANGED <<isVars, historyVars>>
  BY DEF GetRoleFails, At
<1>2. UNCHANGED <<made, idps, secret, groups, roles, mapped, flow, begun, alone, before, unread, last, lapsed>>
  BY <1>1 DEF isVars, historyVars, secretHistory
<1>3. EnvStep
  BY <1>1, EnvSame
<1>4. s \in alone => OthersNext(op[s].idp) = before
  BY <1>1, <1>2 DEF Inv, AloneOK, Others, OthersNext
<1>5. op[s].todo \ {r} \in SUBSET roles
  BY <1>1 DEF Inv, OpOK
<1>6. CASE NextRole(s, op[s].todo \ {r}, FALSE)
  BY <1>1, <1>2, <1>3, <1>4, <1>5, <1>6, NextRoleInv
<1>7. CASE Raise(s)
  BY <1>1, <1>3, <1>7, RaiseInv
<1> QED BY <1>6, <1>7 DEF GetRoleFails

LEMMA GetRoleInv ==
    ASSUME Inv, NEW s \in Sessions, NEW r \in Roles, GetRole(s, r)
    PROVE  Inv'
<1>1. /\ op[s].pc = "role" /\ ~At(s, "idle") /\ r \in op[s].todo
      /\ op' = [op EXCEPT ![s].pc = "patch", ![s].role = r, ![s].current = CurrentOf(r)]
      /\ flash' = flash /\ UNCHANGED <<isVars, historyVars>>
  BY DEF GetRole, At, CurrentOf
<1>2. UNCHANGED <<made, idps, secret, groups, roles, mapped, flow, begun, alone, before, unread, last, lapsed>>
  BY <1>1 DEF isVars, historyVars, secretHistory
<1>3. EnvStep
  BY <1>1, EnvSame
<1>4. EnvOK /\ op \in [Sessions -> Ops] /\ OpOK(s) /\ op[s] \in Ops /\ made \in Nat
  BY EnvNow, NoneMade DEF Inv
<1>5. CurrentOf(r) \subseteq (1..made) \X Groups
  BY <1>4 DEF EnvOK, CurrentOf
<1>6. CurrentOf(r) \in SUBSET (Ids \X Groups)
  BY <1>4, <1>5, NoneMade
<1> DEFINE q == [op[s] EXCEPT !.pc = "patch", !.role = r, !.current = CurrentOf(r)]
<1>7. op' = [op EXCEPT ![s] = q]
  BY <1>1, <1>4
<1>8. q \in Ops
  <2>1. \A c \in SUBSET (Ids \X Groups) : [op[s] EXCEPT !.pc = "patch", !.role = r, !.current = c] \in Ops
    BY <1>4 DEF Ops, Pcs
  <2> QED BY <1>6, <2>1
<1>9. /\ q.pc = "patch" /\ q.kind = op[s].kind /\ q.idp = op[s].idp /\ q.form = op[s].form
      /\ q.secret = op[s].secret /\ q.resolved = op[s].resolved /\ q.todo = op[s].todo
      /\ q.role = r /\ q.current = CurrentOf(r) /\ q.ok = op[s].ok
  BY <1>4 DEF Ops
<1> HIDE DEF q
<1>10. op'[s] = q
  BY <1>4, <1>7
<1>11. OpOK(s)'
  BY <1>1, <1>2, <1>4, <1>5, <1>9, <1>10 DEF OpOK
<1>12. q.ok => Reached(s)
  BY <1>9 DEF Inv
<1>13. q.ok => Reached(s)'
  <2>1. SUFFICES ASSUME q.ok PROVE Reached(s)'
    OBVIOUS
  <2>2. op[s].kind \in {"add", "edit"}
    BY <1>1, <1>4 DEF OpOK
  <2>3. /\ op[s].idp \in idps /\ secret[op[s].idp] = op[s].secret
        /\ op[s].resolved = op[s].form.groups /\ groups[op[s].idp] = op[s].form.groups
        /\ MappedAs(roles \ op[s].todo, op[s].idp, op[s].form)
    BY <1>1, <1>12, <2>1, <2>2 DEF Reached
  <2>4. MappedAs(roles \ op[s].todo, op[s].idp, op[s].form)'
    BY <1>2, <1>9, <1>10, <2>3 DEF MappedAs
  <2> QED BY <1>2, <1>9, <1>10, <2>3, <2>4 DEF Reached
<1>14. s \in alone => OthersNext(q.idp) = before
  BY <1>1, <1>2, <1>9 DEF Inv, AloneOK, Others, OthersNext
<1>15. q.current = CurrentNext(q.role)
  BY <1>2, <1>9 DEF CurrentOf, CurrentNext
<1> QED BY <1>1, <1>3, <1>7, <1>8, <1>11, <1>13, <1>14, <1>15, MoveInv

(* The PATCH of a role: its groups of other providers as they were read, *)
(* those of this provider as the form says.                              *)
LEMMA CombinedHolds ==
    ASSUME Inv, NEW s \in Sessions, op[s].pc = "patch"
    PROVE  /\ Combined(s) \subseteq (1..made) \X Groups
           /\ \A c \in Combined(s) : c[1] # op[s].idp => c \in op[s].current
           /\ \A c \in op[s].current : c[1] # op[s].idp => c \in Combined(s)
           /\ op[s].resolved = op[s].form.groups =>
                 \A g \in op[s].form.groups :
                    <<op[s].idp, g>> \in Combined(s) <=> g \in op[s].form.checked[op[s].role]
<1> DEFINE i == op[s].idp
           res == op[s].resolved
           sel == op[s].form.checked[op[s].role] \cap op[s].resolved
<1>1. /\ op[s] \in Ops /\ i \in 1..made /\ op[s].current \subseteq (1..made) \X Groups
      /\ res \subseteq Groups /\ op[s].form.groups \subseteq Groups
  <2>1. op[s] \in Ops /\ OpOK(s)
    BY EnvNow DEF Inv
  <2> QED BY <2>1, OpFields DEF OpOK
<1>2. Own(s) = {i} \X res /\ Selected(s) = {i} \X sel /\ sel \subseteq res
  BY DEF Own, Selected
<1>3. Combined(s) = (op[s].current \ Own(s)) \cup Selected(s)
  BY DEF Combined
<1>4. res = op[s].form.groups =>
        \A g \in op[s].form.groups : g \in sel <=> g \in op[s].form.checked[op[s].role]
  OBVIOUS
<1> HIDE DEF i, res, sel
<1>5. \A c \in Own(s) \cup Selected(s) : c[1] = i
  BY <1>2
<1>6. Selected(s) \subseteq (1..made) \X Groups
  BY <1>1, <1>2
<1>7. \A g \in res : <<i, g>> \in Combined(s) <=> g \in sel
  BY <1>2, <1>3
<1> QED BY <1>1, <1>3, <1>4, <1>5, <1>6, <1>7 DEF i, res

LEMMA Triples ==
    ASSUME EnvOK, NEW m \in mapped
    PROVE  m = <<m[1], m[2], m[3]>> /\ m[1] \in roles /\ m[2] \in 1..made /\ m[3] \in Groups
BY DEF EnvOK

LEMMA PatchRoleInv ==
    ASSUME Inv, NEW s \in Sessions, PatchRole(s)
    PROVE  Inv'
<1> DEFINE r == op[s].role
           i == op[s].idp
           f == op[s].form
<1>1. /\ op[s].pc = "patch" /\ ~At(s, "idle")
      /\ UNCHANGED <<made, idps, secret, groups, roles, flow, begun, alone, before, unread, last, lapsed>>
  BY DEF PatchRole, At, historyVars, secretHistory
<1>2. EnvOK /\ op \in [Sessions -> Ops] /\ OpOK(s) /\ op[s] \in Ops /\ made \in Nat
  BY EnvNow, NoneMade DEF Inv
<1>3. r \in op[s].todo /\ op[s].todo \subseteq roles /\ op[s].todo \ {r} \in SUBSET roles /\ r \in roles
      /\ i \in 1..made /\ op[s].kind \in {"add", "edit"}
  BY <1>1, <1>2 DEF OpOK
<1>4. s \in alone => Others(i) = before /\ op[s].current = CurrentOf(r)
  BY <1>1 DEF Inv, AloneOK, At
<1>5. op[s].ok => op[s].resolved = f.groups /\ MappedAs(roles \ op[s].todo, i, f) /\ s \in alone
  BY <1>1, <1>2 DEF Inv, Reached, OpOK
<1>6. /\ Combined(s) \subseteq (1..made) \X Groups
      /\ \A c \in Combined(s) : c[1] # i => c \in op[s].current
      /\ \A c \in op[s].current : c[1] # i => c \in Combined(s)
      /\ op[s].resolved = f.groups =>
            \A g \in f.groups : <<i, g>> \in Combined(s) <=> g \in f.checked[r]
  BY <1>1, CombinedHolds
<1> HIDE DEF r, i, f
<1>7. ASSUME mapped' = {m \in mapped : m[1] # r} \cup {<<r, c[1], c[2]>> : c \in Combined(s)},
             NextRole(s, op[s].todo \ {r}, TRUE) \/ Raise(s)
      PROVE  Inv'
  <2>1. \A c \in Combined(s) : c = <<c[1], c[2]>> /\ c[1] \in 1..made /\ c[2] \in Groups
    BY <1>6
  <2>2. ASSUME NEW m \in mapped' PROVE m \in roles \X (1..made) \X Groups
    <3>1. CASE m \in mapped
      BY <1>2, <3>1 DEF EnvOK
    <3>2. CASE m \notin mapped
      <4>1. PICK c \in Combined(s) : m = <<r, c[1], c[2]>>
        BY <1>7, <3>2
      <4> QED BY <1>3, <2>1, <4>1
    <3> QED BY <3>1, <3>2
  <2>3. EnvStep
    <3>1. mapped' \subseteq roles' \X (1..made') \X Groups
      BY <1>1, <2>2
    <3> QED BY <1>1, <1>2, <3>1 DEF EnvOK, EnvStep, NotEmptied
  <2>4. ASSUME s \in alone PROVE OthersNext(i) = before
    <3>1. ASSUME NEW m \in mapped', m[2] # i PROVE m \in mapped
      <4>1. SUFFICES ASSUME m \notin mapped PROVE FALSE
        OBVIOUS
      <4>2. PICK c \in Combined(s) : m = <<r, c[1], c[2]>>
        BY <1>7, <4>1
      <4>3. c[1] # i
        BY <3>1, <4>2
      <4>4. c \in CurrentOf(r)
        BY <1>4, <1>6, <2>4, <4>3
      <4>5. PICK n \in mapped : n[1] = r /\ c = <<n[2], n[3]>>
        BY <4>4 DEF CurrentOf
      <4>6. n = <<r, c[1], c[2]>>
        BY <1>2, <4>5, Triples
      <4> QED BY <4>1, <4>2, <4>6
    <3>2. ASSUME NEW m \in mapped, m[2] # i PROVE m \in mapped'
      <4>1. CASE m[1] # r
        BY <1>7, <4>1
      <4>2. CASE m[1] = r
        <5> DEFINE c == <<m[2], m[3]>>
        <5>1. c \in CurrentOf(r)
          BY <4>2 DEF CurrentOf
        <5>2. c[1] = m[2] /\ c[2] = m[3]
          OBVIOUS
        <5> HIDE DEF c
        <5>3. c \in Combined(s)
          BY <1>4, <1>6, <2>4, <3>2, <5>1, <5>2
        <5>4. m = <<r, c[1], c[2]>>
          BY <1>2, <4>2, <5>2, Triples
        <5> QED BY <1>7, <5>3, <5>4
      <4> QED BY <4>1, <4>2
    <3>3. OthersNext(i) = Others(i)
      BY <3>1, <3>2 DEF OthersNext, Others
    <3> QED BY <1>4, <2>4, <3>3
  <2>5. ASSUME op[s].ok PROVE MappedNext(roles \ (op[s].todo \ {r}), i, f)
    <3>1. ASSUME NEW p \in roles \ op[s].todo, NEW g \in f.groups
          PROVE  <<p, i, g>> \in mapped' <=> g \in f.checked[p]
      <4>1. p # r
        BY <1>3, <3>1
      <4>2. <<p, i, g>>[1] = p
        OBVIOUS
      <4>3. \A c \in Combined(s) : <<p, i, g>> # <<r, c[1], c[2]>>
        BY <4>1
      <4>4. <<p, i, g>> \in mapped' <=> <<p, i, g>> \in mapped
        BY <1>7, <4>1, <4>2, <4>3
      <4> QED BY <1>5, <2>5, <3>1, <4>4 DEF MappedAs
    <3>2. ASSUME NEW g \in f.groups PROVE <<r, i, g>> \in mapped' <=> g \in f.checked[r]
      <4>1. <<r, i, g>>[1] = r
        OBVIOUS
      <4>2. <<r, i, g>> \in mapped' <=> \E c \in Combined(s) : <<r, i, g>> = <<r, c[1], c[2]>>
        BY <1>7, <4>1
      <4>3. \A c \in Combined(s) : <<r, i, g>> = <<r, c[1], c[2]>> <=> c = <<i, g>>
        BY <2>1
      <4>4. <<r, i, g>> \in mapped' <=> <<i, g>> \in Combined(s)
        BY <4>2, <4>3
      <4> QED BY <1>5, <1>6, <2>5, <4>4
    <3> QED BY <3>1, <3>2 DEF MappedNext
  <2>6. CASE Raise(s)
    BY <1>1, <2>3, <2>6, RaiseInv
  <2>7. CASE NextRole(s, op[s].todo \ {r}, TRUE)
    BY <1>1, <1>3, <2>3, <2>4, <2>5, <2>7, NextRoleInv DEF i, f
  <2> QED BY <1>7, <2>6, <2>7
<1>8. ASSUME mapped' = mapped, NextRole(s, op[s].todo \ {r}, FALSE) \/ Raise(s)
      PROVE  Inv'
  <2>1. EnvStep
    <3>1. UNCHANGED <<isVars, historyVars>>
      BY <1>1, <1>8 DEF isVars, historyVars, secretHistory
    <3> QED BY <3>1, EnvSame
  <2>2. s \in alone => OthersNext(i) = before
    BY <1>4, <1>8 DEF Others, OthersNext
  <2>3. CASE Raise(s)
    BY <1>1, <2>1, <2>3, RaiseInv
  <2>4. CASE NextRole(s, op[s].todo \ {r}, FALSE)
    BY <1>1, <1>3, <2>1, <2>2, <2>4, NextRoleInv DEF i, f
  <2> QED BY <1>8, <2>3, <2>4
<1> QED BY <1>7, <1>8 DEF PatchRole, r

-----------------------------------------------------------------------------
(* The login flow and delete_idp. *)

LEMMA PatchAuthSequenceInv ==
    ASSUME Inv, NEW s \in Sessions, PatchAuthSequence(s)
    PROVE  Inv'
<1> DEFINE i == op[s].idp
<1>1. /\ op[s].pc = "flow" /\ ~At(s, "idle")
      /\ UNCHANGED <<made, idps, secret, groups, roles, mapped, begun, alone, before, unread, last, lapsed>>
  BY DEF PatchAuthSequence, At, historyVars, secretHistory
<1>2. EnvOK /\ op \in [Sessions -> Ops] /\ OpOK(s) /\ op[s] \in Ops /\ made \in Nat
  BY EnvNow, NoneMade DEF Inv
<1>3. i \in 1..made /\ op[s].kind \in {"add", "delete"}
  BY <1>1, <1>2 DEF OpOK
<1>4. s \in alone => Others(i) = before
  BY <1>1 DEF Inv, AloneOK, At
<1>5. op[s].ok /\ op[s].kind = "add" =>
         /\ i \in idps /\ secret[i] = op[s].secret /\ groups[i] = op[s].form.groups
         /\ MappedAs(roles, i, op[s].form)
  BY <1>1 DEF Inv, Reached
<1> HIDE DEF i
<1>6. PICK done \in {d \in BOOLEAN : d => AuthSequence(s) \subseteq idps \cup {LOCAL_IDP}} :
          /\ flow' = IF done THEN AuthSequence(s) ELSE flow
          /\ \/ IF op[s].kind = "add" THEN Redirect(s, "created", done)
                ELSE IF done THEN Goto(s, "remove") ELSE PassOver(s, "remove")
             \/ Raise(s)
  BY DEF PatchAuthSequence
<1>7. done \in BOOLEAN /\ (done => AuthSequence(s) \subseteq idps \cup {LOCAL_IDP})
  OBVIOUS
<1>8. EnvStep
  <2>1. AuthSequence(s) # {}
    BY DEF AuthSequence
  <2>2. flow' \subseteq idps \cup {LOCAL_IDP} /\ flow' # {}
    BY <1>2, <1>6, <1>7, <2>1 DEF EnvOK
  <2> QED BY <1>1, <1>2, <2>2 DEF EnvOK, EnvStep, NotEmptied
<1>9. CASE Raise(s)
  BY <1>1, <1>8, <1>9, RaiseInv
<1>10. CASE op[s].kind = "add" /\ Redirect(s, "created", done)
  <2>1. done => flow' = {LOCAL_IDP, i}
    BY <1>6, <1>10 DEF AuthSequence, i
  <2>2. MappedAs(roles, i, op[s].form) =>
           \A r \in roles', g \in op[s].form.groups :
              <<r, i, g>> \in mapped' <=> g \in op[s].form.checked[r]
    BY <1>1 DEF MappedAs
  <2> QED BY <1>1, <1>5, <1>7, <1>8, <1>10, <2>1, <2>2, RedirectInv DEF i
<1>11. CASE /\ op[s].kind # "add"
            /\ IF done THEN Goto(s, "remove") ELSE PassOver(s, "remove")
  <2>1. /\ flash' = flash /\ "remove" \in Pcs
        /\ \/ OnTo(s, "remove") /\ done
           \/ OnToDespite(s, "remove") /\ ~done
    BY <1>7, <1>11 DEF OnTo, OnToDespite, Goto, PassOver, Pcs
  <2>2. PICK q \in Ops :
              /\ op' = [op EXCEPT ![s] = q] /\ op'[s] = q
              /\ q.pc = "remove" /\ q.kind = op[s].kind /\ q.idp = op[s].idp /\ q.form = op[s].form
              /\ q.secret = op[s].secret /\ q.resolved = op[s].resolved /\ q.todo = op[s].todo
              /\ q.current = op[s].current /\ (q.ok => op[s].ok /\ OnTo(s, "remove"))
    BY <2>1, OnToRecord
  <2>3. OpOK(s)'
    BY <1>1, <1>2, <1>3, <1>11, <2>2 DEF OpOK, i
  <2>4. q.ok => done
    <3>1. OnToDespite(s, "remove") => ~op'[s].ok
      BY <1>2 DEF OnToDespite
    <3> QED BY <2>1, <2>2, <3>1
  <2>5. q.ok => flow' = {LOCAL_IDP}
    BY <1>6, <1>11, <2>4 DEF AuthSequence
  <2>6. q.ok => Reached(s)'
    BY <2>2, <2>5 DEF Reached
  <2>7. s \in alone => OthersNext(q.idp) = before
    BY <1>1, <1>4, <2>2 DEF Others, OthersNext, i
  <2> QED BY <1>1, <1>8, <2>1, <2>2, <2>3, <2>6, <2>7, MoveInv
<1> QED BY <1>6, <1>9, <1>10, <1>11

LEMMA RemoveIdpInv ==
    ASSUME Inv, NEW s \in Sessions, RemoveIdp(s)
    PROVE  Inv'
<1>1. /\ op[s].pc = "remove" /\ ~At(s, "idle") /\ op[s].idp \in idps \ flow
      /\ idps' = idps \ {op[s].idp}
      /\ UNCHANGED <<made, secret, groups, roles, mapped, flow, begun, alone, before, unread, last, lapsed>>
  BY DEF RemoveIdp, At, historyVars, secretHistory
<1>2. EnvOK /\ made \in Nat
  BY EnvNow, NoneMade
<1>3. idps' \subseteq 1..made' /\ flow' \subseteq idps' \cup {LOCAL_IDP}
  BY <1>1, <1>2 DEF EnvOK
<1>4. EnvStep
  BY <1>1, <1>2, <1>3 DEF EnvOK, EnvStep, NotEmptied
<1>5. CASE Raise(s)
  BY <1>1, <1>4, <1>5, RaiseInv
<1>6. CASE Redirect(s, "deleted", TRUE)
  BY <1>1, <1>4, <1>6, RedirectInv
<1> QED BY <1>5, <1>6 DEF RemoveIdp

LEMMA RemoveFailsInv ==
    ASSUME Inv, NEW s \in Sessions, RemoveFails(s)
    PROVE  Inv'
<1>1. /\ op[s].pc = "remove" /\ ~At(s, "idle") /\ UNCHANGED <<isVars, historyVars>>
  BY DEF RemoveFails, At
<1>2. idps' = idps
  BY <1>1 DEF isVars
<1>3. EnvStep
  BY <1>1, EnvSame
<1>4. op[s].ok => op[s].idp \in 1..made /\ flow = {LOCAL_IDP}
  BY <1>1 DEF Inv, OpOK, Reached
<1>5. CASE Raise(s)
  BY <1>1, <1>3, <1>5, RaiseInv
<1>6. CASE Redirect(s, "kept", op[s].idp \notin idps \ flow)
  <2>1. (op[s].idp \notin idps \ flow) \in BOOLEAN
    OBVIOUS
  <2>2. op[s].ok /\ op[s].idp \notin idps \ flow => op[s].idp \notin idps
    BY <1>4, EnvNow, NoneMade DEF LOCAL_IDP
  <2> QED BY <1>1, <1>2, <1>3, <1>6, <2>1, <2>2, RedirectInv
<1> QED BY <1>5, <1>6 DEF RemoveFails

LEMMA HandlerStepInv ==
    ASSUME Inv, NEW s \in Sessions, HandlerStep(s)
    PROVE  Inv'
BY EnsureRoleInv, GetRoleInv, GetRoleFailsInv, CreateIdpInv, FetchIdpPropsInv, PutAuthenticatorInv,
   PutGroupsInv, ListRolesInv, PatchRoleInv, PatchAuthSequenceInv, RemoveIdpInv, RemoveFailsInv
   DEF HandlerStep

-----------------------------------------------------------------------------
(* Requests that begin, and the one that is a single call. *)

LEMMA BeginInv ==
    ASSUME Inv, NEW s \in Sessions,
           NEW kind \in {"add", "edit", "delete"}, NEW pc \in Pcs, NEW i \in Ids \cup {None},
           NEW f \in Forms, NEW k \in Secrets \cup {None}, Begin(s, kind, pc, i, f, k),
           \/ kind = "add" /\ pc = "ensure" /\ i = None /\ k # None
           \/ kind = "edit" /\ pc = "props" /\ i \in 1..made
           \/ kind = "delete" /\ pc = "flow" /\ i \in 1..made
    PROVE  Inv'
<1> DEFINE undisturbed == \A other \in Sessions : At(other, "idle")
           td == IF kind = "add" THEN Roles ELSE {}
           q == [NoOp EXCEPT !.pc = pc, !.kind = kind, !.idp = i, !.form = f, !.secret = k,
                             !.todo = td, !.ok = undisturbed]
<1>1. /\ begun < MaxRequests /\ begun' = begun + 1
      /\ op' = [t \in Sessions |-> IF t # s THEN [op[t] EXCEPT !.ok = FALSE] ELSE q]
      /\ alone' = IF undisturbed THEN {s} ELSE {}
      /\ before' = IF undisturbed THEN Others(i) ELSE {}
      /\ flash' = NoFlash
      /\ UNCHANGED <<made, idps, secret, groups, roles, mapped, flow, unread, last, lapsed>>
  BY DEF Begin, isVars, secretHistory
<1>2. EnvOK /\ op \in [Sessions -> Ops] /\ made \in Nat
  BY EnvNow, NoneMade
<1>3. undisturbed \in BOOLEAN /\ td \in SUBSET Roles
  OBVIOUS
<1>4. q \in Ops
  <2> HIDE DEF undisturbed, td
  <2>1. NoOp \in Ops
    BY Blanks
  <2> QED BY <1>3, <2>1 DEF Ops
<1>5. /\ q.pc = pc /\ q.kind = kind /\ q.idp = i /\ q.secret = k /\ q.current = {}
      /\ (q.ok <=> undisturbed)
  BY DEF NoOp
<1> HIDE DEF q, td
<1>6. op' \in [Sessions -> Ops] /\ op'[s] = q
  <2>1. \A t \in Sessions : [op[t] EXCEPT !.ok = FALSE] \in Ops
    BY <1>2 DEF Ops
  <2> QED BY <1>1, <1>4, <2>1
<1>7. ASSUME NEW t \in Sessions, t # s
      PROVE  /\ ~op'[t].ok /\ op'[t].pc = op[t].pc /\ op'[t].kind = op[t].kind /\ op'[t].idp = op[t].idp
             /\ op'[t].secret = op[t].secret /\ op'[t].todo = op[t].todo /\ op'[t].role = op[t].role
             /\ op'[t].current = op[t].current
  <2>1. op'[t] = [op[t] EXCEPT !.ok = FALSE] /\ op[t] \in Ops
    BY <1>1, <1>2, <1>7
  <2> QED BY <2>1 DEF Ops
<1>8. OpOK(s)'
  BY <1>1, <1>5, <1>6 DEF OpOK
<1>9. ASSUME NEW t \in Sessions PROVE OpOK(t)' /\ (op'[t].ok => Reached(t)')
  <2>1. CASE t = s
    BY <1>5, <1>6, <1>8, <2>1 DEF Reached
  <2>2. CASE t # s
    <3>1. OpOK(t)
      BY DEF Inv
    <3>2. /\ ~op'[t].ok /\ op'[t].pc = op[t].pc /\ op'[t].kind = op[t].kind /\ op'[t].idp = op[t].idp
          /\ op'[t].secret = op[t].secret /\ op'[t].todo = op[t].todo /\ op'[t].role = op[t].role
          /\ op'[t].current = op[t].current
      BY <1>7, <2>2
    <3>3. made' = made /\ roles' = roles /\ unread' = unread
      BY <1>1
    <3> QED BY <3>1, <3>2, <3>3 DEF OpOK
  <2> QED BY <2>1, <2>2
<1>10. ASSUME NEW t \in alone' PROVE AloneOK(t)'
  <2>1. t = s /\ undisturbed /\ before' = Others(i)
    BY <1>1, <1>10
  <2>2. \A other \in Sessions \ {s} : At(other, "idle")'
    BY <1>7, <2>1 DEF At
  <2>3. Others(op[s].idp)' = before'
    BY <1>1, <1>5, <1>6, <2>1 DEF Others
  <2> QED BY <1>5, <1>6, <2>1, <2>2, <2>3 DEF AloneOK, At
<1>11. flash' \in Flashes /\ ~flash'.ok
  BY <1>1, Blanks DEF NoFlash
<1>12. before' \subseteq Roles \X Ids \X Groups
  <2>1. mapped \subseteq Roles \X Ids \X Groups
    BY <1>2, NoneMade DEF EnvOK
  <2> QED BY <1>1, <2>1 DEF Others
<1>13. alone' \subseteq Sessions /\ Cardinality(alone') <= 1
  <2>1. Cardinality({s}) = 1 /\ Cardinality({}) = 0
    BY FS_EmptySet, FS_Singleton
  <2>2. alone' = {s} \/ alone' = {}
    BY <1>1
  <2> QED BY <2>1, <2>2
<1>14. begun' \in 0..MaxRequests
  BY <1>1, <1>2 DEF EnvOK
<1>15. TypeOK' /\ NotEmptied'
  BY <1>1, <1>2, <1>6, <1>11, <1>12, <1>13, <1>14 DEF EnvOK, TypeOK, NotEmptied
<1>16. FormTakesEffect' /\ DeletionNotBlocked'
  BY <1>11 DEF FormTakesEffect, DeletionNotBlocked
<1> QED BY <1>9, <1>10, <1>11, <1>15, <1>16 DEF Inv

LEMMA UpdateLoginFlowInv ==
    ASSUME Inv, NEW s \in Sessions, NEW options, UpdateLoginFlow(s, options)
    PROVE  Inv'
<1>1. /\ begun < MaxRequests /\ begun' = begun + 1
      /\ options # {} /\ options \subseteq idps \cup {LOCAL_IDP} /\ flow' = options
      /\ op' = [t \in Sessions |-> [op[t] EXCEPT !.ok = FALSE]]
      /\ alone' = {} /\ before' = {} /\ flash' = NoFlash
      /\ UNCHANGED <<made, idps, secret, groups, roles, mapped, unread, last, lapsed>>
  BY DEF UpdateLoginFlow, Interfere, secretHistory
<1>2. EnvOK /\ op \in [Sessions -> Ops] /\ made \in Nat
  BY EnvNow, NoneMade
<1>3. ASSUME NEW t \in Sessions
      PROVE  /\ op'[t] \in Ops
             /\ ~op'[t].ok /\ op'[t].pc = op[t].pc /\ op'[t].kind = op[t].kind /\ op'[t].idp = op[t].idp
             /\ op'[t].secret = op[t].secret /\ op'[t].todo = op[t].todo /\ op'[t].role = op[t].role
             /\ op'[t].current = op[t].current
  <2>1. op'[t] = [op[t] EXCEPT !.ok = FALSE] /\ op[t] \in Ops
    BY <1>1, <1>2
  <2> QED BY <2>1 DEF Ops
<1>4. ASSUME NEW t \in Sessions PROVE OpOK(t)' /\ ~op'[t].ok
  <2>1. OpOK(t)
    BY DEF Inv
  <2> QED BY <1>1, <1>3, <2>1 DEF OpOK
<1>5. flash' \in Flashes /\ ~flash'.ok
  BY <1>1, Blanks DEF NoFlash
<1>6. Cardinality(alone') <= 1
  BY <1>1, FS_EmptySet
<1>7. op' \in [Sessions -> Ops]
  BY <1>1, <1>3
<1>8. begun' \in 0..MaxRequests
  BY <1>1, <1>2 DEF EnvOK
<1>9. TypeOK' /\ NotEmptied'
  BY <1>1, <1>2, <1>5, <1>6, <1>7, <1>8 DEF EnvOK, TypeOK, NotEmptied
<1>10. FormTakesEffect' /\ DeletionNotBlocked'
  BY <1>5 DEF FormTakesEffect, DeletionNotBlocked
<1> QED BY <1>1, <1>4, <1>5, <1>9, <1>10 DEF Inv

LEMMA StillInv ==
    ASSUME Inv, UNCHANGED <<isVars, op, historyVars>>, flash' \in {flash, NoFlash}
    PROVE  Inv'
<1>1. UNCHANGED <<made, idps, secret, groups, roles, mapped, flow, op, begun, alone, before, unread, last, lapsed>>
  BY DEF isVars, historyVars, secretHistory
<1>2. EnvOK /\ op \in [Sessions -> Ops] /\ flash \in Flashes
  BY EnvNow
<1>3. flash' \in Flashes /\ (flash'.ok => flash' = flash)
  <2>1. NoFlash \in Flashes /\ ~NoFlash.ok
    BY Blanks DEF NoFlash
  <2> QED BY <1>2, <2>1
<1>4. TypeOK' /\ NotEmptied'
  BY <1>1, <1>2, <1>3 DEF EnvOK, TypeOK, NotEmptied
<1>5. FormTakesEffect' /\ DeletionNotBlocked'
  <2>1. CASE flash' = flash
    BY <1>1, <2>1 DEF Inv, FormTakesEffect, DeletionNotBlocked
  <2>2. CASE flash' # flash
    BY <1>3, <2>2 DEF FormTakesEffect, DeletionNotBlocked
  <2> QED BY <2>1, <2>2
<1>6. \A s \in Sessions : OpOK(s)' /\ (op'[s].ok => Reached(s)')
  BY <1>1 DEF Inv, OpOK, Reached, MappedAs
<1>7. \A s \in alone' : AloneOK(s)'
  BY <1>1 DEF Inv, AloneOK, At, Others, CurrentOf
<1>8. flash'.ok => \A s \in Sessions : At(s, "idle")'
  BY <1>1, <1>3 DEF Inv, At
<1> QED BY <1>4, <1>5, <1>6, <1>7, <1>8 DEF Inv

-----------------------------------------------------------------------------

LEMMA InvInit == Init => Inv
<1>1. SUFFICES ASSUME Init PROVE Inv
  OBVIOUS
<1>2. /\ begun = 0 /\ made = 0 /\ idps = {}
      /\ secret = [i \in Ids |-> None] /\ groups = [i \in Ids |-> {}]
      /\ roles \subseteq Roles /\ mapped = {} /\ flow = {LOCAL_IDP}
      /\ op = [s \in Sessions |-> NoOp] /\ flash = NoFlash
      /\ alone = {} /\ before = {} /\ unread = {} /\ last = secret /\ lapsed = {}
  BY <1>1 DEF Init
<1>3. NoOp \in Ops /\ NoFlash \in Flashes /\ ~NoFlash.ok
  BY Blanks DEF NoFlash
<1>4. \A s \in Sessions : op[s] = NoOp
  BY <1>2
<1>5. Cardinality(alone) <= 1
  BY <1>2, FS_EmptySet
<1>6. TypeOK /\ NotEmptied
  BY <1>2, <1>3, <1>5 DEF TypeOK, NotEmptied
<1>7. FormTakesEffect /\ DeletionNotBlocked
  BY <1>2, <1>3 DEF FormTakesEffect, DeletionNotBlocked
<1>8. \A s \in Sessions : OpOK(s) /\ ~op[s].ok
  BY <1>4 DEF OpOK, NoOp
<1> QED BY <1>2, <1>3, <1>6, <1>7, <1>8 DEF Inv

LEMMA InvNext == Inv /\ [Next]_vars => Inv'
<1> SUFFICES ASSUME Inv, [Next]_vars PROVE Inv'
  OBVIOUS
<1>1. ASSUME NEW s \in Sessions, NEW f \in Forms, NEW k \in Secrets \cup {None}, AddIdp(s, f, k)
      PROVE  Inv'
  <2>1. k # None /\ Begin(s, "add", "ensure", None, f, k) /\ "ensure" \in Pcs
    BY <1>1 DEF AddIdp, Pcs
  <2> QED BY <2>1, BeginInv
<1>2. ASSUME NEW s \in Sessions, NEW f \in Forms, NEW k \in Secrets \cup {None}, NEW i \in Ids,
             EditIdp(s, i, f, k)
      PROVE  Inv'
  <2>1. i \in 1..made /\ Begin(s, "edit", "props", i, f, k) /\ "props" \in Pcs
    BY <1>2 DEF EditIdp, Pcs
  <2> QED BY <2>1, BeginInv
<1>3. ASSUME NEW s \in Sessions, NEW i \in Ids, DeleteIdp(s, i) PROVE Inv'
  <2>1. i \in 1..made /\ Begin(s, "delete", "flow", i, NoForm, None) /\ "flow" \in Pcs
    BY <1>3 DEF DeleteIdp, Pcs
  <2> QED BY <2>1, BeginInv, Blanks
<1>4. ASSUME NEW s \in Sessions, NEW options, UpdateLoginFlow(s, options) PROVE Inv'
  BY <1>4, UpdateLoginFlowInv
<1>5. ASSUME NEW s \in Sessions, ShowPage(s) PROVE Inv'
  BY <1>5, StillInv DEF ShowPage
<1>6. ASSUME NEW s \in Sessions, HandlerStep(s) PROVE Inv'
  BY <1>6, HandlerStepInv
<1>7. CASE UNCHANGED vars
  BY <1>7, StillInv DEF vars
<1> QED BY <1>1, <1>2, <1>3, <1>4, <1>5, <1>6, <1>7 DEF Next

LEMMA InvAlways == Spec => []Inv
BY InvInit, InvNext, PTL DEF Spec

-----------------------------------------------------------------------------
(* What an edit with a blank field puts back. *)

(* What another session holds does not change with a step of s. *)
SameFor(t) == op'[t].pc = op[t].pc /\ op'[t].idp = op[t].idp /\ op'[t].secret = op[t].secret

(* The steps that write no secret and leave no request about to put one    *)
(* back.                                                                   *)
Passes(s) ==
    /\ \A t \in Sessions \ {s} : op'[t] = op[t]
    /\ op'[s].pc # "keep"
    /\ UNCHANGED <<made, secret, last, lapsed>>

LEMMA KeptSame ==
    ASSUME KeptOK, UNCHANGED <<made, secret, last, lapsed>>,
           \A t \in Sessions : SameFor(t) \/ op'[t].pc # "keep"
    PROVE  KeptOK'
BY DEF KeptOK, SameFor, At

LEMMA KeptPasses == ASSUME KeptOK, NEW s \in Sessions, Passes(s) PROVE KeptOK'
<1>1. \A t \in Sessions : SameFor(t) \/ op'[t].pc # "keep"
  BY DEF Passes, SameFor
<1> QED BY <1>1, KeptSame DEF Passes

(* Any change of the record of s that leads to another pc. *)
LEMMA PassesMoved ==
    ASSUME Inv, NEW s \in Sessions, NEW q, op' = [op EXCEPT ![s] = q], q.pc # "keep",
           UNCHANGED <<made, secret, last, lapsed>>
    PROVE  Passes(s)
<1>1. op \in [Sessions -> Ops]
  BY EnvNow
<1>2. op'[s] = q /\ \A t \in Sessions \ {s} : op'[t] = op[t]
  BY <1>1
<1> QED BY <1>2 DEF Passes

LEMMA PassesIdle ==
    ASSUME Inv, NEW s \in Sessions, op' = [op EXCEPT ![s] = NoOp],
           UNCHANGED <<made, secret, last, lapsed>>
    PROVE  Passes(s)
<1>1. NoOp.pc # "keep"
  BY DEF NoOp
<1> QED BY <1>1, PassesMoved

LEMMA PassesRaised ==
    ASSUME Inv, NEW s \in Sessions, Raise(s), UNCHANGED <<made, secret, last, lapsed>>
    PROVE  Passes(s)
BY PassesIdle DEF Raise

LEMMA PassesRole ==
    ASSUME Inv, NEW s \in Sessions, NEW left, NEW ok, NextRole(s, left, ok),
           UNCHANGED <<made, secret, last, lapsed>>
    PROVE  Passes(s)
<1>1. op \in [Sessions -> Ops] /\ op[s] \in Ops
  BY EnvNow
<1>2. CASE left # {}
  <2> DEFINE q == [op[s] EXCEPT !.pc = "role", !.todo = left, !.role = None, !.current = {},
                                !.ok = @ /\ ok]
  <2>1. op' = [op EXCEPT ![s] = q] /\ q.pc # "keep"
    BY <1>1, <1>2 DEF NextRole, Ops
  <2> HIDE DEF q
  <2> QED BY <2>1, PassesMoved
<1>3. CASE left = {} /\ op[s].kind = "add"
  <2> DEFINE q == [op[s] EXCEPT !.pc = "flow", !.todo = {}, !.role = None, !.current = {},
                                !.resolved = {}, !.ok = @ /\ ok]
  <2>1. op' = [op EXCEPT ![s] = q] /\ q.pc # "keep"
    BY <1>1, <1>3 DEF NextRole, Ops
  <2> HIDE DEF q
  <2> QED BY <2>1, PassesMoved
<1>4. CASE left = {} /\ op[s].kind # "add"
  BY <1>4, PassesIdle DEF NextRole, Redirect
<1> QED BY <1>2, <1>3, <1>4

LEMMA OtherStepsPass ==
    ASSUME Inv, NEW s \in Sessions, HandlerStep(s), ~CreateIdp(s), ~FetchIdpProps(s),
           ~PutAuthenticator(s)
    PROVE  Passes(s)
<1> USE DEF isVars, historyVars, secretHistory
<1>1. op \in [Sessions -> Ops] /\ op[s] \in Ops
  BY EnvNow
<1>2. ASSUME NEW r \in Roles, EnsureRole(s, r) PROVE Passes(s)
  <2> DEFINE q == [op[s] EXCEPT !.todo = @ \ {r}, !.pc = IF op[s].todo = {r} THEN "create" ELSE @,
                                !.ok = @ /\ r \in roles']
  <2>1. UNCHANGED <<made, secret, last, lapsed>> /\ op[s].pc = "ensure"
    BY <1>2 DEF EnsureRole, At
  <2>2. q.pc # "keep"
    BY <1>1, <2>1 DEF Ops
  <2>3. op' = [op EXCEPT ![s] = q] \/ Raise(s)
    BY <1>1, <1>2 DEF EnsureRole
  <2> HIDE DEF q
  <2> QED BY <2>1, <2>2, <2>3, PassesMoved, PassesRaised
<1>3. ASSUME NEW r \in Roles, GetRole(s, r) PROVE Passes(s)
  <2> DEFINE q == [op[s] EXCEPT !.pc = "patch", !.role = r,
                                !.current = {<<m[2], m[3]>> : m \in {n \in mapped : n[1] = r}}]
  <2>1. op' = [op EXCEPT ![s] = q] /\ UNCHANGED <<made, secret, last, lapsed>>
    BY <1>1, <1>3 DEF GetRole
  <2>2. q.pc # "keep"
    BY <1>1 DEF Ops
  <2> HIDE DEF q
  <2> QED BY <2>1, <2>2, PassesMoved
<1>4. ASSUME NEW r \in Roles, GetRoleFails(s, r) PROVE Passes(s)
  BY <1>4, PassesRole, PassesRaised DEF GetRoleFails
<1>5. ASSUME NEW pc \in {"roles", "remove"}, UNCHANGED <<made, secret, last, lapsed>>,
             \/ Goto(s, pc) \/ PassOver(s, pc)
             \/ \E resolved : op' = [op EXCEPT ![s].pc = pc, ![s].resolved = resolved]
             \/ \E resolved : op' = [op EXCEPT ![s].pc = pc, ![s].resolved = resolved, ![s].ok = FALSE]
      PROVE  Passes(s)
  <2>1. \A t \in Sessions \ {s} : op'[t] = op[t]
    BY <1>1, <1>5 DEF Goto, PassOver
  <2>2. op'[s].pc = pc
    <3>1. CASE Goto(s, pc) \/ PassOver(s, pc)
      BY <1>1, <3>1 DEF Goto, PassOver, Ops
    <3>2. ASSUME NEW resolved, op' = [op EXCEPT ![s].pc = pc, ![s].resolved = resolved]
          PROVE  op'[s].pc = pc
      BY <1>1, <3>2 DEF Ops
    <3>3. ASSUME NEW resolved, op' = [op EXCEPT ![s].pc = pc, ![s].resolved = resolved, ![s].ok = FALSE]
          PROVE  op'[s].pc = pc
      BY <1>1, <3>3 DEF Ops
    <3> QED BY <1>5, <3>1, <3>2, <3>3
  <2> QED BY <1>5, <2>1, <2>2 DEF Passes
<1>6. CASE PutGroups(s)
  <2>1. UNCHANGED <<made, secret, last, lapsed>>
    BY <1>6 DEF PutGroups
  <2>2. \/ Raise(s)
        \/ \E resolved : op' = [op EXCEPT ![s].pc = "roles", ![s].resolved = resolved]
        \/ \E resolved : op' = [op EXCEPT ![s].pc = "roles", ![s].resolved = resolved, ![s].ok = FALSE]
    BY <1>6 DEF PutGroups
  <2> QED BY <1>5, <2>1, <2>2, PassesRaised
<1>7. CASE ListRoles(s)
  BY <1>7, PassesRole, PassesRaised DEF ListRoles
<1>8. CASE PatchRole(s)
  BY <1>8, PassesRole, PassesRaised DEF PatchRole
<1>9. CASE PatchAuthSequence(s)
  <2>1. UNCHANGED <<made, secret, last, lapsed>>
    BY <1>9 DEF PatchAuthSequence
  <2>2. \/ Raise(s) \/ Goto(s, "remove") \/ PassOver(s, "remove")
        \/ op' = [op EXCEPT ![s] = NoOp]
    BY <1>9 DEF PatchAuthSequence, Redirect
  <2> QED BY <1>5, <2>1, <2>2, PassesRaised, PassesIdle
<1>10. CASE RemoveIdp(s) \/ RemoveFails(s)
  <2>1. UNCHANGED <<made, secret, last, lapsed>> /\ op' = [op EXCEPT ![s] = NoOp]
    BY <1>10 DEF RemoveIdp, RemoveFails, Redirect, Raise
  <2> QED BY <2>1, PassesIdle
<1> QED BY <1>2, <1>3, <1>4, <1>6, <1>7, <1>8, <1>9, <1>10 DEF HandlerStep

(* A provider that is made has the secret it was submitted with. *)
LEMMA CreateKept == ASSUME Inv, KeptOK, NEW s \in Sessions, CreateIdp(s) PROVE KeptOK'
<1>1. EnvOK /\ op \in [Sessions -> Ops] /\ op[s] \in Ops /\ made \in Nat
  BY EnvNow, NoneMade
<1>2. lapsed' = lapsed /\ At(s, "create") /\ op[s].secret \in Secrets \cup {None}
  BY <1>1, OpFields DEF CreateIdp
<1>3. CASE Raise(s) /\ UNCHANGED <<made, idps, secret, last>>
  BY <1>2, <1>3, PassesRaised, KeptPasses
<1>4. ASSUME made < MaxIdps, made' = made + 1,
             secret' = [secret EXCEPT ![made + 1] = op[s].secret],
             last' = [last EXCEPT ![made + 1] = op[s].secret],
             \/ op' = [op EXCEPT ![s].pc = "groups", ![s].idp = made + 1]
             \/ Raise(s)
      PROVE  KeptOK'
  <2>1. made + 1 \in Ids /\ 1..made \subseteq Ids /\ 1..made' = 1..made \cup {made + 1} /\ made + 1 \notin 1..made
    BY <1>1, <1>4 DEF Ids, EnvOK
  <2>2. /\ secret'[made + 1] = last'[made + 1]
        /\ \A i \in 1..made : secret'[i] = secret[i] /\ last'[i] = last[i]
    BY <1>1, <1>4, <2>1 DEF EnvOK
  <2>3. \A t \in Sessions \ {s} : op'[t] = op[t]
    BY <1>1, <1>4 DEF Raise
  <2>4. op'[s].pc # "keep"
    BY <1>1, <1>4 DEF Raise, NoOp, Ops
  <2>5. \A t \in Sessions : At(t, "keep") => op[t].idp \in 1..made
    BY DEF Inv, OpOK, At
  <2>6. \A i \in 1..made' : secret'[i] # last'[i] => i \in lapsed'
    BY <1>2, <2>1, <2>2 DEF KeptOK
  <2>7. ASSUME NEW t \in Sessions, At(t, "keep")', op'[t].secret # last'[op'[t].idp]
        PROVE  op'[t].idp \in lapsed'
    <3>1. t # s /\ op'[t] = op[t] /\ At(t, "keep")
      BY <2>3, <2>4, <2>7 DEF At
    <3>2. last'[op[t].idp] = last[op[t].idp]
      BY <2>2, <2>5, <3>1
    <3> QED BY <1>2, <2>7, <3>1, <3>2 DEF KeptOK
  <2> QED BY <2>6, <2>7 DEF KeptOK
<1> QED BY <1>3, <1>4 DEF CreateIdp

(* A blank field's edit takes the secret that is there, or none. *)
LEMMA FetchKept == ASSUME Inv, KeptOK, NEW s \in Sessions, FetchIdpProps(s) PROVE KeptOK'
<1> DEFINE i == op[s].idp
<1>1. EnvOK /\ op \in [Sessions -> Ops] /\ op[s] \in Ops /\ OpOK(s) /\ made \in Nat
  BY EnvNow, NoneMade DEF Inv
<1>2. op[s].pc = "props" /\ i \in 1..made /\ i \in Ids /\ UNCHANGED <<made, secret>>
  <2>1. op[s].pc = "props" /\ UNCHANGED <<made, secret>>
    BY DEF FetchIdpProps, At, isVars
  <2>2. i \in 1..made
    BY <1>1, <2>1 DEF OpOK
  <2> QED BY <1>1, <2>1, <2>2, NoneMade
<1>3. CASE op' = [op EXCEPT ![s].pc = "auth"] /\ UNCHANGED secretHistory
  <2>1. Passes(s)
    BY <1>1, <1>2, <1>3 DEF Passes, secretHistory, Ops
  <2> QED BY <2>1, KeptPasses
<1>4. CASE op' = [op EXCEPT ![s] = NoOp] /\ UNCHANGED secretHistory
  <2>1. Passes(s)
    BY <1>2, <1>4, PassesIdle DEF secretHistory
  <2> QED BY <2>1, KeptPasses
<1>5. CASE op' = [op EXCEPT ![s].pc = "keep", ![s].secret = secret[i]] /\ UNCHANGED secretHistory
  <2>1. UNCHANGED <<last, lapsed>> /\ \A t \in Sessions \ {s} : op'[t] = op[t]
    BY <1>1, <1>5 DEF secretHistory
  <2>2. op'[s].secret = secret[i] /\ op'[s].idp = i
    BY <1>1, <1>5 DEF Ops
  <2>3. secret[i] # last[i] => i \in lapsed
    BY <1>2 DEF KeptOK
  <2> HIDE DEF i
  <2> QED BY <1>2, <2>1, <2>2, <2>3 DEF KeptOK, At
<1>6. CASE /\ op' = [op EXCEPT ![s].pc = "keep", ![s].ok = FALSE]
           /\ lapsed' = lapsed \cup {i} /\ last' = last
  <2>1. op'[s].idp = i /\ \A t \in Sessions \ {s} : op'[t] = op[t]
    BY <1>1, <1>6 DEF Ops
  <2>2. i \in lapsed' /\ lapsed \subseteq lapsed' /\ last' = last /\ secret' = secret /\ made' = made
    BY <1>2, <1>6
  <2> HIDE DEF i
  <2> QED BY <2>1, <2>2 DEF KeptOK, At
<1> QED BY <1>3, <1>4, <1>5, <1>6 DEF FetchIdpProps

(* A PUT of a submitted secret makes it the last one, and the provider lapse *)
(* if another is on its way; a PUT of one that was read leaves the last.   *)
LEMMA PutKept == ASSUME Inv, KeptOK, NEW s \in Sessions, PutAuthenticator(s) PROVE KeptOK'
<1> DEFINE i == op[s].idp
<1>1. EnvOK /\ op \in [Sessions -> Ops] /\ op[s] \in Ops /\ OpOK(s) /\ made \in Nat
  BY EnvNow, NoneMade DEF Inv
<1>2. (At(s, "auth") \/ At(s, "keep")) /\ i \in 1..made /\ i \in Ids /\ made' = made
  <2>1. (At(s, "auth") \/ At(s, "keep")) /\ made' = made
    BY DEF PutAuthenticator
  <2>2. i \in 1..made
    BY <1>1, <2>1 DEF OpOK, At
  <2> QED BY <1>1, <2>1, <2>2, NoneMade
<1>3. /\ op'[s].pc # "keep"
      /\ \A t \in Sessions \ {s} : op'[t] = op[t]
  BY <1>1 DEF PutAuthenticator, Goto, PassOver, Raise, NoOp, Ops
<1>4. CASE UNCHANGED <<secret, last, lapsed>>
  BY <1>2, <1>3, <1>4, KeptPasses DEF Passes
<1>5. CASE At(s, "keep") /\ secret' = [secret EXCEPT ![i] = op[s].secret] /\ UNCHANGED <<last, lapsed>>
  <2>1. op[s].secret # last[i] => i \in lapsed
    BY <1>5 DEF KeptOK
  <2>2. \A j \in 1..made : secret'[j] = IF j = i THEN op[s].secret ELSE secret[j]
    BY <1>1, <1>2, <1>5, NoneMade DEF EnvOK
  <2> HIDE DEF i
  <2>3. \A j \in 1..made' : secret'[j] # last'[j] => j \in lapsed'
    BY <1>2, <1>5, <2>1, <2>2 DEF KeptOK
  <2> QED BY <1>3, <1>5, <2>3 DEF KeptOK, At
<1>6. CASE /\ secret' = [secret EXCEPT ![i] = op[s].secret]
           /\ last' = [last EXCEPT ![i] = op[s].secret]
           /\ lapsed' = IF Overtaken(s) THEN lapsed \cup {i} ELSE lapsed \ {i}
  <2>1. \A j \in Ids : /\ secret'[j] = IF j = i THEN op[s].secret ELSE secret[j]
                       /\ last'[j] = IF j = i THEN op[s].secret ELSE last[j]
    BY <1>1, <1>2, <1>6 DEF EnvOK
  <2>2. \A j : j # i => (j \in lapsed' <=> j \in lapsed)
    BY <1>6
  <2>3. \A j \in 1..made' : secret'[j] # last'[j] => j \in lapsed'
    BY <1>1, <1>2, <2>1, <2>2, NoneMade DEF KeptOK
  <2>4. ASSUME NEW t \in Sessions, At(t, "keep")', op'[t].secret # last'[op'[t].idp]
        PROVE  op'[t].idp \in lapsed'
    <3>1. t # s /\ op'[t] = op[t] /\ At(t, "keep")
      BY <1>3, <2>4 DEF At
    <3>2. op[t].idp \in Ids
      <4>1. op[t].idp \in 1..made
        BY <3>1 DEF Inv, OpOK, At
      <4> QED BY <1>1, <4>1, NoneMade
    <3>3. CASE op[t].idp = i
      <4>1. op[t].secret # op[s].secret
        BY <1>2, <2>1, <2>4, <3>1, <3>3
      <4>2. Overtaken(s)
        BY <3>1, <3>3, <4>1 DEF Overtaken
      <4> QED BY <1>6, <3>1, <3>3, <4>2
    <3>4. CASE op[t].idp # i
      <4>1. op[t].secret # last[op[t].idp]
        BY <2>1, <2>4, <3>1, <3>2, <3>4
      <4> HIDE DEF i
      <4> QED BY <2>2, <3>1, <3>4, <4>1 DEF KeptOK
    <3> QED BY <3>3, <3>4
  <2> QED BY <2>3, <2>4 DEF KeptOK
<1> QED BY <1>2, <1>4, <1>5, <1>6 DEF PutAuthenticator, At

(* A request that begins, or a login flow that is written. *)
LEMMA ArrivalKept ==
    ASSUME Inv, KeptOK, NEW s \in Sessions,
           \/ \E f \in Forms, k \in Secrets \cup {None} :
                 AddIdp(s, f, k) \/ \E i \in Ids : EditIdp(s, i, f, k)
           \/ \E i \in Ids : DeleteIdp(s, i)
           \/ \E options \in SUBSET (Ids \cup {LOCAL_IDP}) : UpdateLoginFlow(s, options)
    PROVE  KeptOK'
<1>1. op \in [Sessions -> Ops]
  BY EnvNow
<1>2. UNCHANGED <<made, secret, last, lapsed>>
  BY DEF AddIdp, EditIdp, DeleteIdp, Begin, UpdateLoginFlow, Interfere, isVars, secretHistory
<1>3. \A t \in Sessions : [op[t] EXCEPT !.ok = FALSE].pc = op[t].pc
                          /\ [op[t] EXCEPT !.ok = FALSE].idp = op[t].idp
                          /\ [op[t] EXCEPT !.ok = FALSE].secret = op[t].secret
  BY <1>1 DEF Ops
<1>4. ASSUME NEW kind, NEW pc, pc # "keep", NEW i, NEW f, NEW k, Begin(s, kind, pc, i, f, k)
      PROVE  \A t \in Sessions : SameFor(t) \/ op'[t].pc # "keep"
  <2>1. \A t \in Sessions \ {s} : op'[t] = [op[t] EXCEPT !.ok = FALSE]
    BY <1>4 DEF Begin
  <2>2. op'[s].pc = pc
    BY <1>4 DEF Begin, NoOp
  <2> QED BY <1>3, <1>4, <2>1, <2>2 DEF SameFor
<1>5. ASSUME NEW options, UpdateLoginFlow(s, options)
      PROVE  \A t \in Sessions : SameFor(t) \/ op'[t].pc # "keep"
  <2>1. \A t \in Sessions : op'[t] = [op[t] EXCEPT !.ok = FALSE]
    BY <1>5 DEF UpdateLoginFlow, Interfere
  <2> QED BY <1>3, <2>1 DEF SameFor
<1>6. \A t \in Sessions : SameFor(t) \/ op'[t].pc # "keep"
  BY <1>4, <1>5 DEF AddIdp, EditIdp, DeleteIdp
<1> QED BY <1>2, <1>6, KeptSame

LEMMA KeptNext == Inv /\ KeptOK /\ [Next]_vars => KeptOK'
<1> SUFFICES ASSUME Inv, KeptOK, [Next]_vars PROVE KeptOK'
  OBVIOUS
<1>1. ASSUME NEW s \in Sessions, HandlerStep(s) PROVE KeptOK'
  BY <1>1, CreateKept, FetchKept, PutKept, OtherStepsPass, KeptPasses
<1>2. ASSUME NEW s \in Sessions, ShowPage(s) PROVE KeptOK'
  BY <1>2 DEF ShowPage, isVars, historyVars, secretHistory, KeptOK, At
<1>3. CASE UNCHANGED vars
  BY <1>3 DEF vars, isVars, historyVars, secretHistory, KeptOK, At
<1> QED BY <1>1, <1>2, <1>3, ArrivalKept DEF Next

LEMMA KeptInit == Init => KeptOK
BY DEF Init, KeptOK, At, NoOp

LEMMA KeptAlways == Spec => []KeptOK
BY KeptInit, KeptNext, InvAlways, PTL DEF Spec

-----------------------------------------------------------------------------
(* Every variable keeps to its set: roles are mapped for providers that     *)
(* were made only, the login flow offers something, all of it there is.     *)
THEOREM TypeCorrect == Spec => []TypeOK
<1>1. Inv => TypeOK
  BY DEF Inv
<1> QED BY <1>1, InvAlways, PTL

(* add_idp and edit_idp: whatever earlier requests left half done, a form   *)
(* whose calls were all carried out is what WSO2 IS holds.                  *)
THEOREM FormAlwaysTakesEffect == Spec => []FormTakesEffect
<1>1. Inv => FormTakesEffect
  BY DEF Inv
<1> QED BY <1>1, InvAlways, PTL

(* The read-modify-write of each role's groups keeps the other providers'.  *)
THEOREM OthersAlwaysKept == Spec => []OthersKept
<1>1. Inv => OthersKept
  BY DEF Inv, AloneOK, OthersKept
<1> QED BY <1>1, InvAlways, PTL

(* edit_idp with a blank field: the secret last submitted is what the       *)
(* provider has, unless such an edit could not read it, or had read before *)
(* that one was written; it is empty only when it could not be read.       *)
THEOREM SecretAlwaysSurvives == Spec => []SecretSurvives
<1>1. Inv /\ KeptOK => SecretSurvives
  <2> SUFFICES ASSUME Inv, KeptOK PROVE SecretSurvives
    OBVIOUS
  <2>1. idps \subseteq 1..made /\ NotEmptied
    BY EnvNow DEF EnvOK
  <2> QED BY <2>1 DEF SecretSurvives, KeptOK, NotEmptied
<1> QED BY <1>1, InvAlways, KeptAlways, PTL

(* delete_idp, which takes the provider out of the login flow first.        *)
THEOREM DeletionNeverBlocked == Spec => []DeletionNotBlocked
<1>1. Inv => DeletionNotBlocked
  BY DEF Inv
<1> QED BY <1>1, InvAlways, PTL
=============================================================================

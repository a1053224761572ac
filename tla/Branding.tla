------------------------------- MODULE Branding -------------------------------
(***************************************************************************)
(* One organization's branding, kept twice: the Business API's row, which  *)
(* the portal shows, and the branding preference of WSO2 IS, which the     *)
(* login page shows.  The portal writes both in sequence, resets both, and *)
(* on the first request of a session imports WSO2 IS's copy when it finds  *)
(* no row.                                                                 *)
(*                                                                         *)
(* A theme stands for the five fields of a row.  The preference the portal *)
(* sends has them in its active theme, where the import reads them back.   *)
(* A Business API call never raises (api_request makes that a 503); a call *)
(* of WSO2 IS that raises ends the handler with a 500 before it touches    *)
(* the session.  A call the portal stopped waiting for may still be        *)
(* carried out, or fail, at any later time.  A browser session makes one   *)
(* request at a time.                                                      *)
(***************************************************************************)
EXTENDS Naturals

CONSTANTS
    Sessions,        \* browser sessions of branding editors
    Admins,          \* those that hold teamspace-admin as well
    Themes,
    ConsoleThemes,   \* themes set in WSO2 IS's own console, not by the portal
    Slots,           \* as many timed-out calls are at work at once, at most
    None,
    Unset            \* org_branding is not in the session

ASSUME AdminsAssumption == Admins \subseteq Sessions
ASSUME ThemesAssumption == ConsoleThemes \subseteq Themes
ASSUME NoneAssumption == {None, Unset} \cap Themes = {} /\ None # Unset

VARIABLES
    db,      \* Business API: the row, or None
    is,      \* WSO2 IS: the branding preference, or None
    saved,   \* every theme that has been in the row
    late,    \* late[i]: a call at work on a server although the portal timed out, or None
    cache,   \* cache[s]: session["org_branding"]
    flash,   \* flash[s]: what the next page will say
    op,      \* op[s]: the request in progress
    alone    \* history: sessions whose last change no one else's has overlapped or followed

vars == <<db, is, saved, late, cache, flash, op, alone>>

Steps == {"idle", "upsert", "put", "post", "dbdelete", "isdelete", "fetch", "backfill"}
Messages == {"none", "synced", "local", "notsaved", "reverted", "reverted_local", "notreverted"}

Idle == [pc |-> "idle", theme |-> None, dbSuccess |-> FALSE]

(* How a call that changes a server ends for the portal: carried out,      *)
(* refused or never arrived, or carried out and the answer lost.           *)
Outcomes == {"done", "refused", "lost"}

LateCalls == [pc : {"upsert", "dbdelete", "put", "post", "isdelete"}, theme : Themes \cup {None}]

Operation == [pc : Steps, theme : Themes \cup {None}, dbSuccess : BOOLEAN]

TypeOK ==
    /\ db \in Themes \cup {None} /\ is \in Themes \cup {None}
    /\ saved \subseteq Themes /\ db \in saved \cup {None}
    /\ late \in [Slots -> LateCalls \cup {None}]
    /\ cache \in [Sessions -> Themes \cup {None, Unset}]
    /\ flash \in [Sessions -> Messages]
    /\ op \in [Sessions -> Operation]
    /\ alone \subseteq Sessions

Init ==
    /\ db = None /\ is = None /\ saved = {} /\ late = [i \in Slots |-> None]
    /\ cache = [s \in Sessions |-> Unset]
    /\ flash = [s \in Sessions |-> "none"]
    /\ op = [s \in Sessions |-> Idle]
    /\ alone = {}

At(s, pc) == op[s].pc = pc
Goto(s, pc) == op' = [op EXCEPT ![s].pc = pc]
End(s) == op' = [op EXCEPT ![s] = Idle]
Flash(s, m) == flash' = [flash EXCEPT ![s] = m]
Cache(s, t) == cache' = [cache EXCEPT ![s] = t]

(* Every request runs auto_ensure_branding first, and the page a handler   *)
(* redirects to shows its message.                                         *)
Ready(s) == At(s, "idle") /\ cache[s] # Unset /\ flash[s] = "none"

Quiet == \A i \in Slots : late[i] = None

(* A change begins, undisturbed when no other request and no timed-out     *)
(* call is at work, the session's own included; an import begins, which is *)
(* part of the session's last change and interferes with everyone else's.  *)
Begins(s) ==
    alone' = IF Quiet /\ \A z \in Sessions \ {s} : At(z, "idle") THEN {s} ELSE {}
Interferes(s) == alone' = alone \cap {s}

(* The Business API's upsert and its answer: carried out unless refused.   *)
Upsert(t, out) ==
    /\ db' = IF out = "refused" THEN db ELSE t
    /\ saved' = IF out = "refused" THEN saved ELSE saved \cup {t}

(* The portal gives up waiting for a call that is still at work. *)
Leave(call) ==
    /\ \E i \in Slots : late[i] = None /\ late' = [late EXCEPT ![i] = call]
    /\ UNCHANGED <<db, is, saved>>

(* It is carried out as it would have been in time, or fails. *)
CarryOut(i) ==
    /\ late[i] # None
    /\ \/ UNCHANGED <<db, is, saved>>
       \/ late[i].pc = "upsert" /\ Upsert(late[i].theme, "done") /\ UNCHANGED is
       \/ late[i].pc = "dbdelete" /\ db' = None /\ UNCHANGED <<is, saved>>
       \/ late[i].pc \in {"put", "isdelete"} /\ is # None /\ is' = late[i].theme
          /\ UNCHANGED <<db, saved>>
       \/ late[i].pc = "post" /\ is = None /\ is' = late[i].theme /\ UNCHANGED <<db, saved>>
    /\ late' = [late EXCEPT ![i] = None]
    /\ UNCHANGED <<cache, flash, op, alone>>

-----------------------------------------------------------------------------
(* personalization.update_branding, is_operations.update_branding *)

UpdateBranding(s, t) ==
    /\ Ready(s)
    /\ op' = [op EXCEPT ![s] = [Idle EXCEPT !.pc = "upsert", !.theme = t]]
    /\ Begins(s)
    /\ UNCHANGED <<db, is, saved, late, cache, flash>>

UpsertPersonalizationIgnored(s, out) ==   \* mutant: a failed save does not stop the sync
    /\ At(s, "upsert")
    /\ Upsert(op[s].theme, out)
    /\ Goto(s, "put")
    /\ UNCHANGED <<is, late, cache, flash, alone>>

UpsertPersonalization(s, out) ==
    /\ At(s, "upsert")
    /\ Upsert(op[s].theme, out)
    /\ IF out = "done"
       THEN Goto(s, "put") /\ UNCHANGED flash
       ELSE End(s) /\ Flash(s, "notsaved")
    /\ UNCHANGED <<is, late, cache, alone>>

UpsertTimesOut(s) ==
    /\ At(s, "upsert")
    /\ Leave([pc |-> "upsert", theme |-> op[s].theme])
    /\ End(s) /\ Flash(s, "notsaved")
    /\ UNCHANGED <<cache, alone>>

(* What the handler does with a DualWriteResult whose db_success is true. *)
Updated(s, isSuccess) ==
    /\ Cache(s, op[s].theme)
    /\ Flash(s, IF isSuccess THEN "synced" ELSE "local")
    /\ End(s)

(* PUT, which WSO2 IS answers with a 404 while there is no preference. *)
PutBranding(s, out) ==
    /\ At(s, "put") /\ (out # "refused" => is # None)
    /\ is' = IF out = "refused" THEN is ELSE op[s].theme
    /\ IF out = "lost" THEN End(s) /\ UNCHANGED <<cache, flash>> ELSE Updated(s, out = "done")
    /\ UNCHANGED <<db, saved, late, alone>>

PutNotFound(s) ==
    /\ At(s, "put") /\ is = None
    /\ Goto(s, "post")
    /\ UNCHANGED <<db, is, saved, late, cache, flash, alone>>

(* POST, refused when another handler created the preference meanwhile. *)
PostBranding(s, out) ==
    /\ At(s, "post") /\ (out # "refused" => is = None)
    /\ is' = IF out = "refused" THEN is ELSE op[s].theme
    /\ IF out = "lost" THEN End(s) /\ UNCHANGED <<cache, flash>> ELSE Updated(s, out = "done")
    /\ UNCHANGED <<db, saved, late, alone>>

-----------------------------------------------------------------------------
(* personalization.reset_branding, is_operations.delete_branding *)

ResetBranding(s) ==
    /\ Ready(s)
    /\ Goto(s, "dbdelete")
    /\ Begins(s)
    /\ UNCHANGED <<db, is, saved, late, cache, flash>>

DeletePersonalization(s, out) ==
    /\ At(s, "dbdelete")
    /\ db' = IF out = "refused" THEN db ELSE None
    /\ op' = [op EXCEPT ![s].pc = "isdelete", ![s].dbSuccess = (out = "done")]
    /\ UNCHANGED <<is, saved, late, cache, flash, alone>>

DeleteTimesOut(s) ==
    /\ At(s, "dbdelete")
    /\ Leave([pc |-> "dbdelete", theme |-> None])
    /\ Goto(s, "isdelete")
    /\ UNCHANGED <<cache, flash, alone>>

DeleteBrandingUnseen(s, out) ==   \* mutant: is_success whatever WSO2 IS answers
    /\ At(s, "isdelete") /\ out = "done"
    /\ is' \in {is, None}
    /\ Flash(s, IF op[s].dbSuccess THEN "reverted" ELSE "notreverted")
    /\ cache' = IF op[s].dbSuccess THEN [cache EXCEPT ![s] = Unset] ELSE cache
    /\ End(s)
    /\ UNCHANGED <<db, saved, late, alone>>

(* WSO2 IS answers 404 when there is nothing to delete: a refusal here. *)
DeleteBranding(s, out) ==
    /\ At(s, "isdelete") /\ (out # "refused" => is # None)
    /\ is' = IF out = "refused" THEN is ELSE None
    /\ IF out = "lost"
       THEN UNCHANGED <<cache, flash>>
       ELSE /\ Flash(s, IF ~op[s].dbSuccess THEN "notreverted"
                        ELSE IF out = "done" THEN "reverted" ELSE "reverted_local")
            /\ cache' = IF op[s].dbSuccess THEN [cache EXCEPT ![s] = Unset] ELSE cache
    /\ End(s)
    /\ UNCHANGED <<db, saved, late, alone>>

(* A call of WSO2 IS raises, never carried out or carried out later. *)
IsRaises(s) ==
    /\ op[s].pc \in {"put", "post", "isdelete"}
    /\ \/ UNCHANGED <<db, is, saved, late>>
       \/ Leave([pc |-> op[s].pc, theme |-> op[s].theme])
    /\ End(s)
    /\ UNCHANGED <<cache, flash, alone>>

-----------------------------------------------------------------------------
(* dashboard._ensure_branding_loaded, before any request of a session      *)
(* without branding.  get_personalization makes every failure a None.      *)

EnsureBrandingLoaded(s, reachable) ==
    /\ At(s, "idle") /\ cache[s] = Unset
    /\ IF reachable /\ db # None
       THEN Cache(s, db) /\ UNCHANGED <<op, alone>>
       ELSE IF s \in Admins THEN Goto(s, "fetch") /\ Interferes(s) /\ UNCHANGED cache
                            ELSE Cache(s, None) /\ UNCHANGED <<op, alone>>
    /\ UNCHANGED <<db, is, saved, late, flash>>

FetchBrandingUnchecked(s, reachable) ==   \* mutant: a missing preference is imported too
    /\ At(s, "fetch") /\ reachable
    /\ op' = [op EXCEPT ![s].pc = "backfill", ![s].theme = is]
    /\ UNCHANGED <<db, is, saved, late, cache, flash, alone>>

FetchBrandingFromIs(s, reachable) ==
    /\ At(s, "fetch")
    /\ IF reachable /\ is # None
       THEN /\ op' = [op EXCEPT ![s].pc = "backfill", ![s].theme = is]
            /\ UNCHANGED cache
       ELSE Cache(s, None) /\ End(s)
    /\ UNCHANGED <<db, is, saved, late, flash, alone>>

Backfill(s, out) ==
    /\ At(s, "backfill")
    /\ Upsert(op[s].theme, out)
    /\ Cache(s, IF out = "done" THEN op[s].theme ELSE None)
    /\ End(s)
    /\ UNCHANGED <<is, late, flash, alone>>

BackfillTimesOut(s) ==
    /\ At(s, "backfill")
    /\ Leave([pc |-> "upsert", theme |-> op[s].theme])
    /\ Cache(s, None) /\ End(s)
    /\ UNCHANGED <<flash, alone>>

(* The page after the redirect shows the message. *)
ShowPage(s) ==
    /\ At(s, "idle") /\ cache[s] # Unset /\ flash[s] # "none"
    /\ Flash(s, "none")
    /\ UNCHANGED <<db, is, saved, late, cache, op, alone>>

(* Logging out clears the session; the next login starts without branding. *)
Logout(s) ==
    /\ Ready(s)
    /\ Cache(s, Unset)
    /\ UNCHANGED <<db, is, saved, late, flash, op, alone>>

(* Somebody changes the preference in WSO2 IS's console. *)
Console(t) ==
    /\ is' = t
    /\ alone' = {}
    /\ UNCHANGED <<db, saved, late, cache, flash, op>>

OpStep(s) ==
    \/ \E out \in Outcomes : \/ UpsertPersonalization(s, out) \/ PutBranding(s, out)
                             \/ PostBranding(s, out) \/ DeletePersonalization(s, out)
                             \/ DeleteBranding(s, out) \/ Backfill(s, out)
    \/ \E reachable \in BOOLEAN : FetchBrandingFromIs(s, reachable)
    \/ UpsertTimesOut(s) \/ DeleteTimesOut(s) \/ BackfillTimesOut(s)
    \/ PutNotFound(s) \/ IsRaises(s)

Next ==
    \/ \E s \in Sessions : \/ OpStep(s) \/ ResetBranding(s) \/ ShowPage(s) \/ Logout(s)
                           \/ \E reachable \in BOOLEAN : EnsureBrandingLoaded(s, reachable)
                           \/ \E t \in Themes : UpdateBranding(s, t)
    \/ \E t \in ConsoleThemes : Console(t)
    \/ \E i \in Slots : CarryOut(i)

Spec == Init /\ [][Next]_vars

-----------------------------------------------------------------------------
(* Properties *)

(* The login page never shows a branding the portal failed to record: what *)
(* WSO2 IS holds has been in the row or comes from its own console,        *)
(* whichever calls failed or overlapped.                                   *)
PublishedWasSaved == is \in saved \cup ConsoleThemes \cup {None}

(* What a request in progress knows of its theme; with it the two are      *)
(* inductive.                                                              *)
OperationOK(s) ==
    /\ op[s].pc \in {"upsert", "backfill"} => op[s].theme \in Themes
    /\ op[s].pc \in {"put", "post"} => op[s].theme \in saved
    /\ At(s, "idle") => op[s] = Idle
    /\ op[s].pc \in {"dbdelete", "isdelete"} => op[s].theme = None
    /\ At(s, "dbdelete") => ~op[s].dbSuccess

LateOK ==
    \A i \in Slots :
        late[i] # None =>
            /\ late[i].pc = "upsert" => late[i].theme \in Themes
            /\ late[i].pc \in {"put", "post"} => late[i].theme \in saved
            /\ late[i].pc = "isdelete" => late[i].theme = None

Inv == TypeOK /\ PublishedWasSaved /\ LateOK /\ \A s \in Sessions : OperationOK(s)

(* What the page after an update or a reset says is so while it is shown,  *)
(* for an editor nobody interfered with and whose change no call left at   *)
(* work by a timeout met, an own one included - the code does not protect  *)
(* a change from such a call: "synced to login portal" - row,              *)
(* preference and session agree; "updated locally" - row and session do;   *)
(* "reverted to defaults" - neither server keeps a branding.  The import   *)
(* the session itself runs before that page must not undo any of it.       *)
MessageIsTrue ==
    \A s \in alone :
        /\ flash[s] = "synced" => db = is /\ db = cache[s]
        /\ flash[s] = "local" => db = cache[s]
        /\ flash[s] = "reverted" => db = None /\ is = None

(* What makes that inductive: nobody else has a request in progress, the   *)
(* message of the last change stands until the next one has an outcome,    *)
(* and what the change has done to the row so far.                         *)
AloneOK(s) ==
    /\ \A z \in Sessions \ {s} : At(z, "idle")
    /\ op[s].pc \in {"upsert", "put", "post", "dbdelete"} => Quiet
    /\ At(s, "isdelete") /\ op[s].dbSuccess => Quiet
    /\ flash[s] \in {"synced", "local", "reverted"} => Quiet
    /\ flash[s] \in {"synced", "local"} => At(s, "idle")
    /\ op[s].pc \in {"upsert", "put", "post", "dbdelete", "isdelete"} => flash[s] = "none"
    /\ op[s].pc \in {"put", "post"} => db = op[s].theme
    /\ At(s, "isdelete") /\ op[s].dbSuccess => db = None
    /\ At(s, "backfill") => flash[s] # "reverted"

Undisturbed == MessageIsTrue /\ \A s \in alone : AloneOK(s)
=============================================================================

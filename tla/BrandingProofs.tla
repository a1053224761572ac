---------------------------- MODULE BrandingProofs ----------------------------
(***************************************************************************)
(* Proofs about Branding for any number of sessions and themes.            *)
(***************************************************************************)
EXTENDS Branding, TLAPS

LEMMA IdleType == Idle \in Operation
BY DEF Idle, Operation, Steps

(* What the two ways of moving a request on do to it. *)
LEMMA Ended ==
  ASSUME TypeOK, NEW s \in Sessions, End(s)
  PROVE  op' \in [Sessions -> Operation] /\ op'[s] = Idle /\ op'[s].pc = "idle"
         /\ \A z \in Sessions \ {s} : op'[z] = op[z]
BY IdleType DEF TypeOK, End, Idle

LEMMA Moved ==
  ASSUME TypeOK, NEW s \in Sessions, NEW pc \in Steps, Goto(s, pc)
  PROVE  op' \in [Sessions -> Operation] /\ op'[s].pc = pc /\ op'[s].theme = op[s].theme
         /\ op'[s].dbSuccess = op[s].dbSuccess
         /\ \A z \in Sessions \ {s} : op'[z] = op[z]
BY DEF TypeOK, Goto, Operation

LEMMA CacheType ==
  ASSUME TypeOK, NEW s \in Sessions, NEW t \in Themes \cup {None, Unset}, Cache(s, t)
  PROVE  cache' \in [Sessions -> Themes \cup {None, Unset}]
BY DEF TypeOK, Cache

LEMMA FlashType ==
  ASSUME TypeOK, NEW s \in Sessions, NEW m \in Messages, Flash(s, m)
  PROVE  flash' \in [Sessions -> Messages]
BY DEF TypeOK, Flash

(* A step of session s leaves the other requests alone, and no theme is    *)
(* taken from those saved.                                                 *)
LEMMA Others ==
  ASSUME Inv, NEW s \in Sessions, saved \subseteq saved',
         \A z \in Sessions \ {s} : op'[z] = op[z], OperationOK(s)'
  PROVE  \A z \in Sessions : OperationOK(z)'
<1>1. ASSUME NEW z \in Sessions, z # s PROVE OperationOK(z)'
  BY <1>1 DEF Inv, OperationOK, At
<1>2. QED
  BY <1>1

(* No call is left at work by the step. *)
LEMMA SameLate ==
  ASSUME Inv, late' = late, saved \subseteq saved'
  PROVE  late' \in [Slots -> LateCalls \cup {None}] /\ LateOK'
BY DEF Inv, TypeOK, LateOK

(* A call is left at work. *)
LEMMA LeftLate ==
  ASSUME Inv, NEW s \in Sessions, NEW call \in LateCalls, Leave(call),
         call.pc = "upsert" => call.theme \in Themes,
         call.pc \in {"put", "post"} => call.theme \in saved,
         call.pc = "isdelete" => call.theme = None
  PROVE  late' \in [Slots -> LateCalls \cup {None}] /\ LateOK' /\ UNCHANGED <<db, is, saved>>
<1>1. PICK i \in Slots : late' = [late EXCEPT ![i] = call]
  BY DEF Leave
<1>2. UNCHANGED <<db, is, saved>>
  BY DEF Leave
<1>3. late' \in [Slots -> LateCalls \cup {None}]
  BY <1>1 DEF Inv, TypeOK
<1>4. ASSUME NEW j \in Slots, late'[j] # None
      PROVE  /\ late'[j].pc = "upsert" => late'[j].theme \in Themes
             /\ late'[j].pc \in {"put", "post"} => late'[j].theme \in saved
             /\ late'[j].pc = "isdelete" => late'[j].theme = None
  <2>1. late'[j] = IF j = i THEN call ELSE late[j]
    BY <1>1 DEF Inv, TypeOK
  <2>2. CASE j = i
    BY <2>1, <2>2
  <2>3. CASE j # i
    BY <1>4, <2>1, <2>3 DEF Inv, LateOK
  <2>4. QED
    BY <2>2, <2>3
<1>5. QED
  BY <1>2, <1>3, <1>4 DEF LateOK

(* The history of interference stays a set of sessions. *)
LEMMA AloneType ==
  ASSUME TypeOK, NEW s \in Sessions, Begins(s) \/ Interferes(s)
  PROVE  alone' \subseteq Sessions
BY DEF TypeOK, Begins, Interferes

(* An editor submits a theme. *)
LEMMA ArrivalStep ==
  ASSUME Inv, NEW s \in Sessions, NEW t \in Themes, UpdateBranding(s, t)
  PROVE  Inv'
<1>1. /\ op' \in [Sessions -> Operation] /\ op'[s].pc = "upsert" /\ op'[s].theme = t
      /\ \A z \in Sessions \ {s} : op'[z] = op[z]
  BY IdleType DEF Inv, TypeOK, UpdateBranding, Idle, Operation, Steps
<1>2. cache' \in [Sessions -> Themes \cup {None, Unset}] /\ flash' \in [Sessions -> Messages]
  BY DEF Inv, TypeOK, UpdateBranding
<1>2a. late' \in [Slots -> LateCalls \cup {None}] /\ LateOK'
  BY SameLate DEF UpdateBranding
<1>3. TypeOK' /\ PublishedWasSaved'
  <2>1. alone' \subseteq Sessions
    BY AloneType DEF Inv, UpdateBranding
  <2>2. QED
    BY <1>1, <1>2, <1>2a, <2>1 DEF Inv, TypeOK, PublishedWasSaved, UpdateBranding
<1>4. OperationOK(s)'
  BY <1>1 DEF Inv, TypeOK, OperationOK, At, Idle, UpdateBranding
<1>5. \A z \in Sessions : OperationOK(z)'
  BY <1>1, <1>4, Others DEF UpdateBranding
<1>6. QED
  BY <1>2a, <1>3, <1>5 DEF Inv

(* The row is written. *)
LEMMA UpsertStep ==
  ASSUME Inv, NEW s \in Sessions, NEW out \in Outcomes, UpsertPersonalization(s, out)
  PROVE  Inv'
<1>1. /\ op' \in [Sessions -> Operation]
      /\ \/ op'[s] = Idle
         \/ op'[s].pc = "put" /\ out = "done" /\ op'[s].theme = op[s].theme
      /\ \A z \in Sessions \ {s} : op'[z] = op[z]
  BY Ended, Moved DEF Inv, UpsertPersonalization, Steps
<1>2. cache' \in [Sessions -> Themes \cup {None, Unset}] /\ flash' \in [Sessions -> Messages]
  BY FlashType DEF Inv, TypeOK, UpsertPersonalization, Messages
<1>2a. late' \in [Slots -> LateCalls \cup {None}] /\ LateOK'
  BY SameLate DEF UpsertPersonalization, Upsert
<1>3. TypeOK' /\ PublishedWasSaved'
  BY <1>1, <1>2, <1>2a DEF Inv, TypeOK, PublishedWasSaved, OperationOK, At, Idle, UpsertPersonalization, Upsert
<1>4. OperationOK(s)'
  BY <1>1 DEF Inv, TypeOK, OperationOK, At, Idle, UpsertPersonalization, Upsert
<1>5. \A z \in Sessions : OperationOK(z)'
  BY <1>1, <1>4, Others DEF UpsertPersonalization, Upsert
<1>6. QED
  BY <1>2a, <1>3, <1>5 DEF Inv

(* WSO2 IS answers the PUT or the POST. *)
LEMMA SyncStep ==
  ASSUME Inv, NEW s \in Sessions, NEW out \in Outcomes, PutBranding(s, out) \/ PostBranding(s, out)
  PROVE  Inv'
<1>1. /\ op' \in [Sessions -> Operation] /\ op'[s] = Idle
      /\ \A z \in Sessions \ {s} : op'[z] = op[z]
  BY Ended DEF Inv, PutBranding, PostBranding, Updated
<1>2. cache' \in [Sessions -> Themes \cup {None, Unset}] /\ flash' \in [Sessions -> Messages]
  BY CacheType, FlashType DEF Inv, TypeOK, OperationOK, At, Idle, PutBranding, PostBranding, Updated, Messages
<1>2a. late' \in [Slots -> LateCalls \cup {None}] /\ LateOK'
  BY SameLate DEF PostBranding, PutBranding
<1>3. TypeOK' /\ PublishedWasSaved'
  BY <1>1, <1>2, <1>2a DEF Inv, TypeOK, PublishedWasSaved, OperationOK, At, Idle, PutBranding, PostBranding
<1>4. OperationOK(s)'
  BY <1>1 DEF Inv, TypeOK, OperationOK, At, Idle, PutBranding, PostBranding
<1>5. \A z \in Sessions : OperationOK(z)'
  BY <1>1, <1>4, Others DEF PutBranding, PostBranding
<1>6. QED
  BY <1>2a, <1>3, <1>5 DEF Inv

(* There is no preference to update. *)
LEMMA PutNotFoundStep ==
  ASSUME Inv, NEW s \in Sessions, PutNotFound(s)
  PROVE  Inv'
<1>1. /\ op' \in [Sessions -> Operation] /\ op'[s].pc = "post" /\ op'[s].theme = op[s].theme
      /\ \A z \in Sessions \ {s} : op'[z] = op[z]
  BY Moved DEF Inv, PutNotFound, Steps
<1>2. cache' \in [Sessions -> Themes \cup {None, Unset}] /\ flash' \in [Sessions -> Messages]
  BY DEF Inv, TypeOK, PutNotFound
<1>2a. late' \in [Slots -> LateCalls \cup {None}] /\ LateOK'
  BY SameLate DEF PutNotFound
<1>3. TypeOK' /\ PublishedWasSaved'
  BY <1>1, <1>2, <1>2a DEF Inv, TypeOK, PublishedWasSaved, OperationOK, At, Idle, PutNotFound
<1>4. OperationOK(s)'
  BY <1>1 DEF Inv, TypeOK, OperationOK, At, Idle, PutNotFound
<1>5. \A z \in Sessions : OperationOK(z)'
  BY <1>1, <1>4, Others DEF PutNotFound
<1>6. QED
  BY <1>2a, <1>3, <1>5 DEF Inv

(* The row is deleted. *)
LEMMA DeletePersonalizationStep ==
  ASSUME Inv, NEW s \in Sessions, NEW out \in Outcomes, DeletePersonalization(s, out)
  PROVE  Inv'
<1>1. /\ op' \in [Sessions -> Operation] /\ op'[s].pc = "isdelete"
      /\ \A z \in Sessions \ {s} : op'[z] = op[z]
  BY DEF Inv, TypeOK, DeletePersonalization, Operation, Steps
<1>2. cache' \in [Sessions -> Themes \cup {None, Unset}] /\ flash' \in [Sessions -> Messages]
  BY DEF Inv, TypeOK, DeletePersonalization
<1>2a. late' \in [Slots -> LateCalls \cup {None}] /\ LateOK'
  BY SameLate DEF DeletePersonalization
<1>3. TypeOK' /\ PublishedWasSaved'
  BY <1>1, <1>2, <1>2a DEF Inv, TypeOK, PublishedWasSaved, OperationOK, At, Idle, DeletePersonalization
<1>4. OperationOK(s)'
  BY <1>1 DEF Inv, TypeOK, OperationOK, At, Idle, DeletePersonalization
<1>5. \A z \in Sessions : OperationOK(z)'
  BY <1>1, <1>4, Others DEF DeletePersonalization
<1>6. QED
  BY <1>2a, <1>3, <1>5 DEF Inv

(* WSO2 IS answers the DELETE. *)
LEMMA DeleteBrandingStep ==
  ASSUME Inv, NEW s \in Sessions, NEW out \in Outcomes, DeleteBranding(s, out)
  PROVE  Inv'
<1>1. /\ op' \in [Sessions -> Operation] /\ op'[s] = Idle
      /\ \A z \in Sessions \ {s} : op'[z] = op[z]
  BY Ended DEF Inv, DeleteBranding
<1>2. cache' \in [Sessions -> Themes \cup {None, Unset}] /\ flash' \in [Sessions -> Messages]
  BY FlashType DEF Inv, TypeOK, DeleteBranding, Messages
<1>2a. late' \in [Slots -> LateCalls \cup {None}] /\ LateOK'
  BY SameLate DEF DeleteBranding
<1>3. TypeOK' /\ PublishedWasSaved'
  BY <1>1, <1>2, <1>2a DEF Inv, TypeOK, PublishedWasSaved, OperationOK, At, Idle, DeleteBranding
<1>4. OperationOK(s)'
  BY <1>1 DEF Inv, TypeOK, OperationOK, At, Idle, DeleteBranding
<1>5. \A z \in Sessions : OperationOK(z)'
  BY <1>1, <1>4, Others DEF DeleteBranding
<1>6. QED
  BY <1>2a, <1>3, <1>5 DEF Inv

(* A call of WSO2 IS raises. *)
LEMMA IsRaisesStep ==
  ASSUME Inv, NEW s \in Sessions, IsRaises(s)
  PROVE  Inv'
<1>1. /\ op' \in [Sessions -> Operation] /\ op'[s] = Idle
      /\ \A z \in Sessions \ {s} : op'[z] = op[z]
  BY IdleType DEF Inv, TypeOK, IsRaises, End
<1>2. /\ late' \in [Slots -> LateCalls \cup {None}] /\ LateOK'
      /\ UNCHANGED <<db, is, saved, cache, flash, alone>>
  <2>1. CASE UNCHANGED <<db, is, saved, late>>
    BY <2>1, SameLate DEF IsRaises
  <2>2. CASE Leave([pc |-> op[s].pc, theme |-> op[s].theme])
    <3> DEFINE call == [pc |-> op[s].pc, theme |-> op[s].theme]
    <3>1. call \in LateCalls
      BY DEF Inv, TypeOK, IsRaises, LateCalls, Operation
    <3>2. /\ call.pc \in {"put", "post"} => call.theme \in saved
          /\ call.pc = "isdelete" => call.theme = None
          /\ call.pc # "upsert"
      BY DEF Inv, OperationOK, IsRaises
    <3>3. Leave(call)
      BY <2>2
    <3>4. QED
      BY <3>1, <3>2, <3>3, LeftLate DEF IsRaises
  <2>3. QED
    BY <2>1, <2>2 DEF IsRaises
<1>3. TypeOK' /\ PublishedWasSaved'
  BY <1>1, <1>2 DEF Inv, TypeOK, PublishedWasSaved
<1>4. OperationOK(s)'
  BY <1>1 DEF OperationOK, At, Idle
<1>5. \A z \in Sessions : OperationOK(z)'
  BY <1>1, <1>2, <1>4, Others
<1>6. QED
  BY <1>2, <1>3, <1>5 DEF Inv

(* The portal stops waiting for a call of the Business API. *)
LEMMA TimesOutStep ==
  ASSUME Inv, NEW s \in Sessions,
         UpsertTimesOut(s) \/ DeleteTimesOut(s) \/ BackfillTimesOut(s)
  PROVE  Inv'
<1> DEFINE call == [pc |-> IF At(s, "dbdelete") THEN "dbdelete" ELSE "upsert",
                    theme |-> IF At(s, "dbdelete") THEN None ELSE op[s].theme]
<1>1. /\ op' \in [Sessions -> Operation]
      /\ \/ op'[s] = Idle
         \/ op'[s].pc = "isdelete" /\ op'[s].theme = None
      /\ \A z \in Sessions \ {s} : op'[z] = op[z]
  <2>1. CASE End(s)
    BY <2>1, IdleType DEF Inv, TypeOK, End
  <2>2. CASE At(s, "dbdelete") /\ Goto(s, "isdelete")
    BY <2>2, Moved DEF Inv, OperationOK, At, Idle, Steps
  <2>3. QED
    BY <2>1, <2>2 DEF UpsertTimesOut, DeleteTimesOut, BackfillTimesOut
<1>2. late' \in [Slots -> LateCalls \cup {None}] /\ LateOK' /\ UNCHANGED <<db, is, saved>>
  <2>1. op[s].pc \in {"upsert", "backfill", "dbdelete"}
        /\ (~At(s, "dbdelete") => op[s].theme \in Themes)
    BY DEF Inv, OperationOK, At, Idle, UpsertTimesOut, DeleteTimesOut, BackfillTimesOut
  <2>2. call \in LateCalls /\ (call.pc = "upsert" => call.theme \in Themes)
        /\ call.pc \in {"upsert", "dbdelete"}
    BY <2>1 DEF LateCalls
  <2>3. Leave(call)
    BY DEF At, UpsertTimesOut, DeleteTimesOut, BackfillTimesOut
  <2>4. QED
    BY <2>2, <2>3, LeftLate
<1>3. cache' \in [Sessions -> Themes \cup {None, Unset}] /\ flash' \in [Sessions -> Messages]
      /\ alone' = alone
  BY CacheType, FlashType
     DEF Inv, TypeOK, UpsertTimesOut, DeleteTimesOut, BackfillTimesOut, Messages
<1>4. TypeOK' /\ PublishedWasSaved'
  BY <1>1, <1>2, <1>3 DEF Inv, TypeOK, PublishedWasSaved
<1>5. \A z \in Sessions : OperationOK(z)'
  <2>1. OperationOK(s)'
    BY <1>1 DEF OperationOK, At, Idle
  <2>2. QED
    BY <1>1, <1>2, <2>1, Others
<1>6. QED
  BY <1>2, <1>4, <1>5 DEF Inv

(* A call nobody waits for is carried out, or fails: it writes to WSO2 IS  *)
(* only a theme that had been saved when it was sent.                      *)
LEMMA CarryOutStep ==
  ASSUME Inv, NEW i \in Slots, CarryOut(i)
  PROVE  Inv'
<1>1. /\ late[i] \in LateCalls /\ late[i] # None
      /\ UNCHANGED <<op, cache, flash, alone>>
  BY DEF Inv, TypeOK, CarryOut
<1>2. /\ saved \subseteq saved' /\ saved' \subseteq Themes
      /\ db' \in saved' \cup {None} /\ is' \in saved' \cup {is, None}
  BY <1>1 DEF Inv, TypeOK, LateOK, CarryOut, Upsert, LateCalls
<1>3. late' \in [Slots -> LateCalls \cup {None}]
      /\ \A j \in Slots : late'[j] # None => late'[j] = late[j] /\ late[j] # None
  BY DEF Inv, TypeOK, CarryOut
<1>4. LateOK'
  BY <1>2, <1>3 DEF Inv, LateOK
<1>5. TypeOK' /\ PublishedWasSaved'
  BY <1>1, <1>2, <1>3 DEF Inv, TypeOK, PublishedWasSaved
<1>6. \A z \in Sessions : OperationOK(z)'
  BY <1>1, <1>2 DEF Inv, OperationOK, At
<1>7. QED
  BY <1>4, <1>5, <1>6 DEF Inv

(* The session looks for its branding. *)
LEMMA LoadStep ==
  ASSUME Inv, NEW s \in Sessions, NEW b \in BOOLEAN, EnsureBrandingLoaded(s, b)
  PROVE  Inv'
<1>1. /\ op' \in [Sessions -> Operation] /\ (op'[s] = Idle \/ op'[s].pc = "fetch")
      /\ \A z \in Sessions \ {s} : op'[z] = op[z]
  BY Moved DEF Inv, TypeOK, OperationOK, EnsureBrandingLoaded, At, Steps
<1>2. cache' \in [Sessions -> Themes \cup {None, Unset}] /\ flash' \in [Sessions -> Messages]
  BY CacheType DEF Inv, TypeOK, EnsureBrandingLoaded
<1>2a. late' \in [Slots -> LateCalls \cup {None}] /\ LateOK'
  BY SameLate DEF EnsureBrandingLoaded
<1>3. TypeOK' /\ PublishedWasSaved'
  <2>1. alone' \subseteq Sessions
    BY AloneType DEF Inv, TypeOK, EnsureBrandingLoaded
  <2>2. QED
    BY <1>1, <1>2, <1>2a, <2>1 DEF Inv, TypeOK, PublishedWasSaved, EnsureBrandingLoaded
<1>4. OperationOK(s)'
  BY <1>1 DEF Inv, TypeOK, OperationOK, At, Idle, EnsureBrandingLoaded
<1>5. \A z \in Sessions : OperationOK(z)'
  BY <1>1, <1>4, Others DEF EnsureBrandingLoaded
<1>6. QED
  BY <1>2a, <1>3, <1>5 DEF Inv

(* WSO2 IS is asked for a preference to import. *)
LEMMA FetchStep ==
  ASSUME Inv, NEW s \in Sessions, NEW b \in BOOLEAN, FetchBrandingFromIs(s, b)
  PROVE  Inv'
<1>1. /\ op' \in [Sessions -> Operation]
      /\ \/ op'[s] = Idle
         \/ op'[s].pc = "backfill" /\ op'[s].theme \in Themes
      /\ \A z \in Sessions \ {s} : op'[z] = op[z]
  <2>1. \/ End(s)
        \/ is # None /\ op' = [op EXCEPT ![s].pc = "backfill", ![s].theme = is]
    BY Zenon DEF FetchBrandingFromIs
  <2>2. CASE End(s)
    BY <2>2, Ended DEF Inv
  <2>3. CASE is # None /\ op' = [op EXCEPT ![s].pc = "backfill", ![s].theme = is]
    <3> DEFINE q == [op[s] EXCEPT !.pc = "backfill", !.theme = is]
    <3>1. q \in Operation /\ q.pc = "backfill" /\ q.theme \in Themes
      BY <2>3 DEF Inv, TypeOK, Operation, Steps
    <3>2. op' = [op EXCEPT ![s] = q]
      BY <2>3 DEF Inv, TypeOK, Operation
    <3>3. QED
      BY <3>1, <3>2 DEF Inv, TypeOK
  <2>4. QED
    BY <2>1, <2>2, <2>3
<1>2. cache' \in [Sessions -> Themes \cup {None, Unset}] /\ flash' \in [Sessions -> Messages]
  BY CacheType DEF Inv, TypeOK, FetchBrandingFromIs
<1>2a. late' \in [Slots -> LateCalls \cup {None}] /\ LateOK'
  BY SameLate DEF FetchBrandingFromIs
<1>3. TypeOK' /\ PublishedWasSaved'
  BY <1>1, <1>2, <1>2a DEF Inv, TypeOK, PublishedWasSaved, OperationOK, At, Idle, FetchBrandingFromIs
<1>4. OperationOK(s)'
  BY <1>1 DEF Inv, TypeOK, OperationOK, At, Idle, FetchBrandingFromIs
<1>5. \A z \in Sessions : OperationOK(z)'
  BY <1>1, <1>4, Others DEF FetchBrandingFromIs
<1>6. QED
  BY <1>2a, <1>3, <1>5 DEF Inv

(* The imported theme is written to the row. *)
LEMMA BackfillStep ==
  ASSUME Inv, NEW s \in Sessions, NEW out \in Outcomes, Backfill(s, out)
  PROVE  Inv'
<1>1. /\ op' \in [Sessions -> Operation] /\ op'[s] = Idle
      /\ \A z \in Sessions \ {s} : op'[z] = op[z]
  BY Ended DEF Inv, Backfill
<1>2. cache' \in [Sessions -> Themes \cup {None, Unset}] /\ flash' \in [Sessions -> Messages]
  BY CacheType DEF Inv, TypeOK, OperationOK, At, Idle, Backfill
<1>2a. late' \in [Slots -> LateCalls \cup {None}] /\ LateOK'
  BY SameLate DEF Backfill, Upsert
<1>3. TypeOK' /\ PublishedWasSaved'
  BY <1>1, <1>2, <1>2a DEF Inv, TypeOK, PublishedWasSaved, OperationOK, At, Idle, Backfill, Upsert
<1>4. OperationOK(s)'
  BY <1>1 DEF Inv, TypeOK, OperationOK, At, Idle, Backfill, Upsert
<1>5. \A z \in Sessions : OperationOK(z)'
  BY <1>1, <1>4, Others DEF Backfill, Upsert
<1>6. QED
  BY <1>2a, <1>3, <1>5 DEF Inv

(* A page is shown, or the user logs out. *)
LEMMA PageStep ==
  ASSUME Inv, NEW s \in Sessions, ShowPage(s) \/ Logout(s)
  PROVE  Inv'
<1>1. /\ op' \in [Sessions -> Operation] /\ op'[s] = op[s]
      /\ \A z \in Sessions \ {s} : op'[z] = op[z]
  BY DEF Inv, TypeOK, ShowPage, Logout
<1>2. cache' \in [Sessions -> Themes \cup {None, Unset}] /\ flash' \in [Sessions -> Messages]
  BY CacheType, FlashType DEF Inv, TypeOK, ShowPage, Logout, Messages
<1>2a. late' \in [Slots -> LateCalls \cup {None}] /\ LateOK'
  BY SameLate DEF Logout, ShowPage
<1>3. TypeOK' /\ PublishedWasSaved'
  BY <1>1, <1>2, <1>2a DEF Inv, TypeOK, PublishedWasSaved, OperationOK, At, Idle, ShowPage, Logout
<1>4. OperationOK(s)'
  BY <1>1 DEF Inv, TypeOK, OperationOK, At, Idle, ShowPage, Logout
<1>5. \A z \in Sessions : OperationOK(z)'
  BY <1>1, <1>4, Others DEF ShowPage, Logout
<1>6. QED
  BY <1>2a, <1>3, <1>5 DEF Inv

(* Inv is inductive. *)
LEMMA InitInv == Init => Inv
BY IdleType DEF Init, Inv, TypeOK, PublishedWasSaved, LateOK, OperationOK, At, Idle, Messages

LEMMA StepInv == Inv /\ [Next]_vars => Inv'
<1>1. SUFFICES ASSUME Inv, [Next]_vars PROVE Inv'
  OBVIOUS
<1>2. CASE UNCHANGED vars
  BY <1>1, <1>2 DEF Inv, TypeOK, PublishedWasSaved, LateOK, OperationOK, At, vars
<1>3. ASSUME NEW s \in Sessions, OpStep(s) PROVE Inv'
  BY <1>1, <1>3, UpsertStep, SyncStep, PutNotFoundStep, DeletePersonalizationStep,
     DeleteBrandingStep, IsRaisesStep, TimesOutStep, FetchStep, BackfillStep DEF OpStep
<1>4. ASSUME NEW s \in Sessions, NEW b \in BOOLEAN, EnsureBrandingLoaded(s, b) PROVE Inv'
  BY <1>1, <1>4, LoadStep
<1>5. ASSUME NEW s \in Sessions, NEW t \in Themes, UpdateBranding(s, t) PROVE Inv'
  BY <1>1, <1>5, ArrivalStep
<1>6. ASSUME NEW s \in Sessions, ResetBranding(s) PROVE Inv'
  <2>1. op' \in [Sessions -> Operation] /\ op'[s].pc = "dbdelete"
        /\ \A z \in Sessions \ {s} : op'[z] = op[z]
    BY <1>1, <1>6, Moved DEF Inv, ResetBranding, Steps
  <2>2. OperationOK(s)'
    BY <1>1, <1>6, <2>1, Moved DEF Inv, OperationOK, At, Idle, Ready, ResetBranding, Steps
  <2>3. \A z \in Sessions : OperationOK(z)'
    BY <1>1, <1>6, <2>1, <2>2, Others DEF ResetBranding
  <2>4. alone' \subseteq Sessions
    BY <1>1, <1>6, AloneType DEF Inv, ResetBranding
  <2>5. late' \in [Slots -> LateCalls \cup {None}] /\ LateOK'
    BY <1>1, <1>6, SameLate DEF ResetBranding
  <2>6. QED
    BY <1>1, <1>6, <2>1, <2>3, <2>4, <2>5 DEF Inv, TypeOK, PublishedWasSaved, ResetBranding
<1>7. ASSUME NEW s \in Sessions, ShowPage(s) \/ Logout(s) PROVE Inv'
  BY <1>1, <1>7, PageStep
<1>8. ASSUME NEW t \in ConsoleThemes, Console(t) PROVE Inv'
  BY <1>1, <1>8, ThemesAssumption
     DEF Inv, TypeOK, PublishedWasSaved, LateOK, OperationOK, At, Console
<1>9. ASSUME NEW i \in Slots, CarryOut(i) PROVE Inv'
  BY <1>1, <1>9, CarryOutStep
<1>10. QED
  BY <1>1, <1>2, <1>3, <1>4, <1>5, <1>6, <1>7, <1>8, <1>9 DEF Next

LEMMA Invariance == Spec => []Inv
BY InitInv, StepInv, PTL DEF Spec

(* The two copies, the sessions and the requests are well formed for any   *)
(* number of sessions and themes; the row holds a theme that was saved.    *)
THEOREM TypeCorrect == Spec => []TypeOK
<1>1. Inv => TypeOK
  BY DEF Inv
<1>2. QED
  BY <1>1, Invariance, PTL

(* update_branding publishes to WSO2 IS only what it has recorded, however *)
(* many editors and imports overlap and whichever of their calls fail.     *)
THEOREM PublishedWasSavedAlways == Spec => []PublishedWasSaved
<1>1. Inv => PublishedWasSaved
  BY DEF Inv
<1>2. QED
  BY <1>1, Invariance, PTL


-----------------------------------------------------------------------------
(* Undisturbed is inductive together with Inv. *)

(* A session whose request is in progress is the only one that can be      *)
(* undisturbed, and what it shows is all that has to be seen to.           *)
Told(s) ==
    /\ flash[s] = "synced" => db = is /\ db = cache[s]
    /\ flash[s] = "local" => db = cache[s]
    /\ flash[s] = "reverted" => db = None /\ is = None

LEMMA OneAlone ==
  ASSUME Undisturbed, NEW s \in Sessions, ~At(s, "idle"), NEW z \in alone
  PROVE  z = s
BY DEF Undisturbed, AloneOK

LEMMA OnlyOne ==
  ASSUME NEW s \in Sessions, alone' \subseteq {s}, s \in alone' => Told(s)' /\ AloneOK(s)'
  PROVE  Undisturbed'
<1>1. ASSUME NEW z \in alone' PROVE Told(z)' /\ AloneOK(z)'
  BY <1>1
<1>2. QED
  BY <1>1 DEF Undisturbed, MessageIsTrue, Told

(* A step of a request in progress. *)
LEMMA BusyStep ==
  ASSUME Undisturbed, TypeOK, NEW s \in Sessions, ~At(s, "idle"), alone' = alone,
         s \in alone /\ AloneOK(s) /\ Told(s) => Told(s)' /\ AloneOK(s)'
  PROVE  Undisturbed'
<1>1. alone' \subseteq {s}
  BY OneAlone
<1>2. s \in alone => AloneOK(s) /\ Told(s)
  BY DEF Undisturbed, MessageIsTrue, Told
<1>3. QED
  BY <1>1, <1>2, OnlyOne

LEMMA UpsertTold ==
  ASSUME Inv, Undisturbed, NEW s \in Sessions, NEW out \in Outcomes, UpsertPersonalization(s, out)
  PROVE  Undisturbed'
<1>1. s \in alone /\ AloneOK(s) /\ Told(s) => Told(s)' /\ AloneOK(s)'
  <2>1. SUFFICES ASSUME AloneOK(s) PROVE Told(s)' /\ AloneOK(s)'
    OBVIOUS
  <2>2. flash[s] = "none" /\ op[s].theme \in Themes
    BY <2>1 DEF AloneOK, UpsertPersonalization, At, Inv, OperationOK
  <2>3. CASE out = "done"
    <3>1. op'[s].pc = "put" /\ op'[s].theme = op[s].theme /\ \A z \in Sessions \ {s} : op'[z] = op[z]
      BY <2>3, Moved DEF UpsertPersonalization, Steps, Inv
    <3>2. db' = op[s].theme /\ flash' = flash /\ late' = late /\ Quiet
      BY <2>1, <2>3 DEF UpsertPersonalization, Upsert, AloneOK, At
    <3>3. QED
      BY <2>1, <2>2, <3>1, <3>2 DEF Told, AloneOK, At, Quiet
  <2>4. CASE out # "done"
    <3>1. op'[s].pc = "idle" /\ \A z \in Sessions \ {s} : op'[z] = op[z]
      BY <2>4, Ended DEF UpsertPersonalization, Inv
    <3>2. flash'[s] = "notsaved"
      BY <2>4 DEF UpsertPersonalization, Flash, Inv, TypeOK
    <3>3. QED
      BY <2>1, <3>1, <3>2 DEF Told, AloneOK, At
  <2>5. QED
    BY <2>3, <2>4
<1>2. ~At(s, "idle") /\ alone' = alone
  BY DEF UpsertPersonalization, At
<1>3. QED
  BY <1>1, <1>2, BusyStep DEF Inv

(* The PUT or the POST is answered, or its answer is lost. *)
LEMMA SyncTold ==
  ASSUME Inv, Undisturbed, NEW s \in Sessions, NEW out \in Outcomes,
         PutBranding(s, out) \/ PostBranding(s, out)
  PROVE  Undisturbed'
<1>1. ~At(s, "idle") /\ alone' = alone /\ db' = db
  BY DEF PutBranding, PostBranding, At
<1>2. s \in alone /\ AloneOK(s) /\ Told(s) => Told(s)' /\ AloneOK(s)'
  <2>1. SUFFICES ASSUME AloneOK(s) PROVE Told(s)' /\ AloneOK(s)'
    OBVIOUS
  <2>2. flash[s] = "none" /\ db = op[s].theme
    BY <2>1 DEF AloneOK, PutBranding, PostBranding, At
  <2>3. op'[s].pc = "idle" /\ \A z \in Sessions \ {s} : op'[z] = op[z]
    BY Ended DEF Inv, PutBranding, PostBranding, Updated
  <2>4. AloneOK(s)'
    <3>1. late' = late /\ Quiet
      BY <2>1 DEF AloneOK, PutBranding, PostBranding, At
    <3>2. QED
      BY <2>1, <2>3, <3>1 DEF AloneOK, At, Quiet
  <2>5. CASE out = "lost"
    <3>1. flash' = flash
      BY <2>5 DEF PutBranding, PostBranding
    <3>2. QED
      BY <2>2, <2>4, <3>1 DEF Told
  <2>6. CASE out # "lost"
    <3>1. Updated(s, out = "done")
      BY <2>6 DEF PutBranding, PostBranding
    <3>2. cache'[s] = op[s].theme /\ flash'[s] = IF out = "done" THEN "synced" ELSE "local"
      BY <3>1 DEF Updated, Cache, Flash, Inv, TypeOK
    <3>3. out = "done" => is' = op[s].theme
      BY DEF PutBranding, PostBranding
    <3>4. QED
      BY <1>1, <2>2, <2>4, <3>2, <3>3 DEF Told
  <2>7. QED
    BY <2>5, <2>6
<1>3. QED
  BY <1>1, <1>2, BusyStep DEF Inv

LEMMA PutNotFoundTold ==
  ASSUME Inv, Undisturbed, NEW s \in Sessions, PutNotFound(s)
  PROVE  Undisturbed'
<1>1. ~At(s, "idle") /\ UNCHANGED <<db, is, late, cache, flash, alone>>
  BY DEF PutNotFound, At
<1>2. op'[s].pc = "post" /\ op'[s].theme = op[s].theme /\ \A z \in Sessions \ {s} : op'[z] = op[z]
  BY Moved DEF Inv, PutNotFound, Steps
<1>3. AloneOK(s) /\ Told(s) => Told(s)' /\ AloneOK(s)'
  BY <1>1, <1>2 DEF AloneOK, Told, At, Quiet, PutNotFound
<1>4. QED
  BY <1>1, <1>3, BusyStep DEF Inv

LEMMA DeletePersonalizationTold ==
  ASSUME Inv, Undisturbed, NEW s \in Sessions, NEW out \in Outcomes, DeletePersonalization(s, out)
  PROVE  Undisturbed'
<1>1. ~At(s, "idle") /\ UNCHANGED <<is, late, cache, flash, alone>>
  BY DEF DeletePersonalization, At
<1>2. /\ op'[s].pc = "isdelete" /\ op'[s].dbSuccess = (out = "done")
      /\ \A z \in Sessions \ {s} : op'[z] = op[z]
  BY DEF Inv, TypeOK, DeletePersonalization, Operation
<1>3. out = "done" => db' = None
  BY DEF DeletePersonalization
<1>4. AloneOK(s) => Told(s)' /\ AloneOK(s)'
  BY <1>1, <1>2, <1>3 DEF AloneOK, Told, At, Quiet, DeletePersonalization
<1>5. QED
  BY <1>1, <1>4, BusyStep DEF Inv

(* The preference is deleted: "reverted" only when both servers said so. *)
LEMMA DeleteBrandingTold ==
  ASSUME Inv, Undisturbed, NEW s \in Sessions, NEW out \in Outcomes, DeleteBranding(s, out)
  PROVE  Undisturbed'
<1>1. At(s, "isdelete") /\ ~At(s, "idle") /\ UNCHANGED <<db, late, alone>>
  BY DEF DeleteBranding, At
<1>2. op'[s].pc = "idle" /\ \A z \in Sessions \ {s} : op'[z] = op[z]
  BY Ended DEF Inv, DeleteBranding
<1>3. \/ flash' = flash
      \/ /\ flash'[s] \in {"notreverted", "reverted", "reverted_local"}
         /\ flash'[s] = "reverted" => out = "done" /\ op[s].dbSuccess
  BY DEF DeleteBranding, Flash, Inv, TypeOK
<1>4. out = "done" => is' = None
  BY DEF DeleteBranding
<1>5. ASSUME AloneOK(s) PROVE Told(s)' /\ AloneOK(s)'
  <2>1. flash[s] = "none" /\ (op[s].dbSuccess => db = None /\ Quiet)
    BY <1>1, <1>5 DEF AloneOK, At
  <2>2. AloneOK(s)'
    BY <1>1, <1>2, <1>3, <1>5, <2>1 DEF AloneOK, At, Quiet
  <2>3. QED
    BY <1>1, <1>3, <1>4, <2>1, <2>2 DEF Told
<1>6. QED
  BY <1>1, <1>5, BusyStep DEF Inv

(* A call that raises or times out leaves no message that promises         *)
(* anything.                                                               *)
LEMMA IsRaisesTold ==
  ASSUME Inv, Undisturbed, NEW s \in Sessions, IsRaises(s)
  PROVE  Undisturbed'
<1>1. ~At(s, "idle") /\ UNCHANGED <<cache, flash, alone>>
  BY DEF IsRaises, At
<1>2. op'[s].pc = "idle" /\ \A z \in Sessions \ {s} : op'[z] = op[z]
  BY Ended DEF Inv, IsRaises
<1>3. AloneOK(s) => Told(s)' /\ AloneOK(s)'
  <2>1. AloneOK(s) => flash[s] = "none"
    BY DEF AloneOK, IsRaises
  <2>2. QED
    BY <1>1, <1>2, <2>1 DEF AloneOK, Told, At
<1>4. QED
  BY <1>1, <1>3, BusyStep DEF Inv

LEMMA TimesOutTold ==
  ASSUME Inv, Undisturbed, NEW s \in Sessions,
         UpsertTimesOut(s) \/ DeleteTimesOut(s) \/ BackfillTimesOut(s)
  PROVE  Undisturbed'
<1>1. ~At(s, "idle") /\ alone' = alone
  BY DEF UpsertTimesOut, DeleteTimesOut, BackfillTimesOut, At
<1>2. \/ op'[s].pc = "idle"
      \/ op'[s].pc = "isdelete" /\ ~op'[s].dbSuccess /\ flash' = flash /\ At(s, "dbdelete")
  <2>1. CASE End(s)
    BY <2>1, Ended DEF Inv
  <2>2. CASE DeleteTimesOut(s)
    <3>1. op'[s] = [op[s] EXCEPT !.pc = "isdelete"] /\ ~op[s].dbSuccess
      BY <2>2 DEF DeleteTimesOut, Goto, Inv, TypeOK, OperationOK, At
    <3>2. QED
      BY <2>2, <3>1 DEF DeleteTimesOut, Inv, TypeOK, Operation
  <2>3. QED
    BY <2>1, <2>2 DEF UpsertTimesOut, BackfillTimesOut
<1>3. \A z \in Sessions \ {s} : op'[z] = op[z]
  BY Ended, Moved DEF Inv, UpsertTimesOut, DeleteTimesOut, BackfillTimesOut, Steps
<1>4. AloneOK(s) => flash'[s] \notin {"synced", "local", "reverted"}
  BY DEF AloneOK, At, UpsertTimesOut, DeleteTimesOut, BackfillTimesOut, Flash, Inv, TypeOK
<1>5. AloneOK(s) /\ op'[s].pc = "isdelete" => flash'[s] = "none"
  BY <1>2 DEF AloneOK, At
<1>6. AloneOK(s) => Told(s)' /\ AloneOK(s)'
  BY <1>2, <1>3, <1>4, <1>5 DEF AloneOK, Told, At
<1>7. QED
  BY <1>1, <1>6, BusyStep DEF Inv

(* A call carried out late meets no message that promises anything.        *)
LEMMA CarryOutTold ==
  ASSUME Inv, Undisturbed, NEW i \in Slots, CarryOut(i)
  PROVE  Undisturbed'
<1>1. ~Quiet /\ UNCHANGED <<cache, flash, op, alone>>
  BY DEF CarryOut, Quiet
<1>2. ASSUME NEW z \in alone PROVE Told(z)' /\ AloneOK(z)'
  <2>1. AloneOK(z)
    BY DEF Undisturbed
  <2>2. /\ flash[z] \notin {"synced", "local", "reverted"}
        /\ op[z].pc \notin {"upsert", "put", "post", "dbdelete"}
        /\ ~(At(z, "isdelete") /\ op[z].dbSuccess)
    BY <1>1, <2>1 DEF AloneOK
  <2>3. QED
    BY <1>1, <2>1, <2>2 DEF Told, AloneOK, At
<1>3. QED
  BY <1>1, <1>2 DEF Undisturbed, MessageIsTrue, Told

(* The import of the session's own next request finds no preference to     *)
(* bring back after a reset that succeeded.                                *)
LEMMA FetchTold ==
  ASSUME Inv, Undisturbed, NEW s \in Sessions, NEW b \in BOOLEAN, FetchBrandingFromIs(s, b)
  PROVE  Undisturbed'
<1>1. At(s, "fetch") /\ ~At(s, "idle") /\ UNCHANGED <<db, is, late, flash, alone>>
  BY DEF FetchBrandingFromIs, At
<1>2. \A z \in Sessions \ {s} : op'[z] = op[z]
  BY Ended DEF Inv, TypeOK, FetchBrandingFromIs
<1>3. \/ op'[s].pc = "idle"
      \/ op'[s].pc = "backfill" /\ is # None
  <2>1. \/ End(s)
        \/ is # None /\ op' = [op EXCEPT ![s].pc = "backfill", ![s].theme = is]
    BY Zenon DEF FetchBrandingFromIs
  <2>2. QED
    <3>1. CASE End(s)
      BY <3>1, Ended DEF Inv
    <3>2. CASE is # None /\ op' = [op EXCEPT ![s].pc = "backfill", ![s].theme = is]
      BY <3>2 DEF Inv, TypeOK, Operation
    <3>3. QED
      BY <2>1, <3>1, <3>2
<1>4. ASSUME AloneOK(s), Told(s) PROVE Told(s)' /\ AloneOK(s)'
  <2>1. flash[s] \notin {"synced", "local"}
    BY <1>1, <1>4 DEF AloneOK, At
  <2>2. QED
    BY <1>1, <1>2, <1>3, <1>4, <2>1 DEF AloneOK, Told, At, Quiet
<1>5. QED
  BY <1>1, <1>4, BusyStep DEF Inv

LEMMA BackfillTold ==
  ASSUME Inv, Undisturbed, NEW s \in Sessions, NEW out \in Outcomes, Backfill(s, out)
  PROVE  Undisturbed'
<1>1. At(s, "backfill") /\ ~At(s, "idle") /\ UNCHANGED <<is, late, flash, alone>>
  BY DEF Backfill, At
<1>2. op'[s].pc = "idle" /\ \A z \in Sessions \ {s} : op'[z] = op[z]
  BY Ended DEF Inv, Backfill
<1>3. ASSUME AloneOK(s) PROVE Told(s)' /\ AloneOK(s)'
  <2>1. flash[s] \notin {"synced", "local", "reverted"}
    BY <1>1, <1>3 DEF AloneOK, At
  <2>2. QED
    BY <1>1, <1>2, <1>3, <2>1 DEF AloneOK, Told, At, Quiet
<1>4. QED
  BY <1>1, <1>3, BusyStep DEF Inv

(* A change begins: it is undisturbed when it is the only request. *)
LEMMA ChangeBegins ==
  ASSUME Inv, NEW s \in Sessions, Ready(s), Begins(s), UNCHANGED <<flash, late>>,
         op'[s].pc \in {"upsert", "dbdelete"}, \A z \in Sessions \ {s} : op'[z] = op[z]
  PROVE  Undisturbed'
<1>1. alone' \subseteq {s} /\ (s \in alone' => Quiet /\ \A z \in Sessions \ {s} : At(z, "idle"))
  BY DEF Begins
<1>2. s \in alone' => Told(s)' /\ AloneOK(s)'
  BY <1>1 DEF Told, AloneOK, At, Ready, Quiet
<1>3. QED
  BY <1>1, <1>2, OnlyOne

(* A request finds the session without branding: no message that speaks of *)
(* the session's copy is waiting to be shown.                              *)
LEMMA LoadTold ==
  ASSUME Inv, Undisturbed, NEW s \in Sessions, NEW b \in BOOLEAN, EnsureBrandingLoaded(s, b)
  PROVE  Undisturbed'
<1>1. At(s, "idle") /\ cache[s] = Unset /\ UNCHANGED <<db, is, late, flash>> /\ db # Unset
  BY NoneAssumption DEF EnsureBrandingLoaded, Inv, TypeOK
<1>2. \/ op' = op /\ alone' = alone /\ \A z \in Sessions \ {s} : cache'[z] = cache[z]
      \/ Goto(s, "fetch") /\ Interferes(s) /\ cache' = cache
  BY DEF EnsureBrandingLoaded, Cache, Inv, TypeOK
<1>3. s \in alone => flash[s] \notin {"synced", "local"}
  BY <1>1 DEF Undisturbed, MessageIsTrue
<1>4. CASE op' = op /\ alone' = alone /\ \A z \in Sessions \ {s} : cache'[z] = cache[z]
  <2>1. ASSUME NEW z \in alone PROVE Told(z)' /\ AloneOK(z)'
    <3>1. z \in Sessions /\ Told(z) /\ AloneOK(z)
      BY DEF Undisturbed, MessageIsTrue, Told, Inv, TypeOK
    <3>2. QED
      BY <1>1, <1>3, <1>4, <2>1, <3>1 DEF Told, AloneOK, At, Quiet
  <2>2. QED
    BY <1>4, <2>1 DEF Undisturbed, MessageIsTrue, Told
<1>5. CASE Goto(s, "fetch") /\ Interferes(s) /\ cache' = cache
  <2>1. alone' \subseteq {s} /\ (s \in alone' => s \in alone)
    BY <1>5 DEF Interferes
  <2>2. op'[s].pc = "fetch" /\ \A z \in Sessions \ {s} : op'[z] = op[z]
    BY <1>5, Moved DEF Inv, Steps
  <2>3. s \in alone => Told(s)' /\ AloneOK(s)'
    BY <1>1, <1>3, <2>2 DEF Undisturbed, MessageIsTrue, Told, AloneOK, At, Quiet
  <2>4. QED
    BY <2>1, <2>3, OnlyOne
<1>6. QED
  BY <1>2, <1>4, <1>5

LEMMA PageTold ==
  ASSUME Inv, Undisturbed, NEW s \in Sessions, ShowPage(s) \/ Logout(s)
  PROVE  Undisturbed'
<1>1. UNCHANGED <<db, is, late, op, alone>> /\ flash'[s] = "none"
      /\ \A z \in Sessions \ {s} : flash'[z] = flash[z] /\ cache'[z] = cache[z]
  BY DEF ShowPage, Logout, Ready, Flash, Cache, Inv, TypeOK
<1>2. ASSUME NEW z \in alone PROVE Told(z)' /\ AloneOK(z)'
  <2>1. z \in Sessions /\ Told(z) /\ AloneOK(z)
    BY DEF Undisturbed, MessageIsTrue, Told, Inv, TypeOK
  <2>2. QED
    BY <1>1, <2>1 DEF Told, AloneOK, At, Quiet
<1>3. QED
  BY <1>1, <1>2 DEF Undisturbed, MessageIsTrue, Told

LEMMA InitUndisturbed == Init => Undisturbed
BY DEF Init, Undisturbed, MessageIsTrue

LEMMA StepUndisturbed == Inv /\ Undisturbed /\ [Next]_vars => Undisturbed'
<1>1. SUFFICES ASSUME Inv, Undisturbed, [Next]_vars PROVE Undisturbed'
  OBVIOUS
<1>2. CASE UNCHANGED vars
  BY <1>1, <1>2 DEF Undisturbed, MessageIsTrue, AloneOK, At, Quiet, vars
<1>3. ASSUME NEW s \in Sessions, OpStep(s) PROVE Undisturbed'
  BY <1>1, <1>3, UpsertTold, SyncTold, PutNotFoundTold, DeletePersonalizationTold,
     DeleteBrandingTold, IsRaisesTold, TimesOutTold, FetchTold, BackfillTold DEF OpStep
<1>4. ASSUME NEW s \in Sessions, NEW b \in BOOLEAN, EnsureBrandingLoaded(s, b) PROVE Undisturbed'
  BY <1>1, <1>4, LoadTold
<1>5. ASSUME NEW s \in Sessions, NEW t \in Themes, UpdateBranding(s, t) PROVE Undisturbed'
  <2>1. op'[s].pc = "upsert" /\ \A z \in Sessions \ {s} : op'[z] = op[z]
    BY <1>1, <1>5 DEF Inv, TypeOK, UpdateBranding, Idle
  <2>2. QED
    BY <1>1, <1>5, <2>1, ChangeBegins DEF UpdateBranding
<1>6. ASSUME NEW s \in Sessions, ResetBranding(s) PROVE Undisturbed'
  <2>1. op'[s].pc = "dbdelete" /\ \A z \in Sessions \ {s} : op'[z] = op[z]
    BY <1>1, <1>6, Moved DEF Inv, ResetBranding, Steps
  <2>2. QED
    BY <1>1, <1>6, <2>1, ChangeBegins DEF ResetBranding
<1>7. ASSUME NEW s \in Sessions, ShowPage(s) \/ Logout(s) PROVE Undisturbed'
  BY <1>1, <1>7, PageTold
<1>8. ASSUME NEW t \in ConsoleThemes, Console(t) PROVE Undisturbed'
  BY <1>8 DEF Console, Undisturbed, MessageIsTrue
<1>9. ASSUME NEW i \in Slots, CarryOut(i) PROVE Undisturbed'
  BY <1>1, <1>9, CarryOutTold
<1>10. QED
  BY <1>1, <1>2, <1>3, <1>4, <1>5, <1>6, <1>7, <1>8, <1>9 DEF Next

(* What the page after update_branding or reset_branding tells an editor   *)
(* nobody interfered with, and whose change met no call left at work by a  *)
(* timeout, is so while it is shown, whichever calls failed or lost their  *)
(* answers, the import that runs before that page included.                *)
THEOREM MessageIsAlwaysTrue == Spec => []MessageIsTrue
<1>1. Spec => []Undisturbed
  BY Invariance, InitUndisturbed, StepUndisturbed, PTL DEF Spec
<1>2. Undisturbed => MessageIsTrue
  BY DEF Undisturbed
<1>3. QED
  BY <1>1, <1>2, PTL

=============================================================================

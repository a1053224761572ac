-------------------------- MODULE ProvisioningProofs --------------------------
(***************************************************************************)
(* Proofs about Provisioning, for any number of organizations and of runs  *)
(* of the scripts.  The second part is about Subscription, whose state and *)
(* steps are its own.                                                      *)
(***************************************************************************)
EXTENDS Provisioning, Subscription, TLAPS

(* What the invariant needs to know of the two scripts. *)
Hows == {"lookup", "upsert", "unshare", "write", "create", "share", "find"}

LEMMA SetupIsSteps ==
  /\ Len(SetupIs) \in Nat /\ DOMAIN SetupIs = 1..Len(SetupIs)
  /\ \A k \in DOMAIN SetupIs :
        /\ SetupIs[k].how \in Hows /\ SetupIs[k].how # "find"
        /\ SetupIs[k].item \in Items(SetupIs) \cup {"sharing"}
        /\ SetupIs[k].item = "sharing" <=> SetupIs[k].how \in {"share", "unshare"}
        /\ SetupIs[k].how = "share" <=> k = Len(SetupIs)
<1>1. Len(SetupIs) = 11 /\ DOMAIN SetupIs = 1..11
  BY DEF SetupIs
<1>2. \A k \in 1..11 :
         /\ SetupIs[k].how \in Hows /\ SetupIs[k].how # "find"
         /\ SetupIs[k].item = "sharing" <=> SetupIs[k].how \in {"share", "unshare"}
         /\ SetupIs[k].how = "share" <=> k = 11
  BY DEF SetupIs, Step, Hows
<1>3. QED
  BY <1>1, <1>2 DEF Items

LEMMA SetupIdpServerSteps ==
  /\ Len(SetupIdpServer) \in Nat /\ DOMAIN SetupIdpServer = 1..Len(SetupIdpServer)
  /\ "group" \in Items(SetupIdpServer)
  /\ \A k \in DOMAIN SetupIdpServer :
        /\ SetupIdpServer[k].how \in Hows
        /\ SetupIdpServer[k].item \in Items(SetupIdpServer)
        /\ SetupIdpServer[k].how \notin {"share", "unshare"}
        /\ SetupIdpServer[k].how = "find" <=> k = Len(SetupIdpServer)
        /\ SetupIdpServer[k].how = "find" => SetupIdpServer[k].item = "group"
<1>1. Len(SetupIdpServer) = 8 /\ DOMAIN SetupIdpServer = 1..8
  BY DEF SetupIdpServer
<1>2. \A k \in 1..8 :
         /\ SetupIdpServer[k].how \in Hows
         /\ SetupIdpServer[k].item # "sharing"
         /\ SetupIdpServer[k].how \notin {"share", "unshare"}
         /\ SetupIdpServer[k].how = "find" <=> k = 8
         /\ SetupIdpServer[k].how = "find" => SetupIdpServer[k].item = "group"
  BY DEF SetupIdpServer, Step, Hows
<1>3. SetupIdpServer[8].item = "group"
  BY DEF SetupIdpServer, Step
<1>4. QED
  BY <1>1, <1>2, <1>3 DEF Items

LEMMA StepFacts ==
  ASSUME ProvisioningTypeOK
  PROVE  /\ Len(ScriptSteps) \in Nat /\ DOMAIN ScriptSteps = 1..Len(ScriptSteps) /\ "group" \in AllItems
         /\ \A k \in DOMAIN ScriptSteps :
               /\ ScriptSteps[k].how \in Hows
               /\ ScriptSteps[k].item \in AllItems \cup {"sharing"}
               /\ ScriptSteps[k].item = "sharing" <=> ScriptSteps[k].how \in {"share", "unshare"}
               /\ ScriptSteps[k].how \in {"share", "find"} <=> k = Len(ScriptSteps)
               /\ ScriptSteps[k].how = "share" => script = "setup_is"
               /\ ScriptSteps[k].how = "find" => ScriptSteps[k].item = "group" /\ script = "setup_idp_server"
<1>1. CASE script = "setup_is"
  BY <1>1, SetupIsSteps, SetupIdpServerSteps DEF ScriptSteps, AllItems
<1>2. CASE script # "setup_is"
  <2>1. script = "setup_idp_server" /\ "sharing" \notin Items(SetupIdpServer)
    BY <1>2 DEF ProvisioningTypeOK, Items
  <2>2. QED
    BY <1>2, <2>1, SetupIdpServerSteps DEF ScriptSteps, AllItems
<1>3. QED
  BY <1>1, <1>2

LEMMA CurrentFacts ==
  ASSUME ProvisioningTypeOK, Running
  PROVE  /\ run.at \in DOMAIN ScriptSteps /\ run.at \in Nat /\ run.at <= Len(ScriptSteps)
         /\ run.clean \in BOOLEAN
  BY StepFacts DEF ProvisioningTypeOK, Running, RunStates

LEMMA NoRunOK ==
  ASSUME ProvisioningTypeOK
  PROVE  /\ NoRun \in RunStates /\ NoRun.at = 0 /\ NoRun.phase = "step" /\ NoRun.clean = FALSE
  BY StepFacts DEF NoRun, RunStates

-----------------------------------------------------------------------------
(* What no run keeps for itself. *)
WorldOK ==
    /\ res \in [AllItems -> {"absent", "old", "new"}]
    /\ orgs \subseteq Orgs /\ orgRoles \in [Orgs -> SUBSET {"base", "plan"}]
    /\ sharing \in Seq({"NONE", "SELECTED"})
    /\ outstanding \in [Orgs -> SUBSET DOMAIN sharing] /\ astray \subseteq Orgs
    /\ members \subseteq {User, Other} /\ (members # {} => res["group"] # "absent")

LEMMA Advanced ==
  ASSUME ProvisioningTypeOK, Running, NEW c \in BOOLEAN, Advance(c)
  PROVE  /\ run' \in RunStates /\ run'.phase = "step"
         /\ \/ /\ run.at < Len(ScriptSteps) /\ run'.at = run.at + 1 /\ finished' = finished
               /\ run'.clean => run.clean /\ c
            \/ /\ run.at = Len(ScriptSteps) /\ run' = NoRun
               /\ finished' \in BOOLEAN
               /\ finished' => run.clean /\ c
<1>1. run.at \in Nat /\ run.at <= Len(ScriptSteps) /\ Len(ScriptSteps) \in Nat /\ run.clean \in BOOLEAN
  BY CurrentFacts, StepFacts
<1>2. CASE run.at < Len(ScriptSteps)
  <2>1. run.at + 1 \in 0..Len(ScriptSteps) /\ (run.clean /\ c) \in BOOLEAN
    BY <1>1, <1>2
  <2>2. /\ run' = [NoRun EXCEPT !.at = run.at + 1, !.clean = run.clean /\ c]
        /\ finished' = finished
    BY <1>2 DEF Advance
  <2>3. run' = [at |-> run.at + 1, phase |-> "step", seen |-> {}, again |-> FALSE,
                clean |-> run.clean /\ c]
    BY <2>2 DEF NoRun
  <2>4. run' \in RunStates
    BY <2>1, <2>3 DEF RunStates
  <2>5. run'.at = run.at + 1 /\ run'.phase = "step" /\ (run'.clean => run.clean /\ c)
    BY <2>3
  <2>6. QED
    BY <1>2, <2>2, <2>4, <2>5
<1>3. CASE ~(run.at < Len(ScriptSteps))
  <2>1. run.at = Len(ScriptSteps)
    BY <1>1, <1>3
  <2>2. run' = NoRun /\ finished' = (run.clean /\ c)
    BY <1>3 DEF Advance
  <2>3. finished' \in BOOLEAN /\ (finished' => run.clean /\ c)
    BY <2>2
  <2>4. QED
    BY <2>1, <2>2, <2>3, NoRunOK
<1>4. QED
  BY <1>2, <1>3

(* What a step brought about stays so for the rest of the run. *)
LEMMA DoneKept ==
  ASSUME ProvisioningTypeOK, script' = script, NEW k \in DOMAIN ScriptSteps, Done(k), ScriptSteps[k].how # "find",
         \A i \in AllItems : res'[i] = res[i] \/ res'[i] = "new"
  PROVE  Done(k)'
<1>1. ScriptSteps' = ScriptSteps /\ ScriptSteps[k].item \in AllItems \cup {"sharing"}
  BY StepFacts DEF ScriptSteps
<1>2. QED
  BY <1>1 DEF Done

LEMMA SharingSame ==
  ASSUME UNCHANGED SharingVars
  PROVE  UNCHANGED <<orgs, orgRoles, sharing, outstanding, astray>> /\ (SharingKept => SharingKept')
  BY DEF SharingVars, SharingKept

(* A step of the script ends, or the script does. *)
LEMMA ScriptMoves ==
  ASSUME ProvisioningInv, Running, UNCHANGED <<script, runs, added>>, WorldOK', blind' \in BOOLEAN,
         NEW c \in BOOLEAN, NEW at \in DOMAIN ScriptSteps, at = run.at, (Advance(c) /\ (c => Done(at)')) \/ Stop,
         \A i \in AllItems : res'[i] = res[i] \/ res'[i] = "new",
         c /\ Current.how = "share" => sharing' # <<>> /\ sharing'[Len(sharing')] = "SELECTED",
         SharingKept', MembersKept'
  PROVE  ProvisioningInv'
<1>1. ProvisioningTypeOK /\ Progress /\ SeenMembers /\ ~finished /\ ScriptSteps' = ScriptSteps /\ RunStates' = RunStates
  BY DEF ProvisioningInv, Progress, ScriptSteps, RunStates
<1>2. /\ run.at \in DOMAIN ScriptSteps /\ run.at \in Nat /\ Len(ScriptSteps) \in Nat
      /\ DOMAIN ScriptSteps = 1..Len(ScriptSteps) /\ "group" \in AllItems
  BY <1>1, CurrentFacts, StepFacts
<1>3. /\ run' \in RunStates /\ run'.phase = "step"
      /\ \/ /\ run'.at = run.at + 1 /\ ~finished' /\ finished' = FALSE
            /\ run'.clean => run.clean /\ Done(at)'
         \/ /\ run' = NoRun /\ finished' \in BOOLEAN
            /\ finished' => run.at = Len(ScriptSteps) /\ run.clean /\ c /\ Done(at)'
  <2>1. CASE Advance(c) /\ (c => Done(at)')
    <3>1. finished = FALSE
      BY <1>1 DEF ProvisioningTypeOK
    <3>2. QED
      BY <1>1, <2>1, <3>1, Advanced
  <2>2. CASE Stop
    <3>1. run' = NoRun /\ finished' = FALSE
      BY <2>2 DEF Stop
    <3>2. QED
      BY <1>1, <3>1, NoRunOK
  <2>3. QED
    BY <2>1, <2>2
<1>4. ProvisioningTypeOK'
  <2>1. finished' \in BOOLEAN
    BY <1>3
  <2>2. QED
    BY <1>1, <1>3, <2>1 DEF ProvisioningTypeOK, WorldOK
<1>5. ASSUME NEW k \in DOMAIN ScriptSteps, k < run.at, run.clean PROVE Done(k)'
  <2>1. Done(k) /\ k # Len(ScriptSteps)
    BY <1>1, <1>2, <1>5 DEF Progress
  <2>2. ScriptSteps[k].how # "find"
    BY <1>1, <2>1, StepFacts
  <2>3. QED
    BY <1>1, <2>1, <2>2, DoneKept
<1>6. Progress'
  <2>1. CASE run' = NoRun
    BY <1>1, <2>1, NoRunOK DEF Progress, Running
  <2>2. CASE run'.at = run.at + 1 /\ ~finished' /\ (run'.clean => run.clean /\ Done(at)')
    <3>1. ASSUME NEW k \in DOMAIN ScriptSteps, k < run'.at, run'.clean PROVE Done(k)'
      <4>1. CASE k = at
        BY <2>2, <3>1, <4>1
      <4>2. CASE k # at
        BY <1>2, <1>5, <2>2, <3>1, <4>2
      <4>3. QED
        BY <4>1, <4>2
    <3>2. QED
      BY <1>1, <1>3, <2>2, <3>1 DEF Progress, Running
  <2>3. QED
    BY <1>3, <2>1, <2>2
<1>7. SeenMembers'
  BY <1>1, <1>2, <1>3 DEF SeenMembers
<1>8. EndedShared'
  <2> SUFFICES ASSUME finished', script = "setup_is"
               PROVE  sharing' # <<>> /\ sharing'[Len(sharing')] = "SELECTED"
    BY DEF EndedShared
  <2>1. run.at = Len(ScriptSteps) /\ c
    BY <1>3
  <2>2. ScriptSteps[run.at].how = "share"
    BY <1>1, <1>2, <2>1, StepFacts
  <2>3. QED
    BY <2>1, <2>2 DEF Current
<1>9. CompleteRunProvisions'
  <2> SUFFICES ASSUME finished', NEW k \in DOMAIN ScriptSteps PROVE Done(k)'
    BY <1>1 DEF CompleteRunProvisions
  <2>1. run.at = Len(ScriptSteps) /\ run.clean /\ Done(at)'
    BY <1>3
  <2>2. CASE k = at
    BY <2>1, <2>2
  <2>3. CASE k # at
    BY <1>2, <1>5, <2>1, <2>3
  <2>4. QED
    BY <2>2, <2>3
<1>10. QED
  BY <1>4, <1>6, <1>7, <1>8, <1>9 DEF ProvisioningInv

(* A run goes on with its group. *)
LEMMA GroupMoves ==
  ASSUME ProvisioningInv, Running, Current.how = "find", UNCHANGED <<script, res, SharingVars, runs, added>>,
         finished' = finished, blind' \in BOOLEAN, members' \subseteq {User, Other},
         res["group"] # "absent", run' \in RunStates, run'.at = run.at,
         run'.clean => run.clean, SeenMembers', MembersKept'
  PROVE  ProvisioningInv'
<1>1. ProvisioningTypeOK /\ Progress /\ ~finished /\ ScriptSteps' = ScriptSteps /\ RunStates' = RunStates
  BY DEF ProvisioningInv, Progress, ScriptSteps, RunStates
<1>2. ProvisioningTypeOK' /\ SharingKept' /\ EndedShared'
  BY <1>1, SharingSame DEF ProvisioningInv, ProvisioningTypeOK, EndedShared
<1>3. Progress'
  <2>1. ASSUME NEW k \in DOMAIN ScriptSteps, k < run.at, run.clean PROVE Done(k)'
    <3>1. Done(k) /\ k # Len(ScriptSteps)
      BY <1>1, <2>1, CurrentFacts, StepFacts DEF Progress
    <3>2. ScriptSteps[k].how # "find"
      BY <1>1, <3>1, StepFacts
    <3>3. QED
      BY <1>1, <3>1, <3>2, DoneKept
  <2>2. QED
    BY <1>1, <2>1 DEF Progress, Running, Current
<1>4. QED
  BY <1>1, <1>2, <1>3 DEF ProvisioningInv, CompleteRunProvisions

-----------------------------------------------------------------------------
LEMMA SetItem ==
  ASSUME ProvisioningTypeOK, NEW item, Set(item) \/ res' = res
  PROVE  /\ res' \in [AllItems -> {"absent", "old", "new"}]
         /\ \A i \in AllItems : res'[i] = res[i] \/ res'[i] = "new"
         /\ Set(item) /\ item \in AllItems => res'[item] = "new"
  BY DEF ProvisioningTypeOK, Set

(* The steps that bring a resource about, or leave it alone. *)
LEMMA ResourceMoves ==
  ASSUME ProvisioningInv, Running, Current.how \notin {"share", "unshare", "find"},
         UNCHANGED <<script, SharingVars, GroupVars, runs>>,
         Set(Current.item) \/ res' = res, NEW c \in BOOLEAN, Advance(c) \/ Stop,
         c => Set(Current.item) \/ (/\ res[Current.item] # "absent"
                                    /\ Current.how \notin {"upsert", "write"})
  PROVE  ProvisioningInv'
<1> DEFINE at == run.at
<1>1. ProvisioningTypeOK /\ UNCHANGED <<SharingVars, members, added, blind>> /\ ScriptSteps' = ScriptSteps
  BY DEF ProvisioningInv, GroupVars, ScriptSteps
<1>2. at \in DOMAIN ScriptSteps /\ Current = ScriptSteps[at] /\ "group" \in AllItems
  BY <1>1, CurrentFacts, StepFacts DEF Current
<1>3. Current.item \in AllItems
  BY <1>1, <1>2, StepFacts
<1>4. /\ res' \in [AllItems -> {"absent", "old", "new"}]
      /\ \A i \in AllItems : res'[i] = res[i] \/ res'[i] = "new"
      /\ Set(Current.item) => res'[Current.item] = "new"
  BY <1>1, <1>3, SetItem
<1>5. WorldOK' /\ SharingKept'
  BY <1>1, <1>2, <1>4, SharingSame DEF ProvisioningInv, WorldOK, ProvisioningTypeOK
<1>6. MembersKept'
  BY <1>1 DEF ProvisioningInv, MembersKept
<1>7. c => /\ res'[Current.item] # "absent"
           /\ Current.how \in {"upsert", "write"} => res'[Current.item] = "new"
  BY <1>3, <1>4
<1>8. ASSUME NEW k \in DOMAIN ScriptSteps, k = at, c PROVE Done(k)'
  BY <1>1, <1>2, <1>7, <1>8 DEF Done
<1>9. blind' \in BOOLEAN
  BY <1>1 DEF ProvisioningTypeOK
<1>10. UNCHANGED <<script, runs, added>>
  BY <1>1
<1>11. PICK k \in DOMAIN ScriptSteps : k = at
  BY <1>2
<1>12. QED
  BY <1>4, <1>5, <1>6, <1>8, <1>9, <1>10, <1>11, ScriptMoves

LEMMA ResourceSteps ==
  ASSUME ProvisioningInv, LookupStep \/ UpsertStep \/ CreateStep \/ WriteStep
  PROVE  ProvisioningInv'
<1>1. /\ Running /\ UNCHANGED <<script, SharingVars, GroupVars, runs>>
      /\ Current.how \in {"lookup", "upsert", "create", "write"}
  BY DEF LookupStep, UpsertStep, CreateStep, WriteStep, AtStep
<1>2. \E c \in BOOLEAN :
         /\ Set(Current.item) \/ res' = res
         /\ Advance(c) \/ Stop
         /\ c => Set(Current.item) \/ (/\ res[Current.item] # "absent"
                                       /\ Current.how \notin {"upsert", "write"})
  <2>1. CASE LookupStep
    <3>1. Current.how = "lookup"
      BY <2>1 DEF LookupStep, AtStep
    <3>2. CASE Stop
      BY <2>1, <3>1, <3>2 DEF LookupStep
    <3>3. CASE ~Stop
      <4>1. Advance(TRUE) /\ (Set(Current.item) \/ (res' = res /\ res[Current.item] # "absent"))
        BY <2>1, <3>3 DEF LookupStep
      <4>2. QED
        BY <3>1, <4>1
    <3>4. QED
      BY <3>2, <3>3
  <2>2. CASE UpsertStep
    BY <2>2 DEF UpsertStep
  <2>3. CASE CreateStep
    <3>1. Current.how = "create"
      BY <2>3 DEF CreateStep, AtStep
    <3>2. QED
      BY <2>3, <3>1 DEF CreateStep
  <2>4. CASE WriteStep
    BY <2>4 DEF WriteStep
  <2>5. QED
    BY <2>1, <2>2, <2>3, <2>4
<1>3. QED
  BY <1>1, <1>2, ResourceMoves

(* Both sharing steps apply to every organization there is. *)
LEMMA ShareSteps ==
  ASSUME ProvisioningInv, Unshare \/ Share
  PROVE  ProvisioningInv'
<1> DEFINE at == run.at
<1>1. /\ ProvisioningTypeOK /\ Running /\ ScriptSteps' = ScriptSteps /\ Current.how \in {"share", "unshare"}
      /\ UNCHANGED <<script, runs, res, members, added, blind>>
  BY DEF ProvisioningInv, Unshare, Share, AtStep, GroupVars, ScriptSteps
<1>2. at \in DOMAIN ScriptSteps /\ Current = ScriptSteps[at] /\ Current.item = "sharing"
  BY <1>1, CurrentFacts, StepFacts DEF Current
<1>3. PICK c \in BOOLEAN : /\ Advance(c) \/ Stop
                           /\ c /\ Current.how = "share" => ShareWithAll("SELECTED")
  BY DEF Unshare, Share, AtStep
<1>4. ShareWithAll("NONE") \/ ShareWithAll("SELECTED") \/ UNCHANGED SharingVars
  BY DEF Unshare, Share
<1>5. ASSUME NEW mode \in {"NONE", "SELECTED"}, ShareWithAll(mode)
      PROVE  /\ sharing' # <<>> /\ sharing'[Len(sharing')] = mode
             /\ SharingKept' /\ UNCHANGED <<orgs, orgRoles>> /\ astray' \subseteq Orgs
             /\ sharing' \in Seq({"NONE", "SELECTED"})
             /\ outstanding' \in [Orgs -> SUBSET DOMAIN sharing']
  <2>1. /\ sharing \in Seq({"NONE", "SELECTED"}) /\ sharing' = Append(sharing, mode)
        /\ outstanding \in [Orgs -> SUBSET DOMAIN sharing]
    BY <1>1, <1>5 DEF ProvisioningTypeOK, ShareWithAll
  <2>2. /\ sharing' \in Seq({"NONE", "SELECTED"}) /\ Len(sharing') = Len(sharing) + 1
        /\ DOMAIN sharing' = 1..(Len(sharing) + 1) /\ DOMAIN sharing = 1..Len(sharing)
        /\ Len(sharing) \in Nat /\ sharing'[Len(sharing')] = mode
    BY <2>1
  <2>3. /\ outstanding' = [o \in Orgs |-> outstanding[o] \cup {Len(sharing')}]
        /\ UNCHANGED <<orgs, orgRoles>> /\ astray' = {}
    BY <1>5, <2>2 DEF ShareWithAll
  <2>4. outstanding' \in [Orgs -> SUBSET DOMAIN sharing']
    BY <2>1, <2>2, <2>3
  <2>5. SharingKept'
    BY <2>3 DEF SharingKept
  <2>6. sharing' # <<>>
    BY <2>2
  <2>7. QED
    BY <2>2, <2>3, <2>4, <2>5, <2>6
<1>6. WorldOK' /\ SharingKept'
  BY <1>1, <1>4, <1>5, SharingSame DEF ProvisioningInv, WorldOK, ProvisioningTypeOK
<1>7. MembersKept' /\ blind' \in BOOLEAN
  BY <1>1 DEF ProvisioningInv, MembersKept, ProvisioningTypeOK
<1>8. ASSUME NEW k \in DOMAIN ScriptSteps, k = at PROVE Done(k)'
  BY <1>1, <1>2, <1>8 DEF Done
<1>9. c /\ Current.how = "share" =>
         sharing' # <<>> /\ sharing'[Len(sharing')] = "SELECTED"
  BY <1>3, <1>5
<1>10. PICK k \in DOMAIN ScriptSteps : k = at
  BY <1>2
<1>11. QED
  BY <1>1, <1>3, <1>6, <1>7, <1>8, <1>9, <1>10, ScriptMoves

-----------------------------------------------------------------------------
(* The group's step ends, or the script does. *)
LEMMA GroupEnds ==
  ASSUME ProvisioningInv, Running, Current.how = "find", UNCHANGED <<script, SharingVars, runs, added>>,
         res' = res \/ Set("group"), res'["group"] # "absent" \/ members' = {},
         members' \subseteq {User, Other}, blind' \in BOOLEAN, MembersKept',
         NEW c \in BOOLEAN, Advance(c) \/ Stop,
         c => User \in members' /\ res'["group"] # "absent"
  PROVE  ProvisioningInv'
<1> DEFINE at == run.at
<1>1. ProvisioningTypeOK /\ ScriptSteps' = ScriptSteps
  BY DEF ProvisioningInv, ScriptSteps
<1>2. /\ at \in DOMAIN ScriptSteps /\ Current = ScriptSteps[at] /\ Current.item = "group"
      /\ "group" \in AllItems
  BY <1>1, CurrentFacts, StepFacts DEF Current
<1>3. /\ res' \in [AllItems -> {"absent", "old", "new"}]
      /\ \A i \in AllItems : res'[i] = res[i] \/ res'[i] = "new"
  BY <1>1, SetItem
<1>4. WorldOK' /\ SharingKept'
  BY <1>1, <1>3, SharingSame DEF ProvisioningInv, WorldOK, ProvisioningTypeOK
<1>5. ASSUME NEW k \in DOMAIN ScriptSteps, k = at, c PROVE Done(k)'
  BY <1>1, <1>2, <1>5 DEF Done
<1>6. PICK k \in DOMAIN ScriptSteps : k = at
  BY <1>2
<1>7. QED
  BY <1>3, <1>4, <1>5, <1>6, ScriptMoves

(* What holds while the script is at work on the group. *)
LEMMA AtGroup ==
  ASSUME ProvisioningInv, run.phase # "step"
  PROVE  /\ ProvisioningTypeOK /\ Running /\ Current.how = "find" /\ res["group"] # "absent"
         /\ members \subseteq {User, Other} /\ blind \in BOOLEAN /\ run \in RunStates
  BY DEF ProvisioningInv, Progress, ProvisioningTypeOK

(* A further phase of the same step. *)
LEMMA NextPhase ==
  ASSUME ProvisioningTypeOK, NEW phase \in {"read", "patch", "verify", "put", "repatch"},
         NEW carried \in BOOLEAN, GotoPhase(phase, carried)
  PROVE  /\ run' \in RunStates /\ run'.at = run.at /\ run'.phase = phase
         /\ run'.seen = run.seen /\ (run'.clean => run.clean) /\ finished' = finished
<1>1. run' = [at |-> run.at, phase |-> phase, seen |-> run.seen, again |-> run.again,
              clean |-> run.clean /\ carried]
  BY DEF ProvisioningTypeOK, RunStates, GotoPhase
<1>2. (run.clean /\ carried) \in BOOLEAN
  BY DEF ProvisioningTypeOK, RunStates
<1>3. run' \in RunStates
  BY <1>1, <1>2 DEF ProvisioningTypeOK, RunStates
<1>4. QED
  BY <1>1, <1>3 DEF GotoPhase

LEMMA FindGroupStep ==
  ASSUME ProvisioningInv, FindGroup
  PROVE  ProvisioningInv'
<1>1. /\ ProvisioningTypeOK /\ Running /\ Current.how = "find" /\ run.phase = "step"
      /\ UNCHANGED <<script, SharingVars, runs, added, blind>>
      /\ blind \in BOOLEAN /\ members \subseteq {User, Other}
      /\ members # {} => res["group"] # "absent"
  BY DEF ProvisioningInv, ProvisioningTypeOK, FindGroup, AtStep
<1>2. CASE res["group"] # "absent" /\ GotoPhase("read", TRUE) /\ UNCHANGED <<res, members>>
  <2>1. /\ run' \in RunStates /\ run'.at = run.at /\ run'.phase = "read"
        /\ run'.clean => run.clean /\ finished' = finished
        /\ finished' = finished
    BY <1>1, <1>2, NextPhase
  <2>2. SeenMembers' /\ MembersKept'
    BY <1>1, <1>2, <2>1 DEF ProvisioningInv, SeenMembers, MembersKept
  <2>3. QED
    BY <1>1, <1>2, <2>1, <2>2, GroupMoves
<1>3. CASE res["group"] = "absent" /\ Set("group") /\ members' = {User} /\ (Advance(TRUE) \/ Stop)
  <2>1. res'["group"] = "new"
    BY <1>1, <1>3, StepFacts, SetItem
  <2>2. MembersKept'
    BY <1>1, <1>3 DEF ProvisioningInv, SeenMembers, MembersKept
  <2>3. TRUE \in BOOLEAN /\ blind' \in BOOLEAN /\ User \in members'
    BY <1>1, <1>3
  <2>4. QED
    BY <1>1, <1>3, <2>1, <2>2, <2>3, GroupEnds
<1>4. CASE (Advance(FALSE) \/ Stop) /\ UNCHANGED <<res, members>>
  <2>1. MembersKept'
    BY <1>1, <1>4 DEF ProvisioningInv, MembersKept
  <2>2. FALSE \in BOOLEAN /\ blind' \in BOOLEAN
    BY <1>1
  <2>3. QED
    BY <1>1, <1>4, <2>1, <2>2, GroupEnds
<1>5. QED
  BY <1>2, <1>3, <1>4 DEF FindGroup

(* What the members were read to be is what may be written back later: a   *)
(* reading that failed is remembered as blind.                             *)
LEMMA ReadMembersStep ==
  ASSUME ProvisioningInv, ReadMembers
  PROVE  ProvisioningInv'
<1>1. /\ ProvisioningTypeOK /\ Running /\ Current.how = "find" /\ res["group"] # "absent"
      /\ members \subseteq {User, Other} /\ blind \in BOOLEAN /\ run \in RunStates
      /\ UNCHANGED <<script, res, SharingVars, runs, added, members>>
  <2>1. run.phase # "step"
    BY DEF ReadMembers, Phase
  <2>2. QED
    BY <2>1, AtGroup DEF ReadMembers
<1>2. MembersKept /\ MembersKept'
  <2>1. blind' = blind \/ blind' = TRUE
    BY DEF ReadMembers
  <2>2. QED
    BY <1>1, <2>1 DEF ProvisioningInv, MembersKept
<1>3. CASE User \in members /\ Advance(TRUE) /\ blind' = blind
  <2>1. /\ User \in members' /\ res'["group"] # "absent" /\ members' \subseteq {User, Other}
        /\ blind' \in BOOLEAN /\ TRUE \in BOOLEAN
    BY <1>1, <1>3
  <2>2. QED
    BY <1>1, <1>2, <1>3, <2>1, GroupEnds
<1>4. CASE /\ run' = [run EXCEPT !.phase = "patch", !.seen = members]
           /\ finished' = finished /\ blind' = blind
  <2>1. /\ run' \in RunStates /\ run'.at = run.at /\ run'.phase = "patch"
        /\ run'.seen = members /\ run'.clean = run.clean
    BY <1>1, <1>4 DEF RunStates
  <2>2. SeenMembers'
    BY <1>1, <1>2, <1>4, <2>1 DEF ProvisioningInv, SeenMembers, MembersKept
  <2>3. QED
    BY <1>1, <1>2, <1>4, <2>1, <2>2, GroupMoves
<1>5. CASE GotoPhase("patch", FALSE) /\ blind' = TRUE
  <2>1. /\ run' \in RunStates /\ run'.at = run.at /\ run'.phase = "patch"
        /\ run'.clean => run.clean
        /\ finished' = finished
    <3>1. "patch" \in {"read", "patch", "verify", "put", "repatch"} /\ FALSE \in BOOLEAN
      OBVIOUS
    <3>2. QED
      BY <1>1, <1>5, <3>1, NextPhase
  <2>2. SeenMembers'
    BY <1>1, <1>5 DEF ProvisioningInv, SeenMembers
  <2>3. QED
    BY <1>1, <1>2, <1>5, <2>1, <2>2, GroupMoves
<1>6. CASE Stop /\ blind' = blind
  BY <1>1, <1>2, <1>6, GroupEnds
<1>7. QED
  BY <1>3, <1>4, <1>5, <1>6 DEF ReadMembers

LEMMA PatchMemberStep ==
  ASSUME ProvisioningInv, PatchMember
  PROVE  ProvisioningInv'
<1>1. /\ ProvisioningTypeOK /\ Running /\ Current.how = "find" /\ res["group"] # "absent"
      /\ members \subseteq {User, Other} /\ blind \in BOOLEAN /\ run \in RunStates
      /\ run.phase = "patch"
      /\ UNCHANGED <<script, res, SharingVars, runs, added, blind>>
  <2>1. run.phase # "step" /\ run.phase = "patch"
    BY DEF PatchMember, Phase
  <2>2. QED
    BY <2>1, AtGroup DEF PatchMember
<1>2. members' = members \/ members' = members \cup {User}
  BY DEF PatchMember
<1>3. MembersKept' /\ members' \subseteq {User, Other} /\ blind' \in BOOLEAN
  BY <1>1, <1>2 DEF ProvisioningInv, MembersKept
<1>4. CASE GotoPhase("verify", TRUE)
  <2>1. /\ run' \in RunStates /\ run'.at = run.at /\ run'.phase = "verify"
        /\ run'.seen = run.seen
        /\ run'.clean => run.clean
        /\ finished' = finished
    <3>1. "verify" \in {"read", "patch", "verify", "put", "repatch"} /\ TRUE \in BOOLEAN
      OBVIOUS
    <3>2. QED
      BY <1>1, <1>4, <3>1, NextPhase
  <2>2. SeenMembers'
    BY <1>1, <2>1 DEF ProvisioningInv, SeenMembers
  <2>3. QED
    BY <1>1, <1>3, <2>1, <2>2, GroupMoves
<1>5. CASE /\ run' = [run EXCEPT !.phase = "put", !.again = TRUE, !.clean = FALSE]
           /\ finished' = finished
  <2>1. /\ run' \in RunStates /\ run'.at = run.at /\ run'.phase = "put"
        /\ run'.seen = run.seen /\ run'.clean = FALSE
    BY <1>1, <1>5 DEF RunStates
  <2>2. SeenMembers'
    BY <1>1, <2>1 DEF ProvisioningInv, SeenMembers
  <2>3. QED
    BY <1>1, <1>3, <1>5, <2>1, <2>2, GroupMoves
<1>6. CASE Stop
  <2>1. FALSE \in BOOLEAN /\ res' = res /\ res'["group"] # "absent"
    BY <1>1
  <2>2. QED
    BY <1>1, <1>3, <1>6, <2>1, GroupEnds
<1>7. QED
  BY <1>4, <1>5, <1>6 DEF PatchMember

LEMMA VerifyMemberStep ==
  ASSUME ProvisioningInv, VerifyMember
  PROVE  ProvisioningInv'
<1>1. /\ ProvisioningTypeOK /\ Running /\ Current.how = "find" /\ res["group"] # "absent"
      /\ members \subseteq {User, Other} /\ blind \in BOOLEAN /\ run \in RunStates
      /\ run.phase = "verify"
      /\ UNCHANGED <<script, res, SharingVars, runs, added, blind, members>>
  <2>1. run.phase # "step" /\ run.phase = "verify"
    BY DEF VerifyMember, Phase
  <2>2. QED
    BY <2>1, AtGroup DEF VerifyMember, GroupVars
<1>2. MembersKept' /\ members' \subseteq {User, Other} /\ blind' \in BOOLEAN
  BY <1>1 DEF ProvisioningInv, MembersKept
<1>3. CASE GotoPhase("put", FALSE)
  <2>1. /\ run' \in RunStates /\ run'.at = run.at /\ run'.phase = "put"
        /\ run'.seen = run.seen
        /\ run'.clean => run.clean
        /\ finished' = finished
    <3>1. "put" \in {"read", "patch", "verify", "put", "repatch"} /\ FALSE \in BOOLEAN
      OBVIOUS
    <3>2. QED
      BY <1>1, <1>3, <3>1, NextPhase
  <2>2. SeenMembers'
    BY <1>1, <2>1 DEF ProvisioningInv, SeenMembers
  <2>3. QED
    BY <1>1, <1>2, <2>1, <2>2, GroupMoves
<1>4. CASE (User \in members /\ Advance(TRUE)) \/ Stop
  <2>1. \E c \in BOOLEAN : (Advance(c) \/ Stop) /\ (c => User \in members')
    BY <1>1, <1>4
  <2>2. res' = res /\ res'["group"] # "absent"
    BY <1>1
  <2>3. QED
    BY <1>1, <1>2, <2>1, <2>2, GroupEnds
<1>5. QED
  BY <1>3, <1>4 DEF VerifyMember

(* The replacement writes what was read and the new member: whoever is     *)
(* missing from it joined after the reading, or it failed.                 *)
LEMMA PutMembersStep ==
  ASSUME ProvisioningInv, PutMembers
  PROVE  ProvisioningInv'
<1>1. /\ ProvisioningTypeOK /\ Running /\ Current.how = "find" /\ res["group"] # "absent"
      /\ members \subseteq {User, Other} /\ blind \in BOOLEAN /\ run \in RunStates
      /\ run.phase = "put"
      /\ UNCHANGED <<script, res, SharingVars, runs, added, blind>>
  <2>1. run.phase # "step" /\ run.phase = "put"
    BY DEF PutMembers, Phase
  <2>2. QED
    BY <2>1, AtGroup DEF PutMembers
<1>2. members' \in {FallbackMembers, members} /\ FallbackMembers = run.seen \cup {User}
  BY DEF PutMembers, FallbackMembers
<1>3. members' \subseteq {User, Other} /\ blind' \in BOOLEAN
  BY <1>1, <1>2 DEF RunStates
<1>4. MembersKept'
  BY <1>1, <1>2 DEF ProvisioningInv, MembersKept, SeenMembers
<1>5. CASE GotoPhase("repatch", TRUE)
  <2>1. /\ run' \in RunStates /\ run'.at = run.at /\ run'.phase = "repatch"
        /\ run'.clean => run.clean
        /\ finished' = finished
    <3>1. "repatch" \in {"read", "patch", "verify", "put", "repatch"} /\ TRUE \in BOOLEAN
      OBVIOUS
    <3>2. QED
      BY <1>1, <1>5, <3>1, NextPhase
  <2>2. SeenMembers'
    BY <1>1, <2>1 DEF ProvisioningInv, SeenMembers
  <2>3. QED
    BY <1>1, <1>3, <1>4, <2>1, <2>2, GroupMoves
<1>6. CASE Advance(members' = FallbackMembers) \/ Stop
  <2> DEFINE c == (members' = FallbackMembers)
  <2>1. c \in BOOLEAN /\ (c => User \in members')
    BY <1>2
  <2>2. res' = res /\ res'["group"] # "absent"
    BY <1>1
  <2>3. Advance(c) \/ Stop
    BY <1>6
  <2> HIDE DEF c
  <2>4. QED
    BY <1>1, <1>3, <1>4, <2>1, <2>2, <2>3, GroupEnds
<1>7. QED
  BY <1>5, <1>6 DEF PutMembers

LEMMA PatchAgainStep ==
  ASSUME ProvisioningInv, PatchAgain
  PROVE  ProvisioningInv'
<1>1. /\ ProvisioningTypeOK /\ Running /\ Current.how = "find" /\ res["group"] # "absent"
      /\ members \subseteq {User, Other} /\ blind \in BOOLEAN
      /\ UNCHANGED <<script, res, SharingVars, runs, added, blind>>
  <2>1. run.phase # "step"
    BY DEF PatchAgain, Phase
  <2>2. QED
    BY <2>1, AtGroup DEF PatchAgain
<1>2. members' = members \/ members' = members \cup {User}
  BY DEF PatchAgain
<1>3. MembersKept' /\ members' \subseteq {User, Other} /\ blind' \in BOOLEAN
  BY <1>1, <1>2 DEF ProvisioningInv, MembersKept
<1>4. /\ FALSE \in BOOLEAN /\ (Advance(FALSE) \/ Stop)
      /\ res' = res /\ res'["group"] # "absent"
  BY <1>1 DEF PatchAgain
<1>5. QED
  BY <1>1, <1>3, <1>4, GroupEnds

-----------------------------------------------------------------------------
(* What happens besides the script's steps. *)

LEMMA StartStep ==
  ASSUME ProvisioningInv, Start
  PROVE  ProvisioningInv'
<1>1. /\ ProvisioningTypeOK /\ ScriptSteps' = ScriptSteps /\ RunStates' = RunStates /\ ~Running
      /\ UNCHANGED <<script, res, SharingVars, members, added, blind>>
      /\ run' = [NoRun EXCEPT !.at = 1, !.clean = TRUE] /\ runs' = runs + 1
      /\ finished' = FALSE /\ runs < MaxRuns
  BY DEF ProvisioningInv, Start, ScriptSteps, RunStates, GroupVars
<1>2. run' = [at |-> 1, phase |-> "step", seen |-> {}, again |-> FALSE, clean |-> TRUE]
  BY <1>1 DEF NoRun
<1>3. 1 \in 0..Len(ScriptSteps)
  <2>1. Len(SetupIs) = 11 /\ Len(SetupIdpServer) = 8
    BY DEF SetupIs, SetupIdpServer
  <2>2. QED
    BY <2>1 DEF ScriptSteps
<1>4. /\ run' \in RunStates /\ run'.at = 1 /\ run'.phase = "step" /\ run'.seen = {}
      /\ run'.clean = TRUE
  BY <1>2, <1>3 DEF RunStates
<1>5. /\ UNCHANGED <<script, res, SharingVars, members, added, blind>>
      /\ finished' = FALSE /\ ScriptSteps' = ScriptSteps /\ RunStates' = RunStates /\ ProvisioningTypeOK
  BY <1>1
<1>6. runs' \in 0..MaxRuns
  BY <1>1, RunsAssumption DEF ProvisioningTypeOK
<1>7. ProvisioningTypeOK' /\ SharingKept' /\ EndedShared'
  BY <1>4, <1>5, <1>6, SharingSame DEF ProvisioningInv, ProvisioningTypeOK, EndedShared
<1>8. Progress'
  <2>1. \A k \in DOMAIN ScriptSteps : ~(k < 1)
    BY <1>5, StepFacts
  <2>2. QED
    BY <1>4, <1>5, <2>1 DEF Progress
<1>9. SeenMembers'
  BY <1>4, <1>5 DEF ProvisioningInv, SeenMembers
<1>10. QED
  BY <1>5, <1>7, <1>8, <1>9 DEF ProvisioningInv, CompleteRunProvisions, MembersKept

LEMMA ReconfigureStep ==
  ASSUME ProvisioningInv, Reconfigure
  PROVE  ProvisioningInv'
<1>1. /\ ProvisioningTypeOK /\ ScriptSteps' = ScriptSteps /\ RunStates' = RunStates /\ ~Running
      /\ UNCHANGED <<script, SharingVars, members, added, blind, run, runs>>
      /\ finished' = FALSE
  BY DEF ProvisioningInv, Reconfigure, ScriptSteps, RunStates, GroupVars
<1>2. /\ res' \in [AllItems -> {"absent", "old", "new"}]
      /\ \A i \in AllItems : res'[i] # "absent" <=> res[i] # "absent"
  BY <1>1 DEF ProvisioningTypeOK, Reconfigure
<1>3. ProvisioningTypeOK' /\ SeenMembers' /\ SharingKept' /\ EndedShared'
  BY <1>1, <1>2, StepFacts, SharingSame DEF ProvisioningInv, ProvisioningTypeOK, SeenMembers, EndedShared
<1>4. Progress'
  BY <1>1, <1>2, StepFacts DEF ProvisioningInv, Progress, Running, ProvisioningTypeOK, RunStates
<1>5. QED
  BY <1>1, <1>3, <1>4 DEF ProvisioningInv, CompleteRunProvisions, MembersKept

(* Nothing of the script's own changes, only what is shared with whom. *)
LEMMA WorldMoves ==
  ASSUME ProvisioningInv, UNCHANGED <<script, res, sharing, members, added, blind, run, runs, finished>>,
         orgs' \subseteq Orgs, orgRoles' \in [Orgs -> SUBSET {"base", "plan"}],
         outstanding' \in [Orgs -> SUBSET DOMAIN sharing], astray' \subseteq Orgs, SharingKept'
  PROVE  ProvisioningInv'
<1>1. /\ ProvisioningTypeOK' /\ EndedShared' /\ ScriptSteps' = ScriptSteps
      /\ \A k : Done(k)' <=> Done(k)
  BY DEF ProvisioningInv, ProvisioningTypeOK, EndedShared, ScriptSteps, RunStates, Done
<1>2. Progress' /\ SeenMembers' /\ CompleteRunProvisions' /\ MembersKept'
  BY <1>1 DEF ProvisioningInv, Progress, Running, Current, SeenMembers, CompleteRunProvisions, MembersKept
<1>3. QED
  BY <1>1, <1>2 DEF ProvisioningInv

(* Organizations come and change: what is shared with them stays. *)
LEMMA OrgSteps ==
  ASSUME ProvisioningInv, NEW o \in Orgs, SignUp(o) \/ UpgradePlan(o)
  PROVE  ProvisioningInv'
<1>1. /\ ProvisioningTypeOK /\ SharingKept
      /\ UNCHANGED <<script, res, sharing, outstanding, astray, members, added, blind, run, runs, finished>>
  BY DEF ProvisioningInv, SignUp, UpgradePlan, GroupVars
<1>2. /\ orgs' \subseteq Orgs /\ orgRoles' \in [Orgs -> SUBSET {"base", "plan"}]
      /\ \A p \in Orgs : orgRoles[p] \subseteq orgRoles'[p]
  <2>1. CASE SignUp(o)
    BY <1>1, <2>1 DEF SignUp, ProvisioningTypeOK
  <2>2. CASE UpgradePlan(o)
    BY <1>1, <2>2 DEF UpgradePlan, ProvisioningTypeOK
  <2>3. QED
    BY <2>1, <2>2
<1>3. SharingKept'
  BY <1>1, <1>2 DEF SharingKept
<1>4. outstanding' \in [Orgs -> SUBSET DOMAIN sharing] /\ astray' \subseteq Orgs
  BY <1>1 DEF ProvisioningTypeOK
<1>5. QED
  BY <1>1, <1>2, <1>3, <1>4, WorldMoves

(* A sharing reaches an organization, or fails there: when it was the last *)
(* one accepted, nothing is left to come.                                  *)
LEMMA CarryOutStep ==
  ASSUME ProvisioningInv, NEW o \in Orgs, NEW n \in outstanding[o], CarryOut(o, n)
  PROVE  ProvisioningInv'
<1>1. /\ ProvisioningTypeOK /\ SharingKept
      /\ UNCHANGED <<script, res, orgs, sharing, members, added, blind, run, runs, finished>>
      /\ outstanding' = [outstanding EXCEPT ![o] = @ \ {n}]
  BY DEF ProvisioningInv, CarryOut, GroupVars
<1>2. PICK carried \in BOOLEAN :
         /\ orgRoles' = IF carried THEN [orgRoles EXCEPT ![o] = SharedRoles(sharing[n])] ELSE orgRoles
         /\ astray' = IF n = Len(sharing) /\ ~(carried /\ outstanding[o] = {n})
                      THEN astray \cup {o} ELSE astray
  BY DEF CarryOut
<1>3. orgs' \subseteq Orgs /\ outstanding' \in [Orgs -> SUBSET DOMAIN sharing] /\ astray' \subseteq Orgs
  BY <1>1, <1>2 DEF ProvisioningTypeOK
<1>4. orgRoles' \in [Orgs -> SUBSET {"base", "plan"}]
  BY <1>1, <1>2 DEF ProvisioningTypeOK, SharedRoles
<1>5. ASSUME NEW p \in Orgs, p \notin astray', Len(sharing) \notin outstanding'[p]
      PROVE  /\ outstanding'[p] = {}
             /\ sharing # <<>> /\ sharing[Len(sharing)] = "SELECTED" => "base" \in orgRoles'[p]
  <2>1. p \notin astray
    BY <1>2, <1>5
  <2>2. CASE p # o
    <3>1. outstanding'[p] = outstanding[p] /\ orgRoles'[p] = orgRoles[p]
      BY <1>1, <1>2, <2>2 DEF ProvisioningTypeOK
    <3>2. QED
      BY <1>1, <1>5, <2>1, <3>1 DEF SharingKept
  <2>3. CASE p = o
    <3>1. outstanding'[o] = outstanding[o] \ {n}
      BY <1>1 DEF ProvisioningTypeOK
    <3>2. n = Len(sharing)
      BY <1>1, <1>5, <2>1, <2>3, <3>1 DEF SharingKept
    <3>3. carried /\ outstanding[o] = {n}
      BY <1>2, <1>5, <2>3, <3>2
    <3>4. orgRoles'[o] = SharedRoles(sharing[n])
      BY <1>1, <1>2, <3>3 DEF ProvisioningTypeOK
    <3>5. QED
      BY <2>3, <3>1, <3>2, <3>3, <3>4 DEF SharedRoles
  <2>4. QED
    BY <2>2, <2>3
<1>6. SharingKept'
  BY <1>1, <1>5 DEF SharingKept
<1>7. QED
  BY <1>1, <1>3, <1>4, <1>6, WorldMoves

(* The console adds a member or takes the user away. *)
LEMMA MemberSteps ==
  ASSUME ProvisioningInv, JoinGroup \/ LeaveGroup
  PROVE  ProvisioningInv'
<1>1. /\ ProvisioningTypeOK /\ ScriptSteps' = ScriptSteps /\ RunStates' = RunStates
      /\ UNCHANGED <<script, res, SharingVars, run, runs>>
  BY DEF ProvisioningInv, JoinGroup, LeaveGroup, ScriptSteps, RunStates
<1>2. ASSUME NEW k \in DOMAIN ScriptSteps, Done(k), ScriptSteps[k].how # "find" \/ JoinGroup PROVE Done(k)'
  BY <1>1, <1>2 DEF Done, JoinGroup
<1>3. /\ members' \subseteq {User, Other} /\ (members' # {} => res["group"] # "absent")
      /\ finished' \in BOOLEAN /\ added' \in BOOLEAN /\ blind' \in BOOLEAN
      /\ finished' => finished /\ JoinGroup
  <2>1. finished \in BOOLEAN /\ added \in BOOLEAN /\ blind \in BOOLEAN
    BY <1>1 DEF ProvisioningTypeOK
  <2>2. CASE JoinGroup
    <3>1. blind' = TRUE \/ blind' = blind
      BY <2>1, <2>2 DEF JoinGroup
    <3>2. QED
      BY <1>1, <2>1, <2>2, <3>1 DEF ProvisioningTypeOK, JoinGroup
  <2>3. CASE LeaveGroup
    BY <1>1, <2>1, <2>3 DEF ProvisioningTypeOK, LeaveGroup
  <2>4. QED
    BY <2>2, <2>3
<1>4. ProvisioningTypeOK' /\ SharingKept'
  BY <1>1, <1>3, SharingSame DEF ProvisioningInv, ProvisioningTypeOK
<1>5. Progress'
  <2>1. ASSUME NEW k \in DOMAIN ScriptSteps, k < run.at, run.clean PROVE Done(k)'
    <3>1. Done(k) /\ Running
      BY <1>1, <2>1, StepFacts DEF ProvisioningInv, Progress, Running, ProvisioningTypeOK, RunStates
    <3>2. k # Len(ScriptSteps)
      BY <1>1, <2>1, <3>1, CurrentFacts, StepFacts
    <3>3. ScriptSteps[k].how # "find"
      BY <1>1, <3>2, StepFacts
    <3>4. QED
      BY <1>2, <3>1, <3>3
  <2>2. QED
    BY <1>1, <1>3, <2>1 DEF ProvisioningInv, Progress, Running, Current
<1>6. SeenMembers' /\ MembersKept'
  <2>1. CASE JoinGroup
    <3>1. /\ Other \in members' /\ res["group"] # "absent"
          /\ blind \/ run.phase \in {"patch", "verify", "put"} => blind'
      BY <2>1 DEF JoinGroup
    <3>2. QED
      BY <1>1, <3>1 DEF SeenMembers, MembersKept
  <2>2. CASE LeaveGroup
    <3>1. members' = members \ {User} /\ added' = added /\ blind' = blind
      BY <2>2 DEF LeaveGroup
    <3>2. QED
      BY <1>1, <3>1, UsersAssumption DEF ProvisioningInv, SeenMembers, MembersKept
  <2>3. QED
    BY <2>1, <2>2
<1>7. CompleteRunProvisions' /\ EndedShared'
  BY <1>1, <1>2, <1>3, SharingSame DEF ProvisioningInv, CompleteRunProvisions, EndedShared
<1>8. QED
  BY <1>4, <1>5, <1>6, <1>7 DEF ProvisioningInv

-----------------------------------------------------------------------------
LEMMA ProvisioningInitInv == ProvisioningInit => ProvisioningInv
<1> SUFFICES ASSUME ProvisioningInit PROVE ProvisioningInv
  OBVIOUS
<1>1. Len(ScriptSteps) \in Nat
  BY SetupIsSteps, SetupIdpServerSteps DEF ScriptSteps
<1>2. NoRun \in RunStates
  BY <1>1 DEF NoRun, RunStates
<1>3. ProvisioningTypeOK
  <2>1. /\ orgRoles \in [Orgs -> SUBSET {"base", "plan"}]
        /\ outstanding \in [Orgs -> SUBSET DOMAIN sharing] /\ sharing \in Seq({"NONE", "SELECTED"})
    BY DEF ProvisioningInit
  <2>2. res \in [AllItems -> {"absent", "old", "new"}]
    BY DEF ProvisioningInit
  <2>3. run \in RunStates /\ runs \in 0..MaxRuns
    BY <1>2, RunsAssumption DEF ProvisioningInit
  <2>4. QED
    BY <2>1, <2>2, <2>3 DEF ProvisioningInit, ProvisioningTypeOK
<1>4. Progress /\ SeenMembers /\ SharingKept /\ EndedShared
  BY DEF ProvisioningInit, Progress, SeenMembers, SharingKept, EndedShared, Running, NoRun
<1>5. QED
  BY <1>3, <1>4 DEF ProvisioningInv, ProvisioningInit, CompleteRunProvisions, MembersKept

LEMMA ProvisioningStepInv == ProvisioningInv /\ [ProvisioningNext]_provisioningVars => ProvisioningInv'
<1> SUFFICES ASSUME ProvisioningInv, [ProvisioningNext]_provisioningVars PROVE ProvisioningInv'
  OBVIOUS
<1>1. CASE UNCHANGED provisioningVars
  <2>1. ScriptSteps' = ScriptSteps /\ RunStates' = RunStates /\ \A k : Done(k)' <=> Done(k)
    BY <1>1 DEF provisioningVars, ScriptSteps, RunStates, Done
  <2>2. UNCHANGED <<script, res, orgs, orgRoles, sharing, outstanding, astray, members, run, runs, finished, added, blind>>
    BY <1>1 DEF provisioningVars
  <2>3. QED
    BY <2>1, <2>2 DEF ProvisioningInv, ProvisioningTypeOK, Progress, Running, Current, SeenMembers,
                      SharingKept, EndedShared, CompleteRunProvisions, MembersKept
<1>2. QED
  BY <1>1, StartStep, ReconfigureStep, ResourceSteps, ShareSteps, OrgSteps, CarryOutStep, FindGroupStep,
     ReadMembersStep, PatchMemberStep, VerifyMemberStep, PutMembersStep, PatchAgainStep,
     MemberSteps DEF ProvisioningNext

THEOREM ProvisioningInvariance == ProvisioningSpec => []ProvisioningInv
  BY ProvisioningInitInv, ProvisioningStepInv, PTL DEF ProvisioningSpec

(* Every variable keeps its type. *)
THEOREM TypeCorrect == ProvisioningSpec => []ProvisioningTypeOK
<1>1. ProvisioningInv => ProvisioningTypeOK
  BY DEF ProvisioningInv
<1>2. QED
  BY <1>1, ProvisioningInvariance, PTL

(* However many runs died or failed before, and wherever: a run that says  *)
(* it is complete and whose calls were carried out leaves everything there *)
(* as configured.                                                          *)
THEOREM CompleteRunAlwaysProvisions == ProvisioningSpec => []CompleteRunProvisions
<1>1. ProvisioningInv => CompleteRunProvisions
  BY DEF ProvisioningInv
<1>2. QED
  BY <1>1, ProvisioningInvariance, PTL

(* However many organizations there are and whenever they signed up, and   *)
(* in whatever order WSO2 IS carries the sharings of any number of runs    *)
(* out: after such a run an organization without the base roles gets them, *)
(* or the last sharing failed there or was carried out before an earlier   *)
(* one.                                                                    *)
THEOREM BaseRolesAlwaysReturn == ProvisioningSpec => []BaseRolesReturn
<1>1. ProvisioningInv => BaseRolesReturn
  <2> SUFFICES ASSUME ProvisioningInv, finished, script = "setup_is", NEW o \in orgs, o \notin astray
               PROVE  "base" \in orgRoles[o] \/ \E n \in outstanding[o] : sharing[n] = "SELECTED"
    BY DEF BaseRolesReturn
  <2>1. o \in Orgs /\ sharing # <<>> /\ sharing[Len(sharing)] = "SELECTED" /\ SharingKept
    BY DEF ProvisioningInv, ProvisioningTypeOK, EndedShared
  <2>2. CASE Len(sharing) \in outstanding[o]
    BY <2>1, <2>2
  <2>3. CASE Len(sharing) \notin outstanding[o]
    BY <2>1, <2>3 DEF SharingKept
  <2>4. QED
    BY <2>2, <2>3
<1>2. QED
  BY <1>1, ProvisioningInvariance, PTL

(* Over any number of runs, a member is lost only to a reading of the      *)
(* group that failed or was overtaken.                                     *)
THEOREM MembersAlwaysKept == ProvisioningSpec => []MembersKept
<1>1. ProvisioningInv => MembersKept
  BY DEF ProvisioningInv
<1>2. QED
  BY <1>1, ProvisioningInvariance, PTL

-----------------------------------------------------------------------------
(***************************************************************************)
(* Plans and subscriptions of the organizations that sign up to what the   *)
(* scripts provisioned, for any number of sessions, any choice of plans    *)
(* and any number of polls.                                                *)
(***************************************************************************)

(* Which roles the tables hand out. *)
LEMMA BaseRolesRange ==
  /\ BaseRoles \in Seq(Roles)
  /\ Range(BaseRoles) \subseteq Roles
  /\ "idp-manager" \notin Range(BaseRoles) /\ "teamspace-admin" \in Range(BaseRoles)
BY DEF BaseRoles, Range, Roles

LEMMA PlanRolesRange ==
  ASSUME NEW p \in {"basic", "business", "enterprise"}
  PROVE  /\ PlanRoles[p] \in Seq(Roles)
         /\ Range(PlanRoles[p]) \subseteq Roles
         /\ "idp-manager" \in Range(PlanRoles[p]) => p = "enterprise"
<1>1. CASE p = "basic"
  <2>1. PlanRoles[p] = <<>>
    BY <1>1 DEF PlanRoles
  <2>2. QED
    BY <2>1 DEF Range
<1>2. CASE p = "business"
  <2>1. PlanRoles[p] = <<"basic-branding-editor">>
    BY <1>2 DEF PlanRoles
  <2>2. "basic-branding-editor" \in Roles
    BY DEF Roles, Range, PlanRoles
  <2>3. QED
    BY <2>1, <2>2 DEF Range
<1>3. CASE p = "enterprise"
  <2>1. PlanRoles[p] = <<"basic-branding-editor", "advanced-branding-editor", "idp-manager">>
    BY <1>3 DEF PlanRoles
  <2>2. Range(PlanRoles[p]) \subseteq Roles
    BY <1>3 DEF Roles
  <2>3. QED
    BY <1>3, <2>1, <2>2 DEF Range
<1>4. QED
  BY <1>1, <1>2, <1>3

LEMMA RequiredRoles == Range(RequiredRole) \subseteq Roles
BY DEF RequiredRole, Range, Roles, BaseRoles, PlanRoles

(* What is left to assign shrinks from its head, and base roles come first. *)
LEMMA RangeOfTail ==
  ASSUME NEW todo \in Seq(Roles), todo # <<>>
  PROVE  /\ Tail(todo) \in Seq(Roles) /\ Head(todo) \in Roles
         /\ Range(todo) \subseteq {Head(todo)} \cup Range(Tail(todo))
<1>1. Tail(todo) \in Seq(Roles) /\ Head(todo) \in Roles /\ Len(Tail(todo)) = Len(todo) - 1
  OBVIOUS
<1>2. ASSUME NEW i \in DOMAIN todo PROVE todo[i] \in {Head(todo)} \cup Range(Tail(todo))
  <2>1. CASE i = 1
    BY <2>1
  <2>2. CASE i # 1
    <3>1. i - 1 \in DOMAIN Tail(todo) /\ Tail(todo)[i - 1] = todo[i]
      BY <1>2, <2>2
    <3>2. QED
      BY <3>1 DEF Range
  <2>3. QED
    BY <2>1, <2>2
<1>3. QED
  BY <1>1, <1>2 DEF Range

LEMMA RangeOfBoth ==
  ASSUME NEW a \in Seq(Roles), NEW b \in Seq(Roles)
  PROVE  Range(a) \cup Range(b) \subseteq Range(a \o b)
<1>1. DOMAIN (a \o b) = 1..(Len(a) + Len(b)) /\ DOMAIN a = 1..Len(a) /\ DOMAIN b = 1..Len(b)
  OBVIOUS
<1>2. ASSUME NEW i \in DOMAIN a PROVE a[i] \in Range(a \o b)
  <2>1. i \in DOMAIN (a \o b) /\ (a \o b)[i] = a[i]
    BY <1>1, <1>2
  <2>2. QED
    BY <2>1 DEF Range
<1>3. ASSUME NEW i \in DOMAIN b PROVE b[i] \in Range(a \o b)
  <2>1. Len(a) + i \in DOMAIN (a \o b) /\ (a \o b)[Len(a) + i] = b[i]
    BY <1>1, <1>3
  <2>2. QED
    BY <2>1 DEF Range
<1>4. QED
  BY <1>2, <1>3 DEF Range

LEMMA NoOpType == NoOp \in Operation
BY PollsAssumption DEF NoOp, Operation, Steps

(* A step of session s leaves the other requests and sessions alone and    *)
(* takes nothing away from what they know.                                 *)
LEMMA Others ==
  ASSUME Inv, NEW s \in Sessions,
         org => org', member => member', selected \subseteq selected',
         visible \subseteq visible', held \subseteq held',
         held \cup missed \subseteq held' \cup missed', groups \subseteq groups',
         \A z \in Sessions \ {s} : op'[z] = op[z] /\ sess'[z] = sess[z],
         OperationOK(s)', SessionOK(s)'
  PROVE  \A z \in Sessions : OperationOK(z)' /\ SessionOK(z)'
<1>1. ASSUME NEW z \in Sessions, z # s
      PROVE  OperationOK(z)' /\ SessionOK(z)'
  BY <1>1 DEF Inv, OperationOK, SessionOK
<1>2. QED
  BY <1>1

(* What was settled for a plan stays so. *)
LEMMA SettledKept ==
  ASSUME org => org', member => member', groups \subseteq groups',
         held \cup missed \subseteq held' \cup missed', NEW p, Settled(p)
  PROVE  Settled(p)'
BY DEF Settled

(* A step that saves no plan and lets no request through. *)
LEMMA Unsaved ==
  ASSUME Inv, NEW s \in Sessions, org => org', member => member', selected \subseteq selected',
         groups \subseteq groups', held \cup missed \subseteq held' \cup missed',
         plan' = plan, late' = late, op'[s].pc # "allowed",
         \A z \in Sessions \ {s} : op'[z] = op[z]
  PROVE  IdpAccessWasSelected' /\ PlanRolesSettled' /\ LateSettled'
<1>1. \A p : Settled(p) => Settled(p)'
  BY SettledKept
<1>2. PlanRolesSettled' /\ LateSettled'
  BY <1>1 DEF Inv, PlanRolesSettled, LateSettled
<1>3. IdpAccessWasSelected'
  BY DEF Inv, IdpAccessWasSelected, At
<1>4. QED
  BY <1>2, <1>3

(* What the three ways of moving a request on do to it. *)
LEMMA Redirected ==
  ASSUME TypeOK, NEW s \in Sessions, Redirect(s)
  PROVE  /\ op' \in [Sessions -> Operation]
         /\ op'[s].pc = "idle" /\ op'[s].kind = "none"
         /\ \A z \in Sessions \ {s} : op'[z] = op[z]
BY NoOpType DEF TypeOK, Redirect, NoOp

LEMMA Moved ==
  ASSUME TypeOK, NEW s \in Sessions, NEW pc \in Steps, Goto(s, pc)
  PROVE  /\ op' \in [Sessions -> Operation]
         /\ op'[s].pc = pc /\ op'[s].kind = op[s].kind /\ op'[s].plan = op[s].plan
         /\ op'[s].todo = op[s].todo
         /\ \A z \in Sessions \ {s} : op'[z] = op[z]
BY DEF TypeOK, Goto, Operation

LEMMA StartsPolling ==
  ASSUME TypeOK, NEW s \in Sessions, NEW todo \in Seq(Roles),
         op' = [op EXCEPT ![s].pc = "poll", ![s].todo = todo]
  PROVE  /\ op' \in [Sessions -> Operation]
         /\ op'[s].pc = "poll" /\ op'[s].kind = op[s].kind /\ op'[s].plan = op[s].plan
         /\ op'[s].todo = todo
         /\ \A z \in Sessions \ {s} : op'[z] = op[z]
<1> DEFINE q == [op[s] EXCEPT !.pc = "poll", !.todo = todo]
<1>1. q \in Operation /\ q.todo = todo /\ q.pc = "poll" /\ q.kind = op[s].kind /\ q.plan = op[s].plan
  BY DEF TypeOK, Operation, Steps
<1>2. op' = [op EXCEPT ![s] = q]
  BY DEF TypeOK, Operation
<1>3. QED
  BY <1>1, <1>2 DEF TypeOK

LEMMA PollsOn ==
  ASSUME TypeOK, NEW s \in Sessions, op[s].todo # <<>>, NextRole(s)
  PROVE  /\ op' \in [Sessions -> Operation]
         /\ op'[s].pc = "poll" /\ op'[s].kind = op[s].kind /\ op'[s].plan = op[s].plan
         /\ op'[s].todo = Tail(op[s].todo)
         /\ \A z \in Sessions \ {s} : op'[z] = op[z]
<1>1. op[s] \in Operation
  BY DEF TypeOK
<1>2. Tail(op[s].todo) \in Seq(Roles)
  BY <1>1 DEF Operation
<1>3. 0 \in 0..(MaxPolls - 1)
  BY PollsAssumption
<1> DEFINE q == [op[s] EXCEPT !.pc = "poll", !.todo = Tail(op[s].todo), !.polls = 0]
<1>4. /\ q \in Operation /\ q.todo = Tail(op[s].todo)
      /\ q.pc = "poll" /\ q.kind = op[s].kind /\ q.plan = op[s].plan
  BY <1>1, <1>2, <1>3 DEF Operation, Steps
<1>5. op' = [op EXCEPT ![s] = q]
  BY DEF TypeOK, NextRole, Operation
<1>6. QED
  BY <1>4, <1>5 DEF TypeOK

LEMMA PollsAgain ==
  ASSUME TypeOK, NEW s \in Sessions, At(s, "poll"), op[s].polls + 1 < MaxPolls,
         op' = [op EXCEPT ![s].polls = op[s].polls + 1]
  PROVE  /\ op' \in [Sessions -> Operation]
         /\ op'[s].pc = "poll" /\ op'[s].kind = op[s].kind /\ op'[s].plan = op[s].plan
         /\ op'[s].todo = op[s].todo
         /\ \A z \in Sessions \ {s} : op'[z] = op[z]
<1>1. op[s] \in Operation
  BY DEF TypeOK
<1>2. op[s].polls + 1 \in 0..(MaxPolls - 1)
  BY <1>1, PollsAssumption DEF Operation
<1>3. QED
  BY <1>2 DEF TypeOK, Operation, At

(* A request arrives. *)
LEMMA RegisterStep ==
  ASSUME Inv, NEW s \in Sessions, NEW p \in Plans, Register(s, p)
  PROVE  Inv'
<1>1. /\ op' \in [Sessions -> Operation]
      /\ op'[s].pc = "org" /\ op'[s].kind = "signup" /\ op'[s].plan = p
      /\ \A z \in Sessions \ {s} : op'[z] = op[z]
  BY NoOpType DEF Inv, TypeOK, Register, At, NoOp, Operation, Steps
<1>2. TypeOK'
  BY <1>1 DEF Inv, TypeOK, Register, isVars
<1>3. OperationOK(s)' /\ SessionOK(s)'
  BY <1>1 DEF Inv, OperationOK, SessionOK, Register, isVars
<1>4. \A z \in Sessions : OperationOK(z)' /\ SessionOK(z)'
  BY <1>1, <1>3, Others DEF Register, isVars
<1>5. IdpAccessWasSelected' /\ PlanRolesSettled' /\ LateSettled'
  BY <1>1, Unsaved DEF Register, isVars
<1>6. QED
  BY <1>2, <1>4, <1>5 DEF Inv, Register, isVars


(* An administrator asks for a plan. *)
LEMMA UpgradeStep ==
  ASSUME Inv, NEW s \in Sessions, NEW p \in Plans, Upgrade(s, p)
  PROVE  Inv'
<1>1. /\ op' \in [Sessions -> Operation]
      /\ op'[s].pc = "share" /\ op'[s].kind = "upgrade" /\ op'[s].plan = p
      /\ \A z \in Sessions \ {s} : op'[z] = op[z]
  BY NoOpType DEF Inv, TypeOK, Upgrade, At, NoOp, Operation, Steps
<1>2. TypeOK'
  BY <1>1 DEF Inv, TypeOK, Upgrade, isVars
<1>3. OperationOK(s)' /\ SessionOK(s)'
  BY <1>1 DEF Inv, TypeOK, OperationOK, SessionOK, Upgrade, isVars, At, Steps
<1>4. \A z \in Sessions : OperationOK(z)' /\ SessionOK(z)'
  BY <1>1, <1>3, Others DEF Upgrade, isVars
<1>5. IdpAccessWasSelected' /\ PlanRolesSettled' /\ LateSettled'
  BY <1>1, Unsaved DEF Upgrade, isVars
<1>6. QED
  BY <1>2, <1>4, <1>5 DEF Inv, Upgrade, isVars

(* The organization is created; the base roles are shared with it. *)
LEMMA CreateOrgStep ==
  ASSUME Inv, NEW s \in Sessions, NEW out \in Outcomes, CreateOrg(s, out)
  PROVE  Inv'
<1>1. /\ op' \in [Sessions -> Operation]
      /\ \/ op'[s].pc = "idle" /\ op'[s].kind = "none"
         \/ op'[s].pc = "share" /\ op'[s].kind = op[s].kind /\ op'[s].plan = op[s].plan
      /\ \A z \in Sessions \ {s} : op'[z] = op[z]
  BY Redirected, Moved DEF Inv, CreateOrg, Steps
<1>2. TypeOK'
  BY <1>1, BaseRolesRange DEF Inv, TypeOK, CreateOrg
<1>3. OperationOK(s)' /\ SessionOK(s)'
  BY <1>1 DEF Inv, TypeOK, OperationOK, SessionOK, CreateOrg, At, Steps
<1>4. \A z \in Sessions : OperationOK(z)' /\ SessionOK(z)'
  BY <1>1, <1>3, Others DEF CreateOrg
<1>5. IdpAccessWasSelected' /\ PlanRolesSettled' /\ LateSettled'
  BY <1>1, Unsaved DEF CreateOrg
<1>6. QED
  BY <1>2, <1>4, <1>5, BaseRolesRange DEF Inv, CreateOrg

(* A signup or an upgrade in progress works on a plan that was asked for. *)
LEMMA PlanInProgress ==
  ASSUME Inv, NEW s \in Sessions, op[s].pc \in Steps \ {"idle", "allowed"}
  PROVE  /\ op[s].plan \in selected /\ op[s].plan \in Plans
         /\ op[s].plan \in {"basic", "business", "enterprise"}
BY PlansAssumption DEF Inv, TypeOK, OperationOK

(* The roles of the plan are shared. *)
LEMMA ShareRolesStep ==
  ASSUME Inv, NEW s \in Sessions, NEW out \in Outcomes, ShareRoles(s, out)
  PROVE  Inv'
<1>0. /\ op[s].plan \in selected
      /\ op[s].plan \in {"basic", "business", "enterprise"}
  BY PlanInProgress DEF ShareRoles, At, Steps
<1>1. /\ op' \in [Sessions -> Operation]
      /\ \/ op'[s].pc = "idle" /\ op'[s].kind = "none"
         \/ op'[s].pc = "switch" /\ op'[s].kind = op[s].kind /\ op'[s].plan = op[s].plan
      /\ \A z \in Sessions \ {s} : op'[z] = op[z]
  BY Redirected, Moved DEF Inv, ShareRoles, Steps
<1>2. TypeOK'
  BY <1>1, <1>0, PlanRolesRange DEF Inv, TypeOK, ShareRoles
<1>3. OperationOK(s)' /\ SessionOK(s)'
  BY <1>1 DEF Inv, TypeOK, OperationOK, SessionOK, ShareRoles, At, Steps
<1>4. \A z \in Sessions : OperationOK(z)' /\ SessionOK(z)'
  BY <1>1, <1>3, Others DEF ShareRoles
<1>5. IdpAccessWasSelected' /\ PlanRolesSettled' /\ LateSettled'
  BY <1>1, Unsaved DEF ShareRoles
<1>6. QED
  BY <1>2, <1>4, <1>5, <1>0, PlanRolesRange DEF Inv, ShareRoles

(* The portal switches to the organization. *)
LEMMA SwitchOrgStep ==
  ASSUME Inv, NEW s \in Sessions, SwitchOrg(s)
  PROVE  Inv'
<1>0. /\ op[s].plan \in selected
      /\ op[s].plan \in {"basic", "business", "enterprise"}
  BY PlanInProgress DEF SwitchOrg, At, Steps
<1>1. /\ op' \in [Sessions -> Operation]
      /\ op'[s].pc = (IF op[s].kind = "signup" THEN "user" ELSE "poll")
      /\ op'[s].kind = op[s].kind /\ op'[s].plan = op[s].plan
      /\ op[s].kind # "signup" => op'[s].todo = PlanRoles[op[s].plan]
      /\ \A z \in Sessions \ {s} : op'[z] = op[z]
  BY <1>0, Moved, StartsPolling, PlanRolesRange DEF Inv, SwitchOrg, Steps
<1>2. TypeOK'
  BY <1>1 DEF Inv, TypeOK, SwitchOrg, isVars
<1>3. OperationOK(s)' /\ SessionOK(s)'
  BY <1>1 DEF Inv, TypeOK, OperationOK, SessionOK, SwitchOrg, isVars, At, Steps
<1>4. \A z \in Sessions : OperationOK(z)' /\ SessionOK(z)'
  BY <1>1, <1>3, Others DEF SwitchOrg, isVars
<1>5. IdpAccessWasSelected' /\ PlanRolesSettled' /\ LateSettled'
  BY <1>1, Unsaved DEF SwitchOrg, isVars
<1>6. QED
  BY <1>2, <1>4, <1>5 DEF Inv, SwitchOrg, isVars

(* The administrator is created. *)
LEMMA CreateUserStep ==
  ASSUME Inv, NEW s \in Sessions, NEW out \in Outcomes, CreateUser(s, out)
  PROVE  Inv'
<1>0. /\ op[s].plan \in selected
      /\ op[s].plan \in {"basic", "business", "enterprise"}
  BY PlanInProgress DEF CreateUser, At, Steps
<1> DEFINE todo == BaseRoles \o PlanRoles[op[s].plan]
<1>00. todo \in Seq(Roles) /\ Range(PlanRoles[op[s].plan]) \cup {"teamspace-admin"} \subseteq Range(todo)
  <2>1. BaseRoles \in Seq(Roles) /\ PlanRoles[op[s].plan] \in Seq(Roles)
    BY <1>0, BaseRolesRange, PlanRolesRange
  <2>2. QED
    BY <2>1, RangeOfBoth, BaseRolesRange
<1>1. /\ op' \in [Sessions -> Operation]
      /\ \/ op'[s].pc = "idle" /\ op'[s].kind = "none"
         \/ /\ op'[s].pc = "poll" /\ op'[s].kind = op[s].kind /\ op'[s].plan = op[s].plan
            /\ op'[s].todo = todo
      /\ \A z \in Sessions \ {s} : op'[z] = op[z]
  BY <1>0, <1>00, Redirected, StartsPolling DEF Inv, CreateUser
<1>2. TypeOK'
  BY <1>1 DEF Inv, TypeOK, CreateUser
<1>3. OperationOK(s)' /\ SessionOK(s)'
  BY <1>00, <1>1 DEF Inv, TypeOK, OperationOK, SessionOK, CreateUser, At, Steps
<1>4. \A z \in Sessions : OperationOK(z)' /\ SessionOK(z)'
  BY <1>1, <1>3, Others DEF CreateUser
<1>5. IdpAccessWasSelected' /\ PlanRolesSettled' /\ LateSettled'
  BY <1>1, Unsaved DEF CreateUser
<1>6. QED
  BY <1>2, <1>4, <1>5 DEF Inv, OperationOK, At, CreateUser

(* A request ends, with or without success. *)
LEMMA EndStep ==
  ASSUME Inv, NEW s \in Sessions, Abandon(s) \/ Told(s)
  PROVE  Inv'
<1>1. /\ op' \in [Sessions -> Operation]
      /\ op'[s].pc = "idle" /\ op'[s].kind = "none"
      /\ \A z \in Sessions \ {s} : op'[z] = op[z]
  BY Redirected DEF Inv, Abandon, Told
<1>2. TypeOK'
  BY <1>1 DEF Inv, TypeOK, Abandon, Told, isVars
<1>3. OperationOK(s)' /\ SessionOK(s)'
  BY <1>1 DEF Inv, TypeOK, OperationOK, SessionOK, Abandon, Told, isVars, At, Steps
<1>4. \A z \in Sessions : OperationOK(z)' /\ SessionOK(z)'
  BY <1>1, <1>3, Others DEF Abandon, Told, isVars
<1>5. IdpAccessWasSelected' /\ PlanRolesSettled' /\ LateSettled'
  BY <1>1, Unsaved DEF Abandon, Told, isVars
<1>6. QED
  BY <1>2, <1>4, <1>5 DEF Inv, Abandon, Told, isVars

(* A role is found, or none is left. *)
LEMMA PollStep ==
  ASSUME Inv, NEW s \in Sessions, RoleFound(s) \/ RolesDone(s)
  PROVE  Inv'
<1>1. /\ op' \in [Sessions -> Operation]
      /\ \/ op'[s].pc = "save" /\ op[s].todo = <<>>
         \/ op'[s].pc = "assign" /\ op[s].todo # <<>> /\ Head(op[s].todo) \in visible
      /\ op'[s].kind = op[s].kind /\ op'[s].plan = op[s].plan
      /\ op'[s].todo = op[s].todo
      /\ \A z \in Sessions \ {s} : op'[z] = op[z]
  BY Moved DEF Inv, RoleFound, RolesDone, Steps
<1>2. TypeOK'
  BY <1>1 DEF Inv, TypeOK, RoleFound, RolesDone, isVars
<1>3. OperationOK(s)' /\ SessionOK(s)'
  BY <1>1 DEF Inv, TypeOK, OperationOK, SessionOK, RoleFound, RolesDone, isVars, At, Steps
<1>4. \A z \in Sessions : OperationOK(z)' /\ SessionOK(z)'
  BY <1>1, <1>3, Others DEF RoleFound, RolesDone, isVars
<1>5. IdpAccessWasSelected' /\ PlanRolesSettled' /\ LateSettled'
  BY <1>1, Unsaved DEF RoleFound, RolesDone, isVars
<1>6. QED
  BY <1>2, <1>4, <1>5 DEF Inv, RoleFound, RolesDone, isVars

(* A role is not there yet, or is skipped. *)
LEMMA RoleMissingStep ==
  ASSUME Inv, NEW s \in Sessions, RoleMissing(s)
  PROVE  Inv'
<1>1. /\ op' \in [Sessions -> Operation]
      /\ op'[s].pc = "poll" /\ op'[s].kind = op[s].kind /\ op'[s].plan = op[s].plan
      /\ \/ op'[s].todo = op[s].todo /\ missed' = missed
         \/ op'[s].todo = Tail(op[s].todo) /\ missed' = missed \cup ({Head(op[s].todo)} \ held)
      /\ \A z \in Sessions \ {s} : op'[z] = op[z]
  <2>1. TypeOK /\ At(s, "poll") /\ op[s].todo # <<>>
    BY DEF Inv, RoleMissing
  <2>2. CASE op[s].polls + 1 < MaxPolls
    <3>1. op' = [op EXCEPT ![s].polls = op[s].polls + 1] /\ missed' = missed
      BY <2>2 DEF RoleMissing
    <3>2. QED
      BY <2>1, <2>2, <3>1, PollsAgain
  <2>3. CASE ~(op[s].polls + 1 < MaxPolls)
    <3>1. NextRole(s) /\ missed' = missed \cup ({Head(op[s].todo)} \ held)
      BY <2>3 DEF RoleMissing
    <3>2. QED
      BY <2>1, <3>1, PollsOn
  <2>4. QED
    BY <2>2, <2>3
<1>1a. missed \subseteq missed' /\ missed' \subseteq missed \cup {Head(op[s].todo)}
  BY <1>1
<1>1b. /\ Head(op[s].todo) \in Roles
       /\ Range(op[s].todo) \subseteq {Head(op[s].todo)} \cup Range(Tail(op[s].todo))
  BY RangeOfTail DEF Inv, TypeOK, Operation, RoleMissing
<1>2. TypeOK'
  BY <1>1, <1>1a, <1>1b DEF Inv, TypeOK, RoleMissing, isVars
<1>3. OperationOK(s)' /\ SessionOK(s)'
  <2>1. /\ OperationOK(s) /\ SessionOK(s) /\ op[s].pc = "poll"
        /\ UNCHANGED <<isVars, plan, late, selected, sess>>
    BY DEF Inv, RoleMissing, At
  <2>2. Range(op[s].todo) \cup held \cup missed \subseteq Range(op'[s].todo) \cup held' \cup missed'
    BY <1>1, <1>1a, <1>1b, <2>1 DEF isVars
  <2>3. QED
    BY <1>1, <2>1, <2>2 DEF OperationOK, SessionOK, isVars, Steps
<1>4. \A z \in Sessions : OperationOK(z)' /\ SessionOK(z)'
  BY <1>1, <1>1a, <1>3, Others DEF RoleMissing, isVars
<1>5. IdpAccessWasSelected' /\ PlanRolesSettled' /\ LateSettled'
  BY <1>1, <1>1a, Unsaved DEF RoleMissing, isVars
<1>6. QED
  BY <1>2, <1>4, <1>5 DEF Inv, RoleMissing, isVars

(* A role is assigned, or WSO2 IS refuses it. *)
LEMMA AssignRoleStep ==
  ASSUME Inv, NEW s \in Sessions, NEW out \in Outcomes, AssignRole(s, out)
  PROVE  Inv'
<1>0. op[s].todo # <<>> /\ Head(op[s].todo) \in visible
  BY DEF Inv, OperationOK, AssignRole, At
<1>1. /\ op' \in [Sessions -> Operation]
      /\ \/ op'[s].pc = "idle" /\ op'[s].kind = "none"
         \/ /\ op'[s].pc = "poll" /\ op'[s].kind = op[s].kind /\ op'[s].plan = op[s].plan
            /\ op'[s].todo = Tail(op[s].todo)
      /\ \A z \in Sessions \ {s} : op'[z] = op[z]
  BY <1>0, Redirected, PollsOn DEF Inv, AssignRole
<1>1a. /\ held \subseteq held' /\ held \cup missed \cup {Head(op[s].todo)} \subseteq held' \cup missed'
       /\ missed' \subseteq missed \cup {Head(op[s].todo)}
  BY DEF AssignRole
<1>1b. /\ Head(op[s].todo) \in Roles
       /\ Range(op[s].todo) \subseteq {Head(op[s].todo)} \cup Range(Tail(op[s].todo))
  BY <1>0, RangeOfTail DEF Inv, TypeOK, Operation
<1>2. TypeOK'
  BY <1>1, <1>0, <1>1a, <1>1b DEF Inv, TypeOK, AssignRole
<1>3. OperationOK(s)' /\ SessionOK(s)'
  <2>1. /\ OperationOK(s) /\ SessionOK(s) /\ op[s].pc = "assign"
        /\ UNCHANGED <<org, member, shared, visible, groups, plan, late, selected, sess>>
    BY DEF Inv, AssignRole, At
  <2>2. Range(op[s].todo) \cup held \cup missed \subseteq Range(Tail(op[s].todo)) \cup held' \cup missed'
    BY <1>1a, <1>1b
  <2>3. QED
    BY <1>1, <1>1a, <2>1, <2>2 DEF OperationOK, SessionOK, Steps
<1>4. \A z \in Sessions : OperationOK(z)' /\ SessionOK(z)'
  BY <1>1, <1>1a, <1>3, Others DEF AssignRole
<1>5. IdpAccessWasSelected' /\ PlanRolesSettled' /\ LateSettled'
  BY <1>1, <1>1a, Unsaved DEF AssignRole
<1>6. QED
  BY <1>2, <1>4, <1>5 DEF Inv, AssignRole

(* The plan is saved. *)
LEMMA SavePlanStep ==
  ASSUME Inv, NEW s \in Sessions, SavePlan(s)
  PROVE  Inv'
<1>0. op[s].plan \in selected /\ op[s].plan \in Plans /\ org /\ member
  BY PlanInProgress DEF SavePlan, At, Steps, Inv, OperationOK
<1>00. Settled(op[s].plan)
  <2>1. Range(op[s].todo) = {}
    BY DEF Inv, OperationOK, SavePlan, At, Range
  <2>2. QED
    BY <1>0, <2>1 DEF Inv, OperationOK, Settled, SavePlan, At
<1>1. /\ op' \in [Sessions -> Operation]
      /\ op'[s].pc = "success" /\ op'[s].kind = op[s].kind /\ op'[s].plan = op[s].plan
      /\ \A z \in Sessions \ {s} : op'[z] = op[z]
  BY Moved DEF Inv, SavePlan, Steps
<1>2. /\ sess' \in [Sessions -> SessionType]
      /\ sess'[s].user = sess[s].user /\ sess'[s].roles = sess[s].roles
      /\ \A z \in Sessions \ {s} : sess'[z] = sess[z]
  BY <1>0 DEF Inv, TypeOK, SessionType, SavePlan
<1>3. TypeOK'
  BY <1>0, <1>1, <1>2 DEF Inv, TypeOK, SavePlan, isVars
<1>4. OperationOK(s)' /\ SessionOK(s)'
  BY <1>0, <1>1, <1>2 DEF Inv, OperationOK, SessionOK, SavePlan, isVars, At, Steps
<1>5. \A z \in Sessions : OperationOK(z)' /\ SessionOK(z)'
  BY <1>1, <1>2, <1>4, Others DEF SavePlan, isVars
<1>6. IdpAccessWasSelected' /\ PlanRolesSettled' /\ LateSettled'
  <2>1. ASSUME NEW p, Settled(p) PROVE Settled(p)'
    BY <2>1, SettledKept DEF SavePlan, isVars
  <2>2. PICK q : q = op[s].plan
    OBVIOUS
  <2>3. Settled(q)'
    BY <1>00, <2>1, <2>2
  <2>4. PlanRolesSettled' /\ LateSettled'
    BY <2>1, <2>2, <2>3 DEF Inv, PlanRolesSettled, LateSettled, SavePlan
  <2>5. IdpAccessWasSelected'
    BY <1>1 DEF Inv, IdpAccessWasSelected, At, SavePlan, isVars
  <2>6. QED
    BY <2>4, <2>5
<1>7. QED
  BY <1>3, <1>5, <1>6 DEF Inv, SavePlan, isVars

LEMMA SaveFailsStep ==
  ASSUME Inv, NEW s \in Sessions, NEW slow \in BOOLEAN, SaveFails(s, slow)
  PROVE  Inv'
<1>0. op[s].plan \in selected /\ op[s].plan \in Plans /\ org /\ member
  BY PlanInProgress DEF SaveFails, At, Steps, Inv, OperationOK
<1>00. Settled(op[s].plan)
  <2>1. Range(op[s].todo) = {}
    BY DEF Inv, OperationOK, SaveFails, At, Range
  <2>2. QED
    BY <1>0, <2>1 DEF Inv, OperationOK, Settled, SaveFails, At
<1>1. /\ op' \in [Sessions -> Operation]
      /\ op'[s].pc = "notsaved" /\ op'[s].kind = op[s].kind /\ op'[s].plan = op[s].plan
      /\ \A z \in Sessions \ {s} : op'[z] = op[z]
  BY Moved DEF Inv, SaveFails, Steps
<1>2. TypeOK'
  BY <1>0, <1>1 DEF Inv, TypeOK, SaveFails, isVars
<1>3. OperationOK(s)' /\ SessionOK(s)'
  BY <1>0, <1>1 DEF Inv, OperationOK, SessionOK, SaveFails, isVars, At, Steps
<1>4. \A z \in Sessions : OperationOK(z)' /\ SessionOK(z)'
  BY <1>1, <1>3, Others DEF SaveFails, isVars
<1>5. IdpAccessWasSelected' /\ PlanRolesSettled' /\ LateSettled'
  <2>1. ASSUME NEW p, Settled(p) PROVE Settled(p)'
    BY <2>1, SettledKept DEF SaveFails, isVars
  <2>2. PICK q : q = op[s].plan
    OBVIOUS
  <2>3. Settled(q)'
    BY <1>00, <2>1, <2>2
  <2>4. PlanRolesSettled' /\ LateSettled'
    BY <2>1, <2>2, <2>3 DEF Inv, PlanRolesSettled, LateSettled, SaveFails
  <2>5. IdpAccessWasSelected'
    BY <1>1 DEF Inv, IdpAccessWasSelected, At, SaveFails, isVars
  <2>6. QED
    BY <2>4, <2>5
<1>6. QED
  BY <1>2, <1>4, <1>5 DEF Inv, SaveFails, isVars

(* The Business API commits what the portal gave up on. *)
LEMMA LateSaveStep ==
  ASSUME Inv, NEW p \in Plans, LateSave(p)
  PROVE  Inv'
<1>1. TypeOK'
  BY DEF Inv, TypeOK, LateSave, isVars
<1>2. \A z \in Sessions : OperationOK(z)' /\ SessionOK(z)'
  BY DEF Inv, OperationOK, SessionOK, LateSave, isVars
<1>3. PlanRolesSettled' /\ LateSettled'
  BY DEF Inv, PlanRolesSettled, LateSettled, Settled, LateSave, isVars
<1>4. QED
  BY <1>1, <1>2, <1>3 DEF Inv, IdpAccessWasSelected, At, LateSave, isVars

(* Sessions come, go and cache a plan. *)
LEMMA SessionStep ==
  ASSUME Inv, NEW s \in Sessions, NEW b \in BOOLEAN,
         (\E inGroups \in SUBSET groups : Login(s, inGroups)) \/ Logout(s) \/ PopulatePlan(s, b)
  PROVE  Inv'
<1>1. /\ sess' \in [Sessions -> SessionType]
      /\ sess'[s].user => org /\ member
      /\ sess'[s].roles \subseteq held \cup groups
      /\ \A z \in Sessions \ {s} : sess'[z] = sess[z]
  <2>1. CASE \E inGroups \in SUBSET groups : Login(s, inGroups)
    <3>1. PICK inGroups \in SUBSET groups : Login(s, inGroups)
      BY <2>1
    <3> DEFINE roles == ExtractRoles(inGroups)
    <3>2. roles \subseteq Roles /\ roles \subseteq held \cup groups /\ org /\ member
      BY <3>1, RequiredRoles DEF Inv, Login, ExtractRoles
    <3>3. sess' = [sess EXCEPT ![s].user = TRUE, ![s].roles = roles]
      BY <3>1 DEF Login
    <3> HIDE DEF roles
    <3>4. QED
      BY <3>2, <3>3 DEF Inv, TypeOK, SessionType
  <2>2. CASE Logout(s)
    BY <2>2 DEF Inv, TypeOK, SessionType, NoSession, Logout
  <2>3. CASE PopulatePlan(s, b)
    BY <2>3 DEF Inv, TypeOK, SessionType, SessionOK, PopulatePlan, GetOrganizationPlan, StoredPlan
  <2>4. QED
    BY <2>1, <2>2, <2>3
<1>2. UNCHANGED <<isVars, plan, late, missed, selected, op>>
  BY DEF Login, Logout, PopulatePlan
<1>3. TypeOK'
  BY <1>1, <1>2 DEF Inv, TypeOK, isVars
<1>4. OperationOK(s)' /\ SessionOK(s)'
  BY <1>1, <1>2 DEF Inv, OperationOK, SessionOK, isVars
<1>5. \A z \in Sessions : OperationOK(z)' /\ SessionOK(z)'
  BY <1>1, <1>2, <1>4, Others DEF isVars
<1>6. QED
  BY <1>2, <1>3, <1>5 DEF Inv, IdpAccessWasSelected, PlanRolesSettled, LateSettled, Settled, At, isVars

(* The gate lets a request through. *)
LEMMA GateStep ==
  ASSUME Inv, NEW s \in Sessions, NEW f \in DOMAIN RequiredRole, NEW known \in BOOLEAN,
         CheckPlanAndRole(s, f, known)
  PROVE  Inv'
<1>1. /\ op' \in [Sessions -> Operation]
      /\ op'[s].pc = "allowed" /\ op'[s].kind = f /\ f \in {"idp", "agents"}
      /\ \A z \in Sessions \ {s} : op'[z] = op[z]
  BY NoOpType DEF Inv, TypeOK, CheckPlanAndRole, Allowed, NoOp, Operation, Steps, RequiredRole
<1>2. UNCHANGED <<isVars, plan, late, missed, selected, sess>>
  BY DEF CheckPlanAndRole, Allowed
<1>3. TypeOK'
  BY <1>1, <1>2 DEF Inv, TypeOK, isVars
<1>4. OperationOK(s)' /\ SessionOK(s)'
  BY <1>1, <1>2 DEF Inv, OperationOK, SessionOK, isVars
<1>5. \A z \in Sessions : OperationOK(z)' /\ SessionOK(z)'
  BY <1>1, <1>2, <1>4, Others DEF isVars
<1>6. f = "idp" => "enterprise" \in selected \/ "idp-manager" \in groups
  BY DEF Inv, TypeOK, SessionOK, CheckPlanAndRole, RequiredRole
<1>7. IdpAccessWasSelected' /\ PlanRolesSettled' /\ LateSettled'
  BY <1>1, <1>2, <1>6 DEF Inv, IdpAccessWasSelected, PlanRolesSettled, LateSettled, Settled, At, isVars
<1>8. QED
  BY <1>2, <1>3, <1>5, <1>7 DEF Inv, isVars

(* A shared role reaches the organization, or a group bears its name. *)
LEMMA OutsideStep ==
  ASSUME Inv, (\E r \in Roles : RoleArrives(r)) \/ \E n \in GroupNames : GroupAssigned(n)
  PROVE  Inv'
<1>1. /\ UNCHANGED <<org, member, shared, held, plan, late, missed, selected, sess, op>>
      /\ groups \subseteq groups' /\ groups' \subseteq groups \cup GroupNames
      /\ visible \subseteq visible' /\ visible' \subseteq visible \cup shared
  BY DEF RoleArrives, GroupAssigned
<1>2. TypeOK'
  BY <1>1 DEF Inv, TypeOK
<1>3. \A z \in Sessions : OperationOK(z)' /\ SessionOK(z)'
  BY <1>1 DEF Inv, OperationOK, SessionOK
<1>4. IdpAccessWasSelected' /\ PlanRolesSettled' /\ LateSettled'
  BY <1>1 DEF Inv, IdpAccessWasSelected, PlanRolesSettled, LateSettled, Settled, At
<1>5. QED
  BY <1>1, <1>2, <1>3, <1>4 DEF Inv

(* Inv is inductive. *)
LEMMA SubscriptionInit == Init => Inv
<1>1. SUFFICES ASSUME Init PROVE Inv
  OBVIOUS
<1>2. NoSession \in SessionType
  BY DEF NoSession, SessionType
<1>3. TypeOK
  BY <1>1, <1>2, NoOpType DEF Init, TypeOK
<1>4. \A s \in Sessions : OperationOK(s) /\ SessionOK(s)
  BY <1>1 DEF Init, OperationOK, SessionOK, NoOp, NoSession
<1>5. QED
  BY <1>1, <1>3, <1>4 DEF Init, Inv, IdpAccessWasSelected, PlanRolesSettled, LateSettled, At, NoOp

LEMMA SubscriptionStep == Inv /\ [Next]_vars => Inv'
<1>1. SUFFICES ASSUME Inv, [Next]_vars PROVE Inv'
  OBVIOUS
<1>2. CASE UNCHANGED vars
  BY <1>1, <1>2 DEF Inv, TypeOK, OperationOK, SessionOK, IdpAccessWasSelected,
     PlanRolesSettled, LateSettled, Settled, At, vars, isVars
<1>3. ASSUME NEW s \in Sessions, OpStep(s) PROVE Inv'
  BY <1>1, <1>3, CreateOrgStep, ShareRolesStep, CreateUserStep, AssignRoleStep, SaveFailsStep,
     SwitchOrgStep, EndStep, PollStep, RoleMissingStep, SavePlanStep DEF OpStep
<1>4. ASSUME NEW s \in Sessions, NEW p \in Plans, Register(s, p) \/ Upgrade(s, p) PROVE Inv'
  BY <1>1, <1>4, RegisterStep, UpgradeStep
<1>5. ASSUME NEW s \in Sessions, NEW b \in BOOLEAN,
             (\E inGroups \in SUBSET groups : Login(s, inGroups)) \/ Logout(s) \/ PopulatePlan(s, b)
      PROVE  Inv'
  BY <1>1, <1>5, SessionStep
<1>6. ASSUME NEW s \in Sessions, NEW f \in DOMAIN RequiredRole, NEW b \in BOOLEAN,
             CheckPlanAndRole(s, f, b)
      PROVE  Inv'
  BY <1>1, <1>6, GateStep
<1>7. ASSUME \/ (\E r \in Roles : RoleArrives(r)) \/ \E n \in GroupNames : GroupAssigned(n)
             \/ \E p \in Plans : LateSave(p)
      PROVE  Inv'
  BY <1>1, <1>7, OutsideStep, LateSaveStep
<1>8. QED
  BY <1>1, <1>2, <1>3, <1>4, <1>5, <1>6, <1>7 DEF Next

LEMMA SubscriptionInvariance == Spec => []Inv
BY SubscriptionInit, SubscriptionStep, PTL DEF Spec

(* Plans, roles and sessions are well formed for any number of sessions;   *)
(* in particular the administrator holds only roles that were shared with  *)
(* the organization and have reached it.                                   *)
THEOREM SubscriptionTypeCorrect == Spec => []TypeOK
<1>1. Inv => TypeOK
  BY DEF Inv
<1>2. QED
  BY <1>1, SubscriptionInvariance, PTL

(* check_idp_access never opens the identity-provider pages of an          *)
(* organization that never asked for the enterprise plan, even when the    *)
(* plan lookup fails and the role alone decides, unless a group bears the  *)
(* name of the role.                                                       *)
THEOREM IdpAccessWasSelectedAlways == Spec => []IdpAccessWasSelected
<1>1. Inv => IdpAccessWasSelected
  BY DEF Inv
<1>2. QED
  BY <1>1, SubscriptionInvariance, PTL

(* A plan row is written, late or in time, only for an organization whose  *)
(* account has the roles of that plan and teamspace-admin, but for those   *)
(* that polling or assignment gave up on, wherever signups and upgrades    *)
(* are cut short.                                                          *)
THEOREM PlanRolesAlwaysSettled == Spec => []PlanRolesSettled
<1>1. Inv => PlanRolesSettled
  BY DEF Inv
<1>2. QED
  BY <1>1, SubscriptionInvariance, PTL

=============================================================================

-------------------------- MODULE ChatServiceProofs --------------------------
(* The invariants of ChatService, for every set of sessions and messages.   *)
EXTENDS ChatService, TLAPS

USE ThreadsAssumption, HistoryAssumption, FailsAssumption, NoneAssumption

-----------------------------------------------------------------------------
(* Lists: what the agent writes back holds what it read and the new entry. *)

Longer(list, e) == Trim(Append(list, e))

LEMMA ListDomain ==
    ASSUME NEW list \in Seq(Entries)
    PROVE  /\ Len(list) \in Nat /\ DOMAIN list = 1..Len(list) /\ DOMAIN list \subseteq Nat
           /\ \A i \in DOMAIN list : list[i] \in Entries
OBVIOUS

LEMMA LongerAt ==
    ASSUME NEW list \in Seq(Entries), NEW e \in Entries
    PROVE  /\ Longer(list, e) \in Seq(Entries)
           /\ Len(Longer(list, e)) <= MaxHistory
           /\ \E k \in Nat : \A i \in DOMAIN Longer(list, e) :
                 /\ i + k \in 1..(Len(list) + 1)
                 /\ Longer(list, e)[i] = IF i + k = Len(list) + 1 THEN e ELSE list[i + k]
<1> DEFINE app == Append(list, e)
<1>1. /\ app \in Seq(Entries) /\ Len(app) = Len(list) + 1
      /\ \A j \in 1..(Len(list) + 1) : app[j] = IF j = Len(list) + 1 THEN e ELSE list[j]
  OBVIOUS
<1>2. Len(list) \in Nat
  OBVIOUS
<1> HIDE DEF app
<1>3. CASE Len(app) > MaxHistory
  <2> DEFINE k == Len(app) - MaxHistory
  <2>1. k \in Nat /\ Longer(list, e) = SubSeq(app, k + 1, Len(app))
    BY <1>1, <1>2, <1>3 DEF Longer, Trim, app
  <2>2. /\ SubSeq(app, k + 1, Len(app)) \in Seq(Entries)
        /\ Len(SubSeq(app, k + 1, Len(app))) = MaxHistory
        /\ \A i \in 1..MaxHistory : SubSeq(app, k + 1, Len(app))[i] = app[i + k]
    BY <1>1, <1>2, <1>3
  <2>3. DOMAIN Longer(list, e) = 1..MaxHistory
    BY <2>1, <2>2
  <2>4. \A i \in 1..MaxHistory : i + k \in 1..(Len(list) + 1)
    BY <1>1, <1>2, <1>3
  <2>5. \A i \in DOMAIN Longer(list, e) :
           /\ i + k \in 1..(Len(list) + 1)
           /\ Longer(list, e)[i] = IF i + k = Len(list) + 1 THEN e ELSE list[i + k]
    <3> HIDE DEF k
    <3> QED BY <1>1, <2>1, <2>2, <2>3, <2>4
  <2> QED BY <2>1, <2>2, <2>5
<1>4. CASE ~(Len(app) > MaxHistory)
  <2>1. Longer(list, e) = app
    BY <1>4 DEF Longer, Trim, app
  <2>2. /\ Longer(list, e) \in Seq(Entries) /\ Len(Longer(list, e)) <= MaxHistory
        /\ DOMAIN Longer(list, e) = 1..(Len(list) + 1)
    BY <1>1, <1>2, <1>4, <2>1
  <2>3. \A i \in DOMAIN Longer(list, e) :
           /\ i + 0 \in 1..(Len(list) + 1)
           /\ Longer(list, e)[i] = IF i + 0 = Len(list) + 1 THEN e ELSE list[i + 0]
    BY <1>1, <1>2, <2>1, <2>2
  <2> QED BY <2>2, <2>3
<1> QED BY <1>3, <1>4

LEMMA LongerHolds ==
    ASSUME NEW list \in Seq(Entries), NEW e \in Entries
    PROVE  ToSet(Longer(list, e)) \subseteq ToSet(list) \cup {e}
<1>1. PICK k \in Nat : \A i \in DOMAIN Longer(list, e) :
                 /\ i + k \in 1..(Len(list) + 1)
                 /\ Longer(list, e)[i] = IF i + k = Len(list) + 1 THEN e ELSE list[i + k]
  BY LongerAt
<1>2. ASSUME NEW i \in DOMAIN Longer(list, e) PROVE Longer(list, e)[i] \in ToSet(list) \cup {e}
  <2>a. Longer(list, e) \in Seq(Entries)
    BY LongerAt
  <2>0. i \in Nat /\ Len(list) \in Nat /\ DOMAIN list = 1..Len(list)
    BY <2>a, ListDomain
  <2>1. CASE i + k = Len(list) + 1
    BY <1>1, <2>1
  <2>2. CASE i + k # Len(list) + 1
    <3>1. i + k \in DOMAIN list
      BY <1>1, <2>0, <2>2
    <3> QED BY <1>1, <2>2, <3>1 DEF ToSet
  <2> QED BY <2>1, <2>2
<1> QED BY <1>2 DEF ToSet

(* It stays in order when the new entry may come after all there is. *)
LEMMA LongerInOrder ==
    ASSUME NEW list \in Seq(Entries), NEW e \in Entries, InOrder(list),
           \A x \in ToSet(list) : x # e /\ (x.msg = e.msg => x.role = "user")
    PROVE  InOrder(Longer(list, e))
<1> DEFINE new == Longer(list, e)
<1>1. PICK k \in Nat : \A i \in DOMAIN new :
                 /\ i + k \in 1..(Len(list) + 1)
                 /\ new[i] = IF i + k = Len(list) + 1 THEN e ELSE list[i + k]
  BY LongerAt
<1>a. new \in Seq(Entries)
  BY LongerAt
<1>2. DOMAIN new \subseteq Nat /\ Len(list) \in Nat /\ DOMAIN list = 1..Len(list)
  BY <1>a, ListDomain
<1>3. ASSUME NEW i \in DOMAIN new, NEW j \in DOMAIN new, i < j
      PROVE  new[i] # new[j] /\ (new[i].msg = new[j].msg => new[i].role = "user")
  <2> HIDE DEF new
  <2>1. i + k \in DOMAIN list /\ new[i] = list[i + k] /\ i \in Nat /\ j \in Nat /\ i + k < j + k
    BY <1>1, <1>2, <1>3
  <2>2. CASE j + k = Len(list) + 1
    <3>1. new[j] = e /\ new[i] \in ToSet(list)
      BY <1>1, <2>1, <2>2 DEF ToSet
    <3> QED BY <3>1
  <2>3. CASE j + k # Len(list) + 1
    <3>1. j + k \in DOMAIN list /\ new[j] = list[j + k]
      BY <1>1, <1>2, <2>1, <2>3
    <3> QED BY <2>1, <3>1 DEF InOrder
  <2> QED BY <2>2, <2>3
<1> QED BY <1>3 DEF InOrder

LEMMA EmptyList ==
    <<>> \in Seq(Entries) /\ Len(<<>>) = 0 /\ ToSet(<<>>) = {} /\ MessagesIn(<<>>) = {} /\ InOrder(<<>>)
<1>1. <<>> \in Seq(Entries) /\ Len(<<>>) = 0 /\ DOMAIN <<>> = {}
  OBVIOUS
<1>2. ToSet(<<>>) = {}
  BY <1>1 DEF ToSet
<1> QED BY <1>1, <1>2 DEF MessagesIn, InOrder

LEMMA EntriesMade ==
    ASSUME NEW m \in Messages
    PROVE  /\ Question(m) \in Entries /\ Question(m).msg = m
           /\ Answer(m) \in Entries /\ Answer(m).msg = m
           /\ Question(m) # Answer(m)
BY DEF Question, Answer, Entries

(* The messages of a list that was written back. *)
LEMMA LongerMessages ==
    ASSUME NEW list \in Seq(Entries), NEW e \in Entries
    PROVE  MessagesIn(Longer(list, e)) \subseteq MessagesIn(list) \cup {e.msg}
BY LongerHolds DEF MessagesIn

-----------------------------------------------------------------------------
(* Every step of a request on its way replaces its record by some q and     *)
(* may write a list made of what it holds, what its thread has and its own  *)
(* entries.                                                                 *)

Routed == \A m \in Messages : chat[m].pc \in {"unsent", "done"} <=> chat[m].thread = None
TypeInv == TypeOK /\ Routed

Put(m, q) == q \in Chats /\ chat' = [chat EXCEPT ![m] = q]

Carries(m, q, new) ==
    /\ Put(m, q) /\ new \in Seq(Entries) /\ Len(new) <= MaxHistory
    /\ ~At(m, "unsent") /\ chat[m].thread \in Threads
    /\ q.session = chat[m].session /\ q.past \subseteq chat[m].past
    /\ q.pc \notin {"unsent", "portal"} /\ (q.pc = "done" <=> q.thread = None)
    /\ q.thread \in {chat[m].thread, None}
    /\ q.list \in {chat[m].list, new, <<>>}
    /\ q.seen = chat[m].seen \/ MessagesIn(q.seen) \subseteq MessagesIn(history[chat[m].thread])
    /\ MessagesIn(new) \subseteq MessagesIn(history[chat[m].thread]) \cup MessagesIn(chat[m].list) \cup {m}
    /\ history' \in {history, [history EXCEPT ![chat[m].thread] = new]}
    /\ \/ saved' = saved
       \/ At(m, "portal") /\ saved' = [saved EXCEPT ![chat[m].session] = chat[m].thread]
    /\ UNCHANGED <<made, page, clearing, wipes, forgotten>>

Unwritten == {"unsent", "portal", "posted", "add", "write"}

Orderly(m, q, new) ==
    /\ InOrder(new) /\ \A n \in Messages \ {m} : NotYet(n, new)
    /\ q.pc \in Unwritten => chat[m].pc \in Unwritten /\ m \notin MessagesIn(new)
    /\ q.pc \in {"run", "store"} =>
          chat[m].pc \in Unwritten \cup {"run", "store"} /\ Answer(m) \notin ToSet(new)

Moved(m, pc) == [chat[m] EXCEPT !.pc = pc]
Listed(m, pc, list) == [chat[m] EXCEPT !.pc = pc, !.list = list]
Ended(m) == [NoChat EXCEPT !.pc = "done", !.session = chat[m].session]

LEMMA Records ==
    ASSUME TypeInv, NEW m \in Messages
    PROVE  /\ chat[m] \in Chats /\ chat[m].list \in Seq(Entries) /\ chat[m].seen \in Seq(Entries)
           /\ \A pc \in ChatSteps : Moved(m, pc) \in Chats
           /\ \A pc \in ChatSteps, list \in Seq(Entries) : Listed(m, pc, list) \in Chats
           /\ Ended(m) \in Chats
           /\ ~At(m, "unsent") /\ ~At(m, "done") => chat[m].thread \in Threads
<1>1. chat[m] \in Chats
  BY DEF TypeInv, TypeOK
<1>2. chat[m].session \in Sessions \cup {None} /\ chat[m].thread \in Threads \cup {None}
  BY <1>1 DEF Chats
<1>3. Ended(m) \in Chats
  <2>1. NoChat \in Chats
    BY EmptyList DEF NoChat, Chats, ChatSteps
  <2> QED BY <1>2, <2>1 DEF Ended, Chats, ChatSteps
<1>4. ~At(m, "unsent") /\ ~At(m, "done") => chat[m].thread \in Threads
  BY <1>2 DEF At, TypeInv, Routed
<1>5. /\ \A pc \in ChatSteps : Moved(m, pc) \in Chats
      /\ \A pc \in ChatSteps, list \in Seq(Entries) : Listed(m, pc, list) \in Chats
      /\ chat[m].list \in Seq(Entries) /\ chat[m].seen \in Seq(Entries)
  BY <1>1 DEF Moved, Listed, Chats
<1> QED BY <1>1, <1>3, <1>4, <1>5

LEMMA Stored ==
    ASSUME TypeInv, NEW t \in Threads, NEW list \in Fetched(t)
    PROVE  /\ list \in Seq(Entries) /\ Len(list) <= MaxHistory
           /\ MessagesIn(list) \subseteq MessagesIn(history[t])
           /\ Ordered => InOrder(list) /\ \A m \in Messages : NotYet(m, list)
<1>1. list = history[t] \/ list = <<>>
  BY DEF Fetched
<1>2. history[t] \in Seq(Entries) /\ Len(history[t]) <= MaxHistory
  BY DEF TypeInv, TypeOK
<1>3. Ordered => InOrder(history[t]) /\ \A m \in Messages : NotYet(m, history[t])
  BY DEF Ordered
<1>4. InOrder(<<>>) /\ \A m \in Messages : NotYet(m, <<>>)
  BY EmptyList DEF NotYet
<1>5. CASE list = history[t]
  BY <1>2, <1>3, <1>5
<1>6. CASE list = <<>>
  BY <1>4, <1>6, EmptyList
<1> QED BY <1>1, <1>5, <1>6

LEMMA EmptyOrderly == InOrder(<<>>) /\ \A m \in Messages : NotYet(m, <<>>) /\ m \notin MessagesIn(<<>>)
                                                         /\ Answer(m) \notin ToSet(<<>>)
BY EmptyList DEF NotYet

LEMMA StartStreamCarries ==
    ASSUME TypeInv, NEW m \in Messages, StartStream(m)
    PROVE  Carries(m, Moved(m, "posted"), <<>>) /\ (Ordered => Orderly(m, Moved(m, "posted"), <<>>))
<1> DEFINE q == Moved(m, "posted")
<1>1. At(m, "portal") /\ chat[m].pc = "portal" /\ chat' = [chat EXCEPT ![m].pc = "posted"]
      /\ saved' = [saved EXCEPT ![chat[m].session] = chat[m].thread]
      /\ UNCHANGED <<made, page, clearing, history, wipes, forgotten>>
  BY DEF StartStream, Goto, At
<1>2. chat' = [chat EXCEPT ![m] = q]
  BY <1>1 DEF Moved, TypeInv, TypeOK
<1>3. q \in Chats /\ chat[m] \in Chats /\ chat[m].thread \in Threads /\ ~At(m, "unsent")
  BY <1>1, Records DEF ChatSteps, At
<1>4. q.pc = "posted" /\ q.session = chat[m].session /\ q.past = chat[m].past
      /\ q.thread = chat[m].thread /\ q.list = chat[m].list /\ q.seen = chat[m].seen
  BY <1>3 DEF Moved, Chats
<1>5. chat[m].thread # None
  BY <1>3 DEF Threads
<1> HIDE DEF q
<1>6. Carries(m, q, <<>>)
  <2>1. Put(m, q)
    BY <1>2, <1>3 DEF Put
  <2>2. <<>> \in Seq(Entries) /\ Len(<<>>) <= MaxHistory /\ MessagesIn(<<>>) = {}
    BY EmptyList
  <2>3. history' \in {history, [history EXCEPT ![chat[m].thread] = <<>>]}
    BY <1>1
  <2> QED BY <1>1, <1>3, <1>4, <1>5, <2>1, <2>2, <2>3 DEF Carries
<1>7. Orderly(m, q, <<>>)
  BY <1>1, <1>4, EmptyOrderly DEF Orderly, Unwritten
<1> QED BY <1>6, <1>7 DEF q

LEMMA EndCarries ==
    ASSUME TypeInv, NEW m \in Messages, NEW new \in Seq(Entries),
           ~At(m, "unsent"), ~At(m, "done"), End(m), Len(new) <= MaxHistory,
           MessagesIn(new) \subseteq MessagesIn(chat[m].list) \cup {m},
           history' \in {history, [history EXCEPT ![chat[m].thread] = new]},
           UNCHANGED <<portalVars, wipes, forgotten>>
    PROVE  /\ Carries(m, Ended(m), new)
           /\ InOrder(new) /\ (\A n \in Messages \ {m} : NotYet(n, new)) => Orderly(m, Ended(m), new)
<1> DEFINE q == Ended(m)
<1>1. chat' = [chat EXCEPT ![m] = q]
  BY DEF End, Ended
<1>2. q \in Chats /\ chat[m].thread \in Threads
  BY Records
<1>3. q.pc = "done" /\ q.session = chat[m].session /\ q.past = {}
      /\ q.thread = None /\ q.list = <<>> /\ q.seen = <<>>
  BY DEF Ended, NoChat
<1>4. MessagesIn(q.seen) = {}
  BY <1>3, EmptyList
<1> HIDE DEF q
<1>5. Carries(m, q, new)
  BY <1>1, <1>2, <1>3, <1>4 DEF Carries, Put, portalVars
<1>6. InOrder(new) /\ (\A n \in Messages \ {m} : NotYet(n, new)) => Orderly(m, q, new)
  BY <1>3 DEF Orderly, Unwritten
<1> QED BY <1>5, <1>6 DEF q

LEMMA ReadHistoryCarries ==
    ASSUME TypeInv, NEW m \in Messages, ReadHistory(m)
    PROVE  \E q \in Chats, new \in Seq(Entries) :
              Carries(m, q, new) /\ (Ordered => Orderly(m, q, new))
<1>1. PICK list \in Fetched(chat[m].thread) :
              chat' = [chat EXCEPT ![m].pc = "add", ![m].seen = list]
  BY DEF ReadHistory
<1> DEFINE q == [chat[m] EXCEPT !.pc = "add", !.seen = list]
<1>2. chat[m].pc = "posted" /\ UNCHANGED <<portalVars, history, wipes, forgotten>>
  BY DEF ReadHistory, At
<1>3. chat' = [chat EXCEPT ![m] = q]
  BY <1>1 DEF TypeInv, TypeOK
<1>4. chat[m] \in Chats /\ chat[m].thread \in Threads /\ ~At(m, "unsent") /\ chat[m].thread # None
  BY <1>2, Records DEF At, Threads
<1>5. /\ list \in Seq(Entries) /\ MessagesIn(list) \subseteq MessagesIn(history[chat[m].thread])
  BY <1>4, Stored
<1>6. q \in Chats
  BY <1>4, <1>5 DEF Chats, ChatSteps
<1>7. q.pc = "add" /\ q.session = chat[m].session /\ q.past = chat[m].past
      /\ q.thread = chat[m].thread /\ q.list = chat[m].list /\ q.seen = list
  BY <1>4 DEF Chats
<1> HIDE DEF q
<1>8. Carries(m, q, <<>>)
  <2>1. Put(m, q)
    BY <1>3, <1>6 DEF Put
  <2>2. <<>> \in Seq(Entries) /\ Len(<<>>) <= MaxHistory /\ MessagesIn(<<>>) = {}
    BY EmptyList
  <2>3. history' \in {history, [history EXCEPT ![chat[m].thread] = <<>>]}
    BY <1>2
  <2> QED BY <1>2, <1>4, <1>5, <1>7, <2>1, <2>2, <2>3 DEF Carries, portalVars
<1>9. Orderly(m, q, <<>>)
  BY <1>2, <1>7, EmptyOrderly DEF Orderly, Unwritten
<1> QED BY <1>6, <1>8, <1>9, EmptyList

LEMMA AddReadCarries ==
    ASSUME TypeInv, NEW m \in Messages, NEW from, NEW to, AddRead(m, from, to),
           <<from, to>> \in {<<"add", "write">>, <<"run", "store">>}
    PROVE  \E q \in Chats, new \in Seq(Entries) :
              Carries(m, q, new) /\ (Ordered => Orderly(m, q, new))
<1>1. PICK list \in Fetched(chat[m].thread) :
              chat' = [chat EXCEPT ![m].pc = to, ![m].list = list]
  BY DEF AddRead
<1> DEFINE q == Listed(m, to, list)
<1>2. chat[m].pc = from /\ UNCHANGED <<portalVars, history, wipes, forgotten>>
  BY DEF AddRead, At
<1>a. /\ from \in {"add", "run"} /\ to \in {"write", "store"}
      /\ (from = "add" <=> to = "write") /\ (from = "run" <=> to = "store")
  OBVIOUS
<1>3. chat' = [chat EXCEPT ![m] = q]
  BY <1>1 DEF TypeInv, TypeOK, Listed
<1>4. chat[m] \in Chats /\ chat[m].thread \in Threads /\ ~At(m, "unsent") /\ chat[m].thread # None
  BY <1>2, <1>a, Records DEF At, Threads
<1>5. /\ list \in Seq(Entries) /\ MessagesIn(list) \subseteq MessagesIn(history[chat[m].thread])
      /\ Len(list) <= MaxHistory /\ (Ordered => InOrder(list) /\ \A n \in Messages : NotYet(n, list))
  BY <1>4, Stored
<1>6. q \in Chats
  BY <1>a, <1>5, Records DEF ChatSteps
<1>7. q.pc = to /\ q.session = chat[m].session /\ q.past = chat[m].past
      /\ q.thread = chat[m].thread /\ q.list = list /\ q.seen = chat[m].seen
  BY <1>4 DEF Chats, Listed
<1> HIDE DEF q
<1>8. Carries(m, q, list)
  <2>1. Put(m, q)
    BY <1>3, <1>6 DEF Put
  <2>2. history' \in {history, [history EXCEPT ![chat[m].thread] = list]}
    BY <1>2
  <2> QED BY <1>2, <1>4, <1>5, <1>7, <1>a, <2>1, <2>2 DEF Carries, portalVars
<1>9. Ordered => Orderly(m, q, list)
  <2>1. SUFFICES ASSUME Ordered PROVE Orderly(m, q, list)
    OBVIOUS
  <2>2. InOrder(list) /\ \A n \in Messages : NotYet(n, list)
    BY <1>5, <2>1
  <2>3. CASE from = "add"
    BY <1>2, <1>a, <1>7, <2>2, <2>3 DEF Orderly, Unwritten, NotYet
  <2>4. CASE from = "run"
    BY <1>2, <1>a, <1>7, <2>2, <2>4 DEF Orderly, Unwritten, NotYet
  <2> QED BY <1>a, <2>3, <2>4
<1> QED BY <1>5, <1>6, <1>8, <1>9

(* What is written back, when the entry may come after all that was read.  *)
LEMMA WriteOrderly ==
    ASSUME TypeInv, Ordered, NEW m \in Messages, NEW e \in Entries, e.msg = m,
           \/ chat[m].pc = "write" /\ e = Question(m)
           \/ chat[m].pc = "store" /\ e = Answer(m)
    PROVE  /\ InOrder(Longer(chat[m].list, e))
           /\ \A n \in Messages \ {m} : NotYet(n, Longer(chat[m].list, e))
           /\ e = Question(m) => Answer(m) \notin ToSet(Longer(chat[m].list, e))
<1> DEFINE list == chat[m].list
           new == Longer(list, e)
<1>1. list \in Seq(Entries) /\ InOrder(list) /\ \A n \in Messages : NotYet(n, list)
  BY Records DEF Ordered
<1>2. \A x \in ToSet(list) : x \in Entries
  BY <1>1, ListDomain DEF ToSet
<1>3. ToSet(new) \subseteq ToSet(list) \cup {e} /\ MessagesIn(new) \subseteq MessagesIn(list) \cup {m}
  BY <1>1, LongerHolds, LongerMessages
<1> HIDE DEF list, new
<1>4. ASSUME NEW x \in ToSet(list) PROVE x # e /\ (x.msg = e.msg => x.role = "user")
  <2>1. CASE chat[m].pc = "write"
    <3>1. x.msg \in MessagesIn(list) /\ m \notin MessagesIn(list)
      BY <1>1, <2>1 DEF MessagesIn, NotYet
    <3> QED BY <3>1
  <2>2. CASE chat[m].pc = "store"
    <3>1. Answer(m) \notin ToSet(list) /\ e = Answer(m)
      BY <1>1, <2>2 DEF NotYet
    <3>2. x \in Entries /\ x # Answer(m)
      BY <1>2, <3>1
    <3>3. x.msg = m => x.role = "user"
      BY <3>2 DEF Entries, Answer
    <3> QED BY <3>1, <3>3
  <2> QED BY <2>1, <2>2
<1>5. InOrder(new)
  BY <1>1, <1>4, LongerInOrder DEF new
<1>6. ASSUME NEW n \in Messages \ {m} PROVE NotYet(n, new)
  <2>1. n # m /\ Answer(n) # e /\ NotYet(n, list)
    BY <1>1, EntriesMade
  <2> QED BY <1>3, <2>1 DEF NotYet
<1>7. e = Question(m) => Answer(m) \notin ToSet(new)
  <2>1. SUFFICES ASSUME e = Question(m) PROVE Answer(m) \notin ToSet(new)
    OBVIOUS
  <2>2. chat[m].pc = "write" /\ Answer(m) # e /\ Answer(m).msg = m
    BY <2>1, EntriesMade
  <2>3. m \notin MessagesIn(list)
    BY <1>1, <2>2 DEF NotYet
  <2>4. Answer(m) \notin ToSet(list)
    BY <2>2, <2>3 DEF MessagesIn
  <2> QED BY <1>3, <2>2, <2>4
<1> QED BY <1>5, <1>6, <1>7 DEF list, new

LEMMA WriteStep ==
    ASSUME TypeInv, NEW m \in Messages, NEW e \in Entries, e.msg = m,
           chat[m].thread \in Threads, StoreSet(chat[m].thread, Trim(Append(chat[m].list, e)))
    PROVE  LET new == Longer(chat[m].list, e)
           IN  /\ new \in Seq(Entries) /\ Len(new) <= MaxHistory
               /\ MessagesIn(new) \subseteq MessagesIn(chat[m].list) \cup {m}
               /\ history' \in {history, [history EXCEPT ![chat[m].thread] = new]}
<1>1. chat[m].list \in Seq(Entries)
  BY Records
<1>2. history' \in {history, [history EXCEPT ![chat[m].thread] = Longer(chat[m].list, e)]}
  BY DEF StoreSet, Longer
<1> QED BY <1>1, <1>2, LongerAt, LongerMessages

LEMMA WriteQuestionCarries ==
    ASSUME TypeInv, NEW m \in Messages, AddWrite(m, Question(m), "write", "run")
    PROVE  \E q \in Chats, new \in Seq(Entries) :
              Carries(m, q, new) /\ (Ordered => Orderly(m, q, new))
<1> DEFINE e == Question(m)
           new == Longer(chat[m].list, e)
           q == Listed(m, "run", <<>>)
<1>1. chat[m].pc = "write" /\ StoreSet(chat[m].thread, Trim(Append(chat[m].list, e)))
      /\ chat' = [chat EXCEPT ![m].pc = "run", ![m].list = <<>>]
      /\ UNCHANGED <<portalVars, wipes, forgotten>>
  BY DEF AddWrite, At
<1>2. chat' = [chat EXCEPT ![m] = q]
  BY <1>1 DEF TypeInv, TypeOK, Listed
<1>3. chat[m] \in Chats /\ chat[m].thread \in Threads /\ ~At(m, "unsent") /\ chat[m].thread # None
  BY <1>1, Records DEF At, Threads
<1>4. e \in Entries /\ e.msg = m
  BY EntriesMade
<1>5. q \in Chats
  BY Records, EmptyList DEF ChatSteps
<1>6. q.pc = "run" /\ q.session = chat[m].session /\ q.past = chat[m].past
      /\ q.thread = chat[m].thread /\ q.list = <<>> /\ q.seen = chat[m].seen
  BY <1>3 DEF Chats, Listed
<1>7. /\ new \in Seq(Entries) /\ Len(new) <= MaxHistory
      /\ MessagesIn(new) \subseteq MessagesIn(chat[m].list) \cup {m}
      /\ history' \in {history, [history EXCEPT ![chat[m].thread] = new]}
  BY <1>1, <1>3, <1>4, WriteStep
<1>8. Ordered => InOrder(new) /\ (\A n \in Messages \ {m} : NotYet(n, new)) /\ Answer(m) \notin ToSet(new)
  BY <1>1, <1>4, WriteOrderly
<1> HIDE DEF e, new, q
<1>9. Carries(m, q, new)
  <2>1. Put(m, q)
    BY <1>2, <1>5 DEF Put
  <2> QED BY <1>1, <1>3, <1>6, <1>7, <2>1 DEF Carries, portalVars
<1>10. Ordered => Orderly(m, q, new)
  BY <1>1, <1>6, <1>8 DEF Orderly, Unwritten
<1> QED BY <1>5, <1>7, <1>9, <1>10

LEMMA WriteAnswerCarries ==
    ASSUME TypeInv, NEW m \in Messages, AddWrite(m, Answer(m), "store", "done")
    PROVE  \E q \in Chats, new \in Seq(Entries) :
              Carries(m, q, new) /\ (Ordered => Orderly(m, q, new))
<1> DEFINE e == Answer(m)
           new == Longer(chat[m].list, e)
<1>1. chat[m].pc = "store" /\ StoreSet(chat[m].thread, Trim(Append(chat[m].list, e)))
      /\ End(m) /\ UNCHANGED <<portalVars, wipes, forgotten>>
  BY DEF AddWrite, At
<1>2. chat[m].thread \in Threads /\ ~At(m, "unsent") /\ ~At(m, "done")
  BY <1>1, Records DEF At
<1>3. e \in Entries /\ e.msg = m
  BY EntriesMade
<1>4. /\ new \in Seq(Entries) /\ Len(new) <= MaxHistory
      /\ MessagesIn(new) \subseteq MessagesIn(chat[m].list) \cup {m}
      /\ history' \in {history, [history EXCEPT ![chat[m].thread] = new]}
  BY <1>1, <1>2, <1>3, WriteStep
<1>5. Ordered => InOrder(new) /\ (\A n \in Messages \ {m} : NotYet(n, new))
  BY <1>1, <1>3, WriteOrderly
<1> HIDE DEF e, new
<1>6. Carries(m, Ended(m), new) /\ (Ordered => Orderly(m, Ended(m), new))
  BY <1>1, <1>2, <1>4, <1>5, EndCarries
<1> QED BY <1>4, <1>6, Records

LEMMA StopCarries ==
    ASSUME TypeInv, NEW m \in Messages, Refuse(m) \/ StreamFails(m)
    PROVE  \E q \in Chats, new \in Seq(Entries) :
              Carries(m, q, new) /\ (Ordered => Orderly(m, q, new))
<1>1. ~At(m, "unsent") /\ ~At(m, "done") /\ End(m) /\ UNCHANGED <<portalVars, history, wipes, forgotten>>
  BY DEF Refuse, StreamFails, At
<1>2. history' \in {history, [history EXCEPT ![chat[m].thread] = <<>>]}
  BY <1>1
<1>3. <<>> \in Seq(Entries) /\ Len(<<>>) <= MaxHistory
      /\ MessagesIn(<<>>) \subseteq MessagesIn(chat[m].list) \cup {m}
  BY EmptyList
<1>4. UNCHANGED <<portalVars, wipes, forgotten>>
  BY <1>1
<1>5. Carries(m, Ended(m), <<>>) /\ Orderly(m, Ended(m), <<>>)
  BY <1>1, <1>2, <1>3, <1>4, EndCarries, EmptyOrderly
<1> QED BY <1>3, <1>5, Records

LEMMA ChatStepCarries ==
    ASSUME TypeInv, NEW m \in Messages, ChatStep(m)
    PROVE  \E q \in Chats, new \in Seq(Entries) :
              Carries(m, q, new) /\ (Ordered => Orderly(m, q, new))
<1>1. CASE StartStream(m)
  BY <1>1, StartStreamCarries, Records, EmptyList DEF Carries, Put
<1>2. CASE ReadHistory(m)
  BY <1>2, ReadHistoryCarries
<1>3. CASE Refuse(m) \/ StreamFails(m)
  BY <1>3, StopCarries
<1>4. CASE AddUserMessage(m)
  BY <1>4, AddReadCarries, WriteQuestionCarries DEF AddUserMessage
<1>5. CASE AddAssistantMessage(m)
  BY <1>5, AddReadCarries, WriteAnswerCarries DEF AddAssistantMessage
<1> QED BY <1>1, <1>2, <1>3, <1>4, <1>5 DEF ChatStep

-----------------------------------------------------------------------------
(* What such a step leaves true. *)

LEMMA CarriesFacts ==
    ASSUME TypeInv, NEW m \in Messages, NEW q \in Chats, NEW new \in Seq(Entries), Carries(m, q, new)
    PROVE  /\ chat' \in [Messages -> Chats] /\ chat'[m] = q
           /\ \A n \in Messages : n # m => chat'[n] = chat[n]
           /\ \A n \in Messages : chat'[n].session = chat[n].session
           /\ \A n \in Messages : chat'[n].pc = "unsent" <=> chat[n].pc = "unsent"
           /\ \A n \in Messages : chat'[n].pc = "portal" => chat'[n] = chat[n] /\ chat[n].pc = "portal"
           /\ \A n \in Messages : chat'[n].thread \in {chat[n].thread, None}
           /\ \A t \in Threads : history'[t] = history[t] \/ (t = chat[m].thread /\ history'[t] = new)
           /\ \A t \in Threads : history'[t] = history[t] \/ history'[t] = new
<1>1. chat \in [Messages -> Chats] /\ chat' = [chat EXCEPT ![m] = q]
      /\ history \in [Threads -> Seq(Entries)]
  BY DEF TypeInv, TypeOK, Carries, Put
<1>2. chat' \in [Messages -> Chats] /\ chat'[m] = q /\ \A n \in Messages : n # m => chat'[n] = chat[n]
  BY <1>1
<1>3. q.session = chat[m].session /\ q.pc \notin {"unsent", "portal"} /\ chat[m].pc # "unsent"
      /\ q.thread \in {chat[m].thread, None}
  BY DEF Carries, At
<1>4. history' \in {history, [history EXCEPT ![chat[m].thread] = new]}
  BY DEF Carries
<1>5. \A t \in Threads : history'[t] = history[t] \/ (t = chat[m].thread /\ history'[t] = new)
  BY <1>1, <1>4
<1> QED BY <1>2, <1>3, <1>5

LEMMA CarriesType ==
    ASSUME TypeInv, NEW m \in Messages, NEW q \in Chats, NEW new \in Seq(Entries), Carries(m, q, new)
    PROVE  TypeInv'
<1>1. /\ chat' \in [Messages -> Chats] /\ chat'[m] = q
      /\ \A n \in Messages : n # m => chat'[n] = chat[n]
  BY CarriesFacts
<1>2. saved' \in [Sessions -> Threads \cup {None}]
  <2>1. saved \in [Sessions -> Threads \cup {None}] /\ chat[m].thread \in Threads
    BY DEF TypeInv, TypeOK, Carries
  <2>2. saved' = saved \/ saved' = [saved EXCEPT ![chat[m].session] = chat[m].thread]
    BY DEF Carries
  <2> QED BY <2>1, <2>2
<1>3. history' \in [Threads -> Seq(Entries)] /\ \A t \in Threads : Len(history'[t]) <= MaxHistory
  <2>1. history \in [Threads -> Seq(Entries)] /\ (\A t \in Threads : Len(history[t]) <= MaxHistory)
        /\ Len(new) <= MaxHistory
        /\ history' \in {history, [history EXCEPT ![chat[m].thread] = new]}
    BY DEF TypeInv, TypeOK, Carries
  <2>2. \A t \in Threads : history'[t] = history[t] \/ history'[t] = new
    BY CarriesFacts
  <2> QED BY <2>1, <2>2
<1>4. UNCHANGED <<made, page, clearing, wipes, forgotten>>
  BY DEF Carries
<1>5. TypeOK'
  BY <1>1, <1>2, <1>3, <1>4 DEF TypeInv, TypeOK
<1>6. Routed'
  <2>1. q.pc \notin {"unsent", "portal"} /\ (q.pc = "done" <=> q.thread = None)
    BY DEF Carries
  <2> QED BY <1>1, <2>1 DEF TypeInv, Routed
<1> QED BY <1>5, <1>6 DEF TypeInv

LEMMA CarriesOrdered ==
    ASSUME TypeInv, Ordered, NEW m \in Messages, NEW q \in Chats, NEW new \in Seq(Entries),
           Carries(m, q, new), Orderly(m, q, new)
    PROVE  Ordered'
<1> DEFINE NotYetNext(n, list) ==
              /\ chat'[n].pc \in Unwritten => n \notin MessagesIn(list)
              /\ chat'[n].pc \in {"run", "store"} => Answer(n) \notin ToSet(list)
           Fine(list) == InOrder(list) /\ \A n \in Messages : NotYetNext(n, list)
<1>1. chat'[m] = q /\ \A n \in Messages : n # m => chat'[n] = chat[n]
  BY CarriesFacts
<1>2. /\ q.pc \in Unwritten => chat[m].pc \in Unwritten /\ m \notin MessagesIn(new)
      /\ q.pc \in {"run", "store"} =>
             chat[m].pc \in Unwritten \cup {"run", "store"} /\ Answer(m) \notin ToSet(new)
      /\ InOrder(new) /\ \A n \in Messages \ {m} : NotYet(n, new)
  BY DEF Orderly
<1>3. Fine(new)
  <2>1. ASSUME NEW n \in Messages, n # m PROVE NotYetNext(n, new)
    BY <1>1, <1>2, <2>1 DEF NotYet, Unwritten
  <2>2. NotYetNext(m, new)
    BY <1>1, <1>2
  <2> QED BY <1>2, <2>1, <2>2
<1>4. ASSUME NEW list, InOrder(list), \A n \in Messages : NotYet(n, list) PROVE Fine(list)
  <2>1. ASSUME NEW n \in Messages, n # m PROVE NotYetNext(n, list)
    BY <1>1, <1>4, <2>1 DEF NotYet, Unwritten
  <2>2. NotYetNext(m, list)
    <3>1. CASE chat[m].pc \in Unwritten
      <4>1. m \notin MessagesIn(list)
        BY <1>4, <3>1 DEF NotYet, Unwritten
      <4>2. Answer(m) \notin ToSet(list)
        BY <4>1, EntriesMade DEF MessagesIn
      <4> QED BY <4>1, <4>2
    <3>2. CASE chat[m].pc \notin Unwritten
      <4>1. chat'[m].pc \notin Unwritten
        BY <1>1, <1>2, <3>2
      <4>2. chat'[m].pc \in {"run", "store"} => chat[m].pc \in {"run", "store"}
        BY <1>1, <1>2, <3>2
      <4> QED BY <1>4, <4>1, <4>2 DEF NotYet
    <3> QED BY <3>1, <3>2
  <2> QED BY <1>4, <2>1, <2>2
<1>5. Fine(<<>>)
  BY <1>4, EmptyOrderly
<1> HIDE DEF Fine
<1>6. ASSUME NEW t \in Threads PROVE Fine(history'[t])
  <2>1. Fine(history[t])
    BY <1>4 DEF Ordered
  <2>2. history'[t] = history[t] \/ history'[t] = new
    BY CarriesFacts
  <2> QED BY <1>3, <2>1, <2>2
<1>7. ASSUME NEW n \in Messages PROVE Fine(chat'[n].list)
  <2>1. Fine(chat[n].list) /\ Fine(chat[m].list)
    BY <1>4 DEF Ordered
  <2>2. q.list \in {chat[m].list, new, <<>>}
    BY DEF Carries
  <2>3. CASE n = m
    BY <1>1, <1>3, <1>5, <2>1, <2>2, <2>3
  <2>4. CASE n # m
    BY <1>1, <2>1, <2>4
  <2> QED BY <2>3, <2>4
<1> QED BY <1>6, <1>7 DEF Fine, Ordered, NotYet, Unwritten

ThreadsInv == TypeInv /\ ThreadsOK /\ \A m \in Messages : ChatOK(m)

(* Within(t, S) in the next state, for a set S of this one. *)
WithinNext(t, S) ==
    /\ MessagesIn(history'[t]) \subseteq S
    /\ \A n \in Messages : chat'[n].thread = t => n \in S /\ MessagesIn(chat'[n].list) \subseteq S

LEMMA CarriesWithin ==
    ASSUME TypeInv, NEW m \in Messages, NEW q \in Chats, NEW new \in Seq(Entries), Carries(m, q, new),
           NEW t \in Threads, NEW S, Within(t, S)
    PROVE  WithinNext(t, S)
<1>1. /\ chat'[m] = q /\ \A n \in Messages : n # m => chat'[n] = chat[n]
      /\ history'[t] = history[t] \/ (t = chat[m].thread /\ history'[t] = new)
  BY CarriesFacts
<1>2. t # None
  BY DEF Threads
<1>3. MessagesIn(history[t]) \subseteq S
      /\ \A n \in Messages : chat[n].thread = t => n \in S /\ MessagesIn(chat[n].list) \subseteq S
  BY DEF Within
<1>4. t = chat[m].thread => MessagesIn(new) \subseteq S
  BY <1>3 DEF Carries
<1>5. MessagesIn(history'[t]) \subseteq S
  BY <1>1, <1>3, <1>4
<1>6. q.thread = t => m \in S /\ MessagesIn(q.list) \subseteq S
  <2>1. q.thread \in {chat[m].thread, None} /\ q.list \in {chat[m].list, new, <<>>}
    BY DEF Carries
  <2>2. q.thread = t => chat[m].thread = t
    BY <1>2, <2>1
  <2> QED BY <1>3, <1>4, <2>1, <2>2, EmptyList
<1>7. ASSUME NEW n \in Messages, chat'[n].thread = t PROVE n \in S /\ MessagesIn(chat'[n].list) \subseteq S
  BY <1>1, <1>3, <1>6, <1>7
<1> QED BY <1>5, <1>7 DEF WithinNext

LEMMA CarriesThreads ==
    ASSUME ThreadsInv, NEW m \in Messages, NEW q \in Chats, NEW new \in Seq(Entries), Carries(m, q, new)
    PROVE  ThreadsOK'
<1>0. TypeInv
  BY DEF ThreadsInv
<1>1. /\ chat'[m] = q /\ \A n \in Messages : n # m => chat'[n] = chat[n]
      /\ \A n \in Messages : chat'[n].session = chat[n].session
      /\ \A n \in Messages : chat'[n].pc = "unsent" <=> chat[n].pc = "unsent"
      /\ \A n \in Messages : chat'[n].pc = "portal" => chat'[n] = chat[n] /\ chat[n].pc = "portal"
      /\ \A n \in Messages : chat'[n].thread \in {chat[n].thread, None}
  BY <1>0, CarriesFacts
<1>2. \A s \in Sessions : Said(s)' = Said(s)
  BY <1>1 DEF Said
<1>3. Sent' = Sent /\ UNCHANGED <<made, page, clearing, forgotten>>
  BY <1>1 DEF Sent, At, Carries
<1>4. ASSUME NEW s \in Sessions, NEW t \in Threads, saved'[s] = t
      PROVE  saved[s] = t \/ (m \in Said(s) /\ At(m, "portal") /\ chat[m].thread = t)
  <2>1. saved \in [Sessions -> Threads \cup {None}]
    BY <1>0 DEF TypeInv, TypeOK
  <2>2. \/ saved' = saved
        \/ At(m, "portal") /\ saved' = [saved EXCEPT ![chat[m].session] = chat[m].thread]
    BY DEF Carries
  <2> QED BY <1>4, <2>1, <2>2 DEF Said
<1>5. ASSUME NEW s \in Sessions, NEW t \in Threads
      PROVE  (Reachable(s, t)' => Reachable(s, t)) /\ (Held(s, t)' => Held(s, t))
  <2>1. t # None
    BY DEF Threads
  <2>2. saved'[s] = t => Reachable(s, t) /\ Held(s, t)
    BY <1>4 DEF Reachable, Held
  <2>3. page'[s] = t => Reachable(s, t) /\ Held(s, t)
    BY <1>3 DEF Reachable, Held
  <2>4. (\E n \in Said(s)' : chat'[n].pc = "portal" /\ chat'[n].thread = t) => Reachable(s, t)
    BY <1>1, <1>2 DEF Reachable, Said, At
  <2>5. (\E n \in Said(s)' : chat'[n].thread = t) => Held(s, t)
    BY <1>1, <1>2, <2>1 DEF Held, Said
  <2>6. Reachable(s, t)' => Reachable(s, t)
    BY <2>2, <2>3, <2>4 DEF Reachable, At
  <2>7. Held(s, t)' => Held(s, t)
    BY <2>2, <2>3, <2>5 DEF Held
  <2> QED BY <2>6, <2>7
<1>6. ASSUME NEW s \in Sessions, NEW t \in Threads, Reachable(s, t)'
      PROVE  Within(t, Said(s) \ forgotten)'
  <2>1. Within(t, Said(s) \ forgotten)
    BY <1>5, <1>6 DEF ThreadsInv, ThreadsOK
  <2>2. WithinNext(t, Said(s) \ forgotten)
    BY <1>0, <2>1, CarriesWithin
  <2> QED BY <1>2, <1>3, <2>2 DEF WithinNext, Within
<1>7. ASSUME NEW t \in Threads, t > made' PROVE Within(t, {})'
  <2>1. Within(t, {})
    BY <1>3, <1>7 DEF ThreadsInv, ThreadsOK
  <2>2. WithinNext(t, {})
    BY <1>0, <2>1, CarriesWithin
  <2> QED BY <2>2 DEF WithinNext, Within
<1>8. \A s \in Sessions, t \in Threads : Held(s, t)' => t <= made'
  BY <1>3, <1>5 DEF ThreadsInv, ThreadsOK
<1>9. \A s, other \in Sessions, t \in Threads : Held(s, t)' /\ Held(other, t)' => s = other
  BY <1>5 DEF ThreadsInv, ThreadsOK
<1>10. forgotten' \subseteq Sent'
  BY <1>3 DEF ThreadsInv, ThreadsOK
<1>11. ASSUME NEW s \in Sessions, clearing'[s].busy, clearing'[s].alone PROVE ~Overlapped(s)'
  <2>1. ~Overlapped(s)
    BY <1>3, <1>11 DEF ThreadsInv, ThreadsOK
  <2> QED BY <1>1, <1>2, <1>3, <2>1 DEF Overlapped, Said, At
<1> QED BY <1>6, <1>7, <1>8, <1>9, <1>10, <1>11 DEF ThreadsOK

LEMMA CarriesChat ==
    ASSUME ThreadsInv, NEW m \in Messages, NEW q \in Chats, NEW new \in Seq(Entries), Carries(m, q, new),
           NEW n \in Messages
    PROVE  ChatOK(n)'
<1>0. TypeInv /\ ChatOK(n) /\ ChatOK(m)
  BY DEF ThreadsInv
<1>1. /\ chat'[m] = q /\ (n # m => chat'[n] = chat[n])
      /\ \A i \in Messages : chat'[i].session = chat[i].session
      /\ \A i \in Messages : chat'[i].pc = "unsent" <=> chat[i].pc = "unsent"
      /\ \A i \in Messages : chat'[i].thread \in {chat[i].thread, None}
      /\ chat' \in [Messages -> Chats]
  BY <1>0, CarriesFacts
<1>2. \A s \in Sessions : Said(s)' = Said(s)
  BY <1>1 DEF Said
<1>a. Sent' = Sent
  BY <1>1 DEF Sent, At
<1>b. /\ q.session = chat[m].session /\ q.past \subseteq chat[m].past /\ chat[m].pc # "unsent"
      /\ q.pc # "unsent" /\ chat[m].thread \in Threads /\ chat[m].thread # None
      /\ q.seen = chat[m].seen \/ MessagesIn(q.seen) \subseteq MessagesIn(history[chat[m].thread])
  BY DEF Carries, At, Threads
<1>3. Said(chat[n].session)' = Said(chat[n].session)
  BY <1>1 DEF Said
<1>4. chat'[n].past \subseteq chat[n].past
  BY <1>1, <1>b
<1>5. TypeInv'
  BY <1>0, CarriesType
<1>6. chat'[n].thread # None =>
         WithinNext(chat'[n].thread, Said(chat[n].session) \ chat[n].past)
  <2>1. SUFFICES ASSUME chat'[n].thread # None
                 PROVE  WithinNext(chat[n].thread, Said(chat[n].session) \ chat[n].past)
    BY <1>1
  <2>2. chat[n].thread # None /\ chat[n].thread \in Threads
    BY <1>0, <1>1, <2>1 DEF TypeInv, TypeOK, Chats
  <2>3. Within(chat[n].thread, Said(chat[n].session) \ chat[n].past)
    BY <1>0, <2>2 DEF ChatOK
  <2> QED BY <1>0, <2>2, <2>3, CarriesWithin
<1>7. chat'[n].thread # None => Within(chat[n].thread, Said(chat[n].session) \ chat[n].past)'
  <2>1. SUFFICES ASSUME chat'[n].thread # None
                 PROVE  Within(chat[n].thread, Said(chat[n].session) \ chat[n].past)'
    OBVIOUS
  <2>2. WithinNext(chat'[n].thread, Said(chat[n].session) \ chat[n].past)
    BY <1>6, <2>1
  <2>3. Said(chat[n].session) \ chat[n].past \subseteq (Said(chat[n].session) \ chat[n].past)'
    BY <1>1, <1>3, <1>4 DEF Said
  <2> QED BY <2>2, <2>3 DEF WithinNext, Within
<1>8. MessagesIn(chat'[n].seen) \subseteq Said(chat[n].session) \ chat[n].past
  <2>1. CASE n # m \/ q.seen = chat[m].seen
    <3>1. chat'[n].seen = chat[n].seen
      BY <1>1, <2>1
    <3> QED BY <1>0, <3>1 DEF ChatOK
  <2>2. CASE n = m /\ MessagesIn(q.seen) \subseteq MessagesIn(history[chat[m].thread])
    <3>1. MessagesIn(history[chat[m].thread]) \subseteq Said(chat[m].session) \ chat[m].past
      BY <1>0, <1>b DEF ChatOK, Within
    <3> QED BY <1>1, <2>2, <3>1
  <2> QED BY <1>b, <2>1, <2>2
<1>9. (MessagesIn(chat[n].seen) \subseteq Said(chat[n].session) \ chat[n].past)'
  BY <1>1, <1>4, <1>8 DEF Said
<1>10. /\ (At(n, "unsent") => chat[n].session = None /\ chat[n].list = <<>> /\ chat[n].seen = <<>>)'
       /\ (~At(n, "unsent") => chat[n].session \in Sessions)'
       /\ (chat[n].past \subseteq Sent)'
  BY <1>0, <1>1, <1>a, <1>b, <1>4 DEF ChatOK, At
<1>11. (chat[n].pc \in {"unsent", "done"} <=> chat[n].thread = None)'
  BY <1>5 DEF TypeInv, Routed
<1> QED BY <1>7, <1>9, <1>10, <1>11 DEF ChatOK

-----------------------------------------------------------------------------
(* The steps that leave every request as it is and at most empty a list. *)

Still == /\ chat' = chat /\ history' \in [Threads -> Seq(Entries)]
         /\ \A t \in Threads : history'[t] \in {history[t], <<>>}

LEMMA StillWithin ==
    ASSUME Still, NEW t \in Threads, NEW S, Within(t, S)
    PROVE  WithinNext(t, S)
BY EmptyList DEF Still, Within, WithinNext

LEMMA StillSaid ==
    ASSUME Still
    PROVE  Sent' = Sent /\ \A s : Said(s)' = Said(s)
BY DEF Still, Sent, Said, At

LEMMA StillChat ==
    ASSUME ThreadsInv, Still, NEW n \in Messages
    PROVE  ChatOK(n)'
<1>1. ChatOK(n) /\ chat' = chat /\ chat[n] \in Chats
  BY DEF ThreadsInv, TypeInv, TypeOK, Still
<1>2. Sent' = Sent /\ Said(chat[n].session)' = Said(chat[n].session)
  BY <1>1 DEF Sent, Said, At
<1>3. chat[n].thread # None => WithinNext(chat[n].thread, Said(chat[n].session) \ chat[n].past)
  <2>1. SUFFICES ASSUME chat[n].thread # None
                 PROVE  WithinNext(chat[n].thread, Said(chat[n].session) \ chat[n].past)
    OBVIOUS
  <2>2. chat[n].thread \in Threads /\ Within(chat[n].thread, Said(chat[n].session) \ chat[n].past)
    BY <1>1, <2>1 DEF ChatOK, Chats
  <2> QED BY <2>2, StillWithin
<1>4. chat'[n].thread # None => Within(chat[n].thread, Said(chat[n].session) \ chat[n].past)'
  BY <1>1, <1>2, <1>3 DEF WithinNext, Within
<1> QED BY <1>1, <1>2, <1>4 DEF ChatOK, At

LEMMA StillOrdered ==
    ASSUME Ordered, Still
    PROVE  Ordered'
<1>1. ASSUME NEW t \in Threads PROVE InOrder(history'[t]) /\ \A m \in Messages : NotYet(m, history'[t])
  <2>1. history'[t] = history[t] \/ history'[t] = <<>>
    BY DEF Still
  <2>2. CASE history'[t] = history[t]
    BY <2>2 DEF Ordered
  <2>3. CASE history'[t] = <<>>
    BY <2>3, EmptyOrderly
  <2> QED BY <2>1, <2>2, <2>3
<1> QED BY <1>1 DEF Ordered, NotYet, Still

(* Enough for ThreadsOK: no thread is newly within reach of a session. *)
LEMMA StillThreads ==
    ASSUME ThreadsInv, Still, made' = made, forgotten' \subseteq Sent,
           \A s \in Sessions, t \in Threads :
              (Held(s, t)' => Held(s, t)) /\ (Reachable(s, t)' => Reachable(s, t)),
           \A s \in Sessions, t \in Threads :
              Reachable(s, t)' => Said(s) \ forgotten \subseteq Said(s) \ forgotten',
           \A s \in Sessions : clearing'[s].busy /\ clearing'[s].alone => ~Overlapped(s)'
    PROVE  ThreadsOK'
<1>1. Sent' = Sent /\ \A s : Said(s)' = Said(s)
  BY StillSaid
<1>2. ASSUME NEW s \in Sessions, NEW t \in Threads, Reachable(s, t)'
      PROVE  Within(t, Said(s) \ forgotten)'
  <2>1. Within(t, Said(s) \ forgotten)
    BY <1>2 DEF ThreadsInv, ThreadsOK
  <2>2. WithinNext(t, Said(s) \ forgotten)
    BY <2>1, StillWithin
  <2>3. Said(s) \ forgotten \subseteq Said(s)' \ forgotten'
    BY <1>1, <1>2
  <2> QED BY <2>2, <2>3 DEF WithinNext, Within
<1>3. ASSUME NEW t \in Threads, t > made' PROVE Within(t, {})'
  <2>1. Within(t, {})
    BY <1>3 DEF ThreadsInv, ThreadsOK
  <2>2. WithinNext(t, {})
    BY <2>1, StillWithin
  <2> QED BY <2>2 DEF WithinNext, Within
<1>4. (\A s \in Sessions, t \in Threads : Held(s, t)' => t <= made')
      /\ \A s, other \in Sessions, t \in Threads : Held(s, t)' /\ Held(other, t)' => s = other
  BY DEF ThreadsInv, ThreadsOK
<1> QED BY <1>1, <1>2, <1>3, <1>4 DEF ThreadsOK

LEMMA OpenPageThreads ==
    ASSUME ThreadsInv, NEW s \in Sessions, OpenPage(s)
    PROVE  ThreadsInv' /\ (Ordered => Ordered')
<1>1. /\ page' = [page EXCEPT ![s] = saved[s]] /\ page[s] = Idle
      /\ clearing' = [clearing EXCEPT ![s].alone = FALSE]
      /\ UNCHANGED <<saved, made, history, chat, wipes, forgotten>>
  BY DEF OpenPage
<1>2. TypeInv /\ TypeOK
  BY DEF ThreadsInv, TypeInv
<1>3. Still
  BY <1>1, <1>2 DEF Still, TypeOK
<1>4. TypeInv'
  BY <1>1, <1>2 DEF TypeInv, TypeOK, Routed
<1>5. \A r \in Sessions : page'[r] = IF r = s THEN saved[s] ELSE page[r]
  BY <1>1, <1>2 DEF TypeOK
<1>6. \A r \in Sessions, t \in Threads :
         (Held(r, t)' => Held(r, t)) /\ (Reachable(r, t)' => Reachable(r, t))
  BY <1>1, <1>5 DEF Held, Reachable, Said, At
<1>7. \A r \in Sessions : clearing'[r].busy /\ clearing'[r].alone => r # s /\ clearing[r].busy /\ clearing[r].alone
  BY <1>1, <1>2 DEF TypeOK
<1>8. \A r \in Sessions : r # s => (Overlapped(r)' <=> Overlapped(r))
  BY <1>1, <1>5 DEF Overlapped, Said, At
<1>9. \A r \in Sessions : clearing'[r].busy /\ clearing'[r].alone => ~Overlapped(r)'
  BY <1>7, <1>8 DEF ThreadsInv, ThreadsOK
<1>10. made' = made /\ forgotten' = forgotten /\ forgotten \subseteq Sent
  BY <1>1 DEF ThreadsInv, ThreadsOK
<1>11. ThreadsOK'
  BY <1>3, <1>6, <1>9, <1>10, StillThreads
<1> QED BY <1>3, <1>4, <1>11, StillChat, StillOrdered DEF ThreadsInv

LEMMA PageDoneThreads ==
    ASSUME ThreadsInv, NEW s \in Sessions, PageDone(s)
    PROVE  ThreadsInv' /\ (Ordered => Ordered')
<1>1. /\ saved' = [saved EXCEPT ![s] = page[s]] /\ page' = [page EXCEPT ![s] = Idle]
      /\ page[s] # Idle
      /\ UNCHANGED <<made, clearing, history, chat, wipes, forgotten>>
  BY DEF PageDone
<1>2. TypeInv /\ TypeOK
  BY DEF ThreadsInv, TypeInv
<1>3. Still
  BY <1>1, <1>2 DEF Still, TypeOK
<1>a. page[s] \in Threads \cup {None}
  BY <1>1, <1>2 DEF TypeOK
<1>b. saved' \in [Sessions -> Threads \cup {None}] /\ page' \in [Sessions -> Threads \cup {None, Idle}]
  BY <1>1, <1>2, <1>a DEF TypeOK
<1>4. TypeInv'
  BY <1>1, <1>2, <1>b DEF TypeInv, TypeOK, Routed
<1>5. \A r \in Sessions : /\ page'[r] = IF r = s THEN Idle ELSE page[r]
                          /\ saved'[r] = IF r = s THEN page[s] ELSE saved[r]
  BY <1>1, <1>2 DEF TypeOK
<1>c. \A t \in Threads : t # Idle
  BY DEF Threads, Idle
<1>6. \A r \in Sessions, t \in Threads :
         (Held(r, t)' => Held(r, t)) /\ (Reachable(r, t)' => Reachable(r, t))
  BY <1>1, <1>5, <1>c DEF Held, Reachable, Said, At
<1>7. \A r \in Sessions : Overlapped(r)' => Overlapped(r)
  BY <1>1, <1>5 DEF Overlapped, Said, At
<1>8. \A r \in Sessions : clearing'[r].busy /\ clearing'[r].alone => ~Overlapped(r)'
  BY <1>1, <1>7 DEF ThreadsInv, ThreadsOK
<1>9. made' = made /\ forgotten' = forgotten /\ forgotten \subseteq Sent
  BY <1>1 DEF ThreadsInv, ThreadsOK
<1>10. ThreadsOK'
  BY <1>3, <1>6, <1>8, <1>9, StillThreads
<1> QED BY <1>3, <1>4, <1>10, StillChat, StillOrdered DEF ThreadsInv

LEMMA ClearChatThreads ==
    ASSUME ThreadsInv, NEW s \in Sessions, ClearChat(s)
    PROVE  ThreadsInv' /\ (Ordered => Ordered')
<1>1. /\ clearing' = [clearing EXCEPT ![s] = [busy |-> TRUE, alone |-> ~Overlapped(s)]]
      /\ wipes' = IF saved[s] = None THEN wipes ELSE wipes \cup {saved[s]}
      /\ UNCHANGED <<saved, made, page, history, chat, forgotten>>
  BY DEF ClearChat
<1>2. TypeInv /\ TypeOK
  BY DEF ThreadsInv, TypeInv
<1>3. Still
  BY <1>1, <1>2 DEF Still, TypeOK
<1>a. wipes' \subseteq Threads
  BY <1>1, <1>2 DEF TypeOK
<1>c. [busy |-> TRUE, alone |-> ~Overlapped(s)] \in [busy : BOOLEAN, alone : BOOLEAN]
  OBVIOUS
<1>b. clearing' \in [Sessions -> [busy : BOOLEAN, alone : BOOLEAN]]
  BY <1>1, <1>2, <1>c DEF TypeOK
<1>4. TypeInv'
  BY <1>1, <1>2, <1>a, <1>b DEF TypeInv, TypeOK, Routed
<1>5. \A r \in Sessions, t \in Threads :
         (Held(r, t)' => Held(r, t)) /\ (Reachable(r, t)' => Reachable(r, t))
  BY <1>1 DEF Held, Reachable, Said, At
<1>6. \A r \in Sessions : Overlapped(r)' => Overlapped(r)
  BY <1>1 DEF Overlapped, Said, At
<1>7. ASSUME NEW r \in Sessions, clearing'[r].busy, clearing'[r].alone PROVE ~Overlapped(r)'
  <2>1. CASE r = s
    <3>1. clearing'[s] = [busy |-> TRUE, alone |-> ~Overlapped(s)]
      BY <1>1, <1>2 DEF TypeOK
    <3>2. clearing'[s].alone = ~Overlapped(s)
      BY <3>1
    <3> QED BY <1>6, <1>7, <2>1, <3>2
  <2>2. CASE r # s
    <3>1. clearing'[r] = clearing[r]
      BY <1>1, <1>2, <2>2 DEF TypeOK
    <3> QED BY <1>6, <1>7, <3>1 DEF ThreadsInv, ThreadsOK
  <2> QED BY <2>1, <2>2
<1>8. made' = made /\ forgotten' = forgotten /\ forgotten \subseteq Sent
  BY <1>1 DEF ThreadsInv, ThreadsOK
<1>9. ThreadsOK'
  BY <1>3, <1>5, <1>7, <1>8, StillThreads
<1> QED BY <1>3, <1>4, <1>9, StillChat, StillOrdered DEF ThreadsInv

(* The clear that matters: nothing of the session may still reach the thread *)
(* it had, so forgetting all it said leaves every reachable thread clean.    *)
LEMMA ClearChatDoneThreads ==
    ASSUME ThreadsInv, NEW s \in Sessions, ClearChatDone(s)
    PROVE  ThreadsInv' /\ (Ordered => Ordered')
<1>1. /\ clearing[s].busy /\ saved' = [saved EXCEPT ![s] = None]
      /\ forgotten' = IF clearing[s].alone THEN forgotten \cup Said(s) ELSE forgotten
      /\ clearing' = [clearing EXCEPT ![s] = NoClear]
      /\ UNCHANGED <<made, page, history, chat, wipes>>
  BY DEF ClearChatDone
<1>2. TypeInv /\ TypeOK
  BY DEF ThreadsInv, TypeInv
<1>3. Still
  BY <1>1, <1>2 DEF Still, TypeOK
<1>a. saved' \in [Sessions -> Threads \cup {None}]
      /\ clearing' \in [Sessions -> [busy : BOOLEAN, alone : BOOLEAN]] /\ forgotten' \subseteq Messages
  BY <1>1, <1>2 DEF TypeOK, NoClear, Said
<1>4. TypeInv'
  BY <1>1, <1>2, <1>a DEF TypeInv, TypeOK, Routed
<1>5. \A r \in Sessions : saved'[r] = IF r = s THEN None ELSE saved[r]
  BY <1>1, <1>2 DEF TypeOK
<1>b. \A t \in Threads : t # None /\ t # Idle
  BY DEF Threads, Idle
<1>6. \A r \in Sessions, t \in Threads :
         (Held(r, t)' => Held(r, t)) /\ (Reachable(r, t)' => Reachable(r, t))
  BY <1>1, <1>5, <1>b DEF Held, Reachable, Said, At
<1>7. ASSUME NEW r \in Sessions, NEW t \in Threads, Reachable(r, t)'
      PROVE  Said(r) \ forgotten \subseteq Said(r) \ forgotten'
  <2>1. CASE clearing[s].alone /\ r = s
    <3>1. ~Overlapped(s)
      BY <1>1, <2>1 DEF ThreadsInv, ThreadsOK
    <3>2. ~Reachable(s, t)'
      BY <1>1, <1>5, <1>b, <3>1 DEF Reachable, Overlapped, Said, At
    <3> QED BY <1>7, <2>1, <3>2
  <2>2. CASE r # s
    BY <1>1, <2>2 DEF Said
  <2>3. CASE ~clearing[s].alone
    BY <1>1, <2>3
  <2> QED BY <2>1, <2>2, <2>3
<1>8. \A r \in Sessions : Overlapped(r)' => Overlapped(r)
  BY <1>1 DEF Overlapped, Said, At
<1>9. ASSUME NEW r \in Sessions, clearing'[r].busy, clearing'[r].alone PROVE ~Overlapped(r)'
  <2>1. r # s /\ clearing'[r] = clearing[r]
    BY <1>1, <1>2, <1>9 DEF TypeOK, NoClear
  <2> QED BY <1>8, <1>9, <2>1 DEF ThreadsInv, ThreadsOK
<1>10. Said(s) \subseteq Sent
  BY DEF ThreadsInv, ChatOK, Said, Sent
<1>11. made' = made /\ forgotten' \subseteq Sent
  BY <1>1, <1>10 DEF ThreadsInv, ThreadsOK
<1>12. ThreadsOK'
  BY <1>3, <1>6, <1>7, <1>9, <1>11, StillThreads
<1> QED BY <1>3, <1>4, <1>12, StillChat, StillOrdered DEF ThreadsInv

LEMMA EmptiedThreads ==
    ASSUME ThreadsInv, NEW t \in Threads, ClearThread(t) \/ ClearLost(t) \/ Expire(t)
    PROVE  ThreadsInv' /\ (Ordered => Ordered')
<1>1. /\ history' = history \/ history' = [history EXCEPT ![t] = <<>>]
      /\ wipes' \subseteq wipes
      /\ UNCHANGED <<saved, made, page, clearing, chat, forgotten>>
  BY DEF ClearThread, ClearLost, Expire, StoreSet, portalVars
<1>2. TypeInv /\ TypeOK
  BY DEF ThreadsInv, TypeInv
<1>3. history \in [Threads -> Seq(Entries)] /\ \A r \in Threads : Len(history[r]) <= MaxHistory
  BY <1>2 DEF TypeOK
<1>4. history' \in [Threads -> Seq(Entries)] /\ \A r \in Threads : history'[r] \in {history[r], <<>>}
  BY <1>1, <1>3, EmptyList
<1>5. Still
  BY <1>1, <1>4 DEF Still
<1>a. \A r \in Threads : Len(history'[r]) <= MaxHistory
  BY <1>3, <1>4, EmptyList
<1>6. TypeInv'
  BY <1>1, <1>2, <1>4, <1>a DEF TypeInv, TypeOK, Routed
<1>7. \A r \in Sessions, u \in Threads :
         (Held(r, u)' => Held(r, u)) /\ (Reachable(r, u)' => Reachable(r, u))
  BY <1>1 DEF Held, Reachable, Said, At
<1>8. \A r \in Sessions : clearing'[r].busy /\ clearing'[r].alone => ~Overlapped(r)'
  BY <1>1 DEF ThreadsInv, ThreadsOK, Overlapped, Said, At
<1>9. made' = made /\ forgotten' = forgotten /\ forgotten \subseteq Sent
  BY <1>1 DEF ThreadsInv, ThreadsOK
<1>10. ThreadsOK'
  BY <1>5, <1>7, <1>8, <1>9, StillThreads
<1> QED BY <1>5, <1>6, <1>10, StillChat, StillOrdered DEF ThreadsInv

-----------------------------------------------------------------------------
(* A new message is put into the session's thread, or into a new one. *)

Target(s) == IF saved[s] = None THEN made + 1 ELSE saved[s]

SendRecord(s, m) == [chat[m] EXCEPT !.pc = "portal", !.session = s, !.past = forgotten,
                                    !.thread = Target(s)]

LEMMA SendMessageFacts ==
    ASSUME ThreadsInv, NEW s \in Sessions, NEW m \in Messages, SendMessage(s, m)
    PROVE  /\ TypeInv' /\ Target(s) \in Threads
           /\ made' \in Nat /\ made <= made' /\ Target(s) <= made'
           /\ (saved[s] = None => Target(s) > made)
           /\ chat'[m] = SendRecord(s, m)
           /\ chat'[m].pc = "portal" /\ chat'[m].session = s /\ chat'[m].past = forgotten
           /\ chat'[m].thread = Target(s) /\ chat'[m].list = <<>> /\ chat'[m].seen = <<>>
           /\ \A n \in Messages : n # m => chat'[n] = chat[n]
           /\ chat[m].pc = "unsent" /\ chat[m].session = None /\ chat[m].thread = None
           /\ clearing' = [clearing EXCEPT ![s].alone = FALSE]
           /\ UNCHANGED <<saved, page, history, wipes, forgotten>>
<1>1. /\ chat[m].pc = "unsent"
      /\ saved[s] = None => made < MaxThreads
      /\ made' = IF saved[s] = None THEN made + 1 ELSE made
      /\ chat' = [chat EXCEPT ![m].pc = "portal", ![m].session = s, ![m].past = forgotten,
                              ![m].thread = IF saved[s] = None THEN made + 1 ELSE saved[s]]
      /\ clearing' = [clearing EXCEPT ![s].alone = FALSE]
      /\ UNCHANGED <<saved, page, history, wipes, forgotten>>
  BY DEF SendMessage, At
<1>2. TypeInv /\ TypeOK /\ ChatOK(m)
  BY DEF ThreadsInv, TypeInv
<1>3. made \in 0..MaxThreads /\ saved[s] \in Threads \cup {None} /\ forgotten \subseteq Messages
      /\ chat[m] \in Chats
  BY <1>2 DEF TypeOK
<1>4. chat' = [chat EXCEPT ![m] = SendRecord(s, m)]
  BY <1>1, <1>2 DEF TypeOK, SendRecord, Target
<1>5. saved[s] # None => saved[s] <= made
  BY <1>3 DEF ThreadsInv, ThreadsOK, Held
<1>6. /\ Target(s) \in Threads /\ made' \in 0..MaxThreads
      /\ made <= made' /\ Target(s) <= made' /\ (saved[s] = None => Target(s) > made)
  BY <1>1, <1>3, <1>5 DEF Target, Threads
<1>7. SendRecord(s, m) \in Chats
  BY <1>3, <1>6 DEF SendRecord, Chats, ChatSteps
<1>8. /\ SendRecord(s, m).pc = "portal" /\ SendRecord(s, m).session = s
      /\ SendRecord(s, m).past = forgotten /\ SendRecord(s, m).thread = Target(s)
      /\ SendRecord(s, m).list = chat[m].list /\ SendRecord(s, m).seen = chat[m].seen
  BY <1>3 DEF SendRecord, Chats
<1>9. chat[m].list = <<>> /\ chat[m].seen = <<>> /\ chat[m].session = None /\ chat[m].thread = None
  BY <1>1, <1>2 DEF ChatOK, At
<1>10. chat' \in [Messages -> Chats] /\ chat'[m] = SendRecord(s, m)
       /\ \A n \in Messages : n # m => chat'[n] = chat[n]
  BY <1>2, <1>4, <1>7 DEF TypeOK
<1>11. clearing' \in [Sessions -> [busy : BOOLEAN, alone : BOOLEAN]]
  BY <1>1, <1>2 DEF TypeOK
<1>12. TypeOK'
  BY <1>1, <1>2, <1>6, <1>10, <1>11 DEF TypeOK
<1>13. Routed'
  <2>1. Target(s) # None
    BY <1>6 DEF Threads
  <2> QED BY <1>2, <1>8, <1>10, <2>1 DEF TypeInv, Routed
<1>14. made' \in Nat
  BY <1>6
<1> QED BY <1>1, <1>6, <1>8, <1>9, <1>10, <1>12, <1>13, <1>14 DEF TypeInv

LEMMA SendMessageThreads ==
    ASSUME ThreadsInv, NEW s \in Sessions, NEW m \in Messages, SendMessage(s, m)
    PROVE  ThreadsInv'
<1> DEFINE th == Target(s)
<1>1. /\ TypeInv' /\ th \in Threads /\ th # None /\ th # Idle
      /\ made' \in Nat /\ made <= made' /\ th <= made' /\ (saved[s] = None => th > made)
      /\ chat'[m].pc = "portal" /\ chat'[m].session = s /\ chat'[m].past = forgotten
      /\ chat'[m].thread = th /\ chat'[m].list = <<>> /\ chat'[m].seen = <<>>
      /\ \A n \in Messages : n # m => chat'[n] = chat[n]
      /\ chat[m].pc = "unsent" /\ chat[m].session = None /\ chat[m].thread = None
      /\ clearing' = [clearing EXCEPT ![s].alone = FALSE]
      /\ UNCHANGED <<saved, page, history, wipes, forgotten>>
  BY SendMessageFacts DEF Threads, Idle
<1>2. saved[s] # None => saved[s] = th
  BY DEF Target
<1>0. TypeInv /\ TypeOK /\ made \in Nat /\ s # None
  BY DEF ThreadsInv, TypeInv, TypeOK
<1> HIDE DEF th
<1>3. Said(s)' = Said(s) \cup {m} /\ m \notin Said(s)
      /\ \A r \in Sessions : r # s => Said(r)' = Said(r)
  BY <1>0, <1>1 DEF Said
<1>4. Sent' = Sent \cup {m} /\ m \notin Sent
  BY <1>1 DEF Sent, At
<1>5. forgotten \subseteq Sent /\ m \notin forgotten
  BY <1>4 DEF ThreadsInv, ThreadsOK
<1>6. ASSUME NEW t \in Threads, NEW S, Within(t, S)
      PROVE  WithinNext(t, S \cup {m}) /\ (t # th => WithinNext(t, S))
  <2>1. MessagesIn(history'[t]) \subseteq S
    BY <1>1, <1>6 DEF Within
  <2>2. ASSUME NEW n \in Messages, n # m, chat'[n].thread = t
        PROVE  n \in S /\ MessagesIn(chat'[n].list) \subseteq S
    BY <1>1, <1>6, <2>2 DEF Within
  <2>3. MessagesIn(chat'[m].list) \subseteq S
    BY <1>1, EmptyList
  <2> QED BY <1>1, <2>1, <2>2, <2>3 DEF WithinNext
(* A thread made now is nobody's; one the session has is nobody else's. *)
<1>7. ASSUME NEW r \in Sessions, Held(r, th) PROVE saved[s] = th /\ r = s
  <2>1. th <= made
    BY <1>1, <1>7 DEF ThreadsInv, ThreadsOK
  <2>2. saved[s] = th
    BY <1>0, <1>1, <1>2, <2>1 DEF Threads
  <2>3. Held(s, th)
    BY <2>2 DEF Held
  <2> QED BY <1>1, <1>7, <2>2, <2>3 DEF ThreadsInv, ThreadsOK
<1>8. ASSUME NEW r \in Sessions, NEW t \in Threads
      PROVE  /\ Held(r, t)' => Held(r, t) \/ (r = s /\ t = th)
             /\ Reachable(r, t)' => Reachable(r, t) \/ (r = s /\ t = th)
  <2>1. UNCHANGED <<saved, page>>
    BY <1>1
  <2>2. ASSUME NEW n \in Said(r)', chat'[n].thread = t
        PROVE  (n \in Said(r) /\ chat'[n] = chat[n]) \/ (r = s /\ t = th)
    BY <1>1, <1>3, <2>2 DEF Said
  <2> QED BY <2>1, <2>2 DEF Held, Reachable, At
<1>9. ASSUME NEW r \in Sessions, NEW t \in Threads, Reachable(r, t)'
      PROVE  WithinNext(t, Said(r)' \ forgotten)
  <2>1. ASSUME Reachable(r, t) PROVE WithinNext(t, Said(r)' \ forgotten)
    <3>1. Within(t, Said(r) \ forgotten)
      BY <2>1 DEF ThreadsInv, ThreadsOK
    <3>2. CASE r = s
      <4>1. WithinNext(t, (Said(r) \ forgotten) \cup {m})
        BY <1>6, <3>1
      <4>2. (Said(r) \ forgotten) \cup {m} = Said(r)' \ forgotten
        BY <1>3, <1>5, <3>2
      <4> QED BY <4>1, <4>2
    <3>3. CASE r # s
      <4>1. t # th
        BY <1>7, <2>1, <3>3 DEF Held, Reachable
      <4> QED BY <1>3, <1>6, <3>1, <3>3, <4>1
    <3> QED BY <3>2, <3>3
  <2>2. ASSUME ~Reachable(r, t), r = s, t = th PROVE WithinNext(t, Said(r)' \ forgotten)
    <3>1. saved[s] # th
      BY <2>2 DEF Reachable
    <3>2. Within(th, {})
      BY <1>1, <1>2, <3>1 DEF ThreadsInv, ThreadsOK
    <3>3. WithinNext(th, {} \cup {m})
      BY <1>1, <1>6, <3>2
    <3>4. {} \cup {m} \subseteq Said(r)' \ forgotten
      BY <1>3, <1>5, <2>2
    <3> QED BY <2>2, <3>3, <3>4 DEF WithinNext
  <2> QED BY <1>8, <1>9, <2>1, <2>2
<1>10. ASSUME NEW t \in Threads, t > made' PROVE WithinNext(t, {})
  <2>1. t > made /\ t # th
    BY <1>0, <1>1, <1>10 DEF Threads
  <2>2. Within(t, {})
    BY <2>1 DEF ThreadsInv, ThreadsOK
  <2> QED BY <1>6, <2>1, <2>2
<1>11. \A r \in Sessions, t \in Threads : Held(r, t)' => t <= made'
  <2>1. ASSUME NEW r \in Sessions, NEW t \in Threads, Held(r, t) PROVE t <= made'
    <3>1. t <= made
      BY <2>1 DEF ThreadsInv, ThreadsOK
    <3> QED BY <1>0, <1>1, <3>1 DEF Threads
  <2> QED BY <1>1, <1>8, <2>1
<1>12. ASSUME NEW r \in Sessions, NEW other \in Sessions, NEW t \in Threads,
              Held(r, t)', Held(other, t)'
       PROVE  r = other
  <2>1. Held(r, t) /\ Held(other, t) => r = other
    BY DEF ThreadsInv, ThreadsOK
  <2>2. t = th /\ Held(r, t) => r = s
    BY <1>7
  <2>3. t = th /\ Held(other, t) => other = s
    BY <1>7
  <2> QED BY <1>8, <1>12, <2>1, <2>2, <2>3
<1>13. ASSUME NEW r \in Sessions, clearing'[r].busy, clearing'[r].alone PROVE ~Overlapped(r)'
  <2>1. r # s /\ clearing'[r] = clearing[r]
    BY <1>0, <1>1, <1>13 DEF TypeOK
  <2>2. ~Overlapped(r)
    BY <1>13, <2>1 DEF ThreadsInv, ThreadsOK
  <2>3. Said(r)' = Said(r) /\ m \notin Said(r)
    BY <1>0, <1>1, <1>3, <2>1 DEF Said
  <2> QED BY <1>1, <2>2, <2>3 DEF Overlapped, Said, At
<1>14. ThreadsOK'
  <2>1. \A r \in Sessions, t \in Threads : Reachable(r, t)' => Within(t, Said(r) \ forgotten)'
    BY <1>1, <1>9 DEF WithinNext, Within
  <2>2. \A t \in Threads : t > made' => Within(t, {})'
    BY <1>10 DEF WithinNext, Within
  <2>3. forgotten' \subseteq Sent'
    BY <1>1, <1>4, <1>5
  <2> QED BY <1>11, <1>12, <1>13, <2>1, <2>2, <2>3 DEF ThreadsOK
<1>15. ChatOK(m)'
  <2>1. ASSUME NEW t \in Threads, t = chat'[m].thread PROVE WithinNext(t, Said(s)' \ forgotten)
    <3>1. Reachable(s, t)'
      BY <1>1, <2>1 DEF Reachable, Said, At
    <3> QED BY <1>9, <3>1
  <2>2. WithinNext(chat'[m].thread, Said(s)' \ forgotten)
    BY <1>1, <2>1
  <2>3. Within(chat[m].thread, Said(chat[m].session) \ chat[m].past)'
    BY <1>1, <2>2 DEF WithinNext, Within, Said
  <2>4. (MessagesIn(chat[m].seen) \subseteq Said(chat[m].session) \ chat[m].past)'
    BY <1>1, EmptyList
  <2>5. (chat[m].past \subseteq Sent)'
    BY <1>1, <1>4, <1>5
  <2> QED BY <1>1, <2>3, <2>4, <2>5 DEF ChatOK, At
<1>16. ASSUME NEW n \in Messages, n # m PROVE ChatOK(n)'
  <2>1. ChatOK(n) /\ chat'[n] = chat[n] /\ chat[n] \in Chats
    BY <1>0, <1>1, <1>16 DEF ThreadsInv, TypeOK
  <2>2. chat[n].past \subseteq Sent /\ m \notin chat[n].past
    BY <1>4, <2>1 DEF ChatOK
  <2>3. ~At(n, "unsent") => Said(chat[n].session) \subseteq Said(chat[n].session)'
    BY <1>1, <2>1 DEF Said, ChatOK, At
  <2>a. chat[n].thread # None => ~At(n, "unsent")
    BY <2>1 DEF ChatOK, At
  <2>4. ASSUME chat[n].thread # None PROVE WithinNext(chat[n].thread, Said(chat[n].session)' \ chat[n].past)
    <3>1. chat[n].thread \in Threads /\ Within(chat[n].thread, Said(chat[n].session) \ chat[n].past)
      BY <2>1, <2>4 DEF ChatOK, Chats
    <3>2. CASE chat[n].thread # th
      <4>1. WithinNext(chat[n].thread, Said(chat[n].session) \ chat[n].past)
        BY <1>6, <3>1, <3>2
      <4> QED BY <2>3, <2>4, <2>a, <4>1 DEF WithinNext
    <3>3. CASE chat[n].thread = th
      <4>1. chat[n].session \in Sessions
        BY <2>1, <2>4 DEF ChatOK, At
      <4>2. Held(chat[n].session, th)
        BY <3>3 DEF Held, Said
      <4>3. chat[n].session = s
        BY <1>7, <4>1, <4>2
      <4>4. WithinNext(chat[n].thread, (Said(s) \ chat[n].past) \cup {m})
        BY <1>6, <3>1, <4>3
      <4>5. (Said(s) \ chat[n].past) \cup {m} \subseteq Said(chat[n].session)' \ chat[n].past
        BY <1>3, <2>1, <2>2, <4>3 DEF Said
      <4> QED BY <4>4, <4>5 DEF WithinNext
    <3> QED BY <3>2, <3>3
  <2>5. chat'[n].thread # None => Within(chat[n].thread, Said(chat[n].session) \ chat[n].past)'
    BY <2>1, <2>4 DEF WithinNext, Within, Said
  <2>6. (MessagesIn(chat[n].seen) \subseteq Said(chat[n].session) \ chat[n].past)'
    BY <2>1, <2>3, EmptyList DEF ChatOK, Said
  <2>7. (chat[n].past \subseteq Sent)'
    BY <1>4, <2>1, <2>2
  <2> QED BY <2>1, <2>5, <2>6, <2>7 DEF ChatOK, At
<1> QED BY <1>1, <1>14, <1>15, <1>16 DEF ThreadsInv

LEMMA SendMessageOrdered ==
    ASSUME ThreadsInv, Ordered, NEW s \in Sessions, NEW m \in Messages, SendMessage(s, m)
    PROVE  Ordered'
<1>1. /\ chat[m].pc = "unsent" /\ chat'[m].pc = "portal" /\ chat'[m].list = <<>> /\ history' = history
      /\ \A n \in Messages : n # m => chat'[n] = chat[n]
  BY SendMessageFacts
<1>2. ASSUME NEW list, \A n \in Messages : NotYet(n, list)
      PROVE  \A n \in Messages :
                /\ chat'[n].pc \in Unwritten => n \notin MessagesIn(list)
                /\ chat'[n].pc \in {"run", "store"} => Answer(n) \notin ToSet(list)
  BY <1>1, <1>2 DEF NotYet, Unwritten
<1>3. \A t \in Threads : InOrder(history'[t]) /\ \A n \in Messages :
                /\ chat'[n].pc \in Unwritten => n \notin MessagesIn(history'[t])
                /\ chat'[n].pc \in {"run", "store"} => Answer(n) \notin ToSet(history'[t])
  BY <1>1, <1>2 DEF Ordered
<1>4. ASSUME NEW i \in Messages
      PROVE  InOrder(chat'[i].list) /\ \A n \in Messages :
                /\ chat'[n].pc \in Unwritten => n \notin MessagesIn(chat'[i].list)
                /\ chat'[n].pc \in {"run", "store"} => Answer(n) \notin ToSet(chat'[i].list)
  <2>1. CASE i = m
    BY <1>1, <2>1, EmptyList
  <2>2. CASE i # m
    BY <1>1, <1>2, <2>2 DEF Ordered
  <2> QED BY <2>1, <2>2
<1> QED BY <1>3, <1>4 DEF Ordered, NotYet, Unwritten

-----------------------------------------------------------------------------

LEMMA InvInit == Init => ThreadsInv /\ Ordered
<1>1. SUFFICES ASSUME Init PROVE ThreadsInv /\ Ordered
  OBVIOUS
<1>2. /\ saved = [s \in Sessions |-> None] /\ made = 0 /\ page = [s \in Sessions |-> Idle]
      /\ history = [t \in Threads |-> <<>>] /\ chat = [m \in Messages |-> NoChat]
      /\ clearing = [s \in Sessions |-> NoClear] /\ wipes = {} /\ forgotten = {}
  BY <1>1 DEF Init
<1>3. NoChat \in Chats /\ NoChat.pc = "unsent" /\ NoChat.session = None /\ NoChat.thread = None
      /\ NoChat.list = <<>> /\ NoChat.seen = <<>> /\ NoChat.past = {}
  BY EmptyList DEF NoChat, Chats, ChatSteps
<1>4. NoClear \in [busy : BOOLEAN, alone : BOOLEAN] /\ ~NoClear.busy
  BY DEF NoClear
<1>5. \A m \in Messages : chat[m] = NoChat
  BY <1>2
<1>6. \A s \in Sessions : saved[s] = None /\ page[s] = Idle /\ clearing[s] = NoClear
  BY <1>2
<1>7. \A t \in Threads : history[t] = <<>> /\ t # None /\ t # Idle
  BY <1>2 DEF Threads, Idle
<1>8. TypeOK
  BY <1>2, <1>3, <1>4, <1>5, <1>7, EmptyList DEF TypeOK
<1>9. \A s \in Sessions, t \in Threads : ~Held(s, t) /\ ~Reachable(s, t)
  BY <1>3, <1>5, <1>6, <1>7 DEF Held, Reachable, Said, At
<1>10. \A t \in Threads : Within(t, {})
  BY <1>3, <1>5, <1>7, EmptyList DEF Within
<1>11. ThreadsOK
  BY <1>2, <1>4, <1>6, <1>9, <1>10 DEF ThreadsOK
<1>12. \A m \in Messages : ChatOK(m)
  BY <1>3, <1>5, EmptyList DEF ChatOK, At
<1>13. Routed
  BY <1>3, <1>5 DEF Routed
<1>14. Ordered
  BY <1>3, <1>5, <1>7, EmptyOrderly DEF Ordered
<1> QED BY <1>8, <1>11, <1>12, <1>13, <1>14 DEF ThreadsInv, TypeInv

LEMMA InvNext == ThreadsInv /\ Ordered /\ [Next]_vars => ThreadsInv' /\ Ordered'
<1> SUFFICES ASSUME ThreadsInv, Ordered, [Next]_vars PROVE ThreadsInv' /\ Ordered'
  OBVIOUS
<1>0. TypeInv
  BY DEF ThreadsInv
<1>1. ASSUME NEW s \in Sessions, NEW m \in Messages, SendMessage(s, m) PROVE ThreadsInv' /\ Ordered'
  BY <1>1, SendMessageThreads, SendMessageOrdered
<1>2. ASSUME NEW s \in Sessions, ClearChat(s) PROVE ThreadsInv' /\ Ordered'
  BY <1>2, ClearChatThreads
<1>3. ASSUME NEW s \in Sessions, ClearChatDone(s) PROVE ThreadsInv' /\ Ordered'
  BY <1>3, ClearChatDoneThreads
<1>4. ASSUME NEW s \in Sessions, OpenPage(s) PROVE ThreadsInv' /\ Ordered'
  BY <1>4, OpenPageThreads
<1>5. ASSUME NEW s \in Sessions, PageDone(s) PROVE ThreadsInv' /\ Ordered'
  BY <1>5, PageDoneThreads
<1>6. ASSUME NEW m \in Messages, ChatStep(m) PROVE ThreadsInv' /\ Ordered'
  <2>1. PICK q \in Chats, new \in Seq(Entries) : Carries(m, q, new) /\ (Ordered => Orderly(m, q, new))
    BY <1>0, <1>6, ChatStepCarries
  <2>2. TypeInv'
    BY <1>0, <2>1, CarriesType
  <2>3. ThreadsOK'
    BY <2>1, CarriesThreads
  <2>4. \A n \in Messages : ChatOK(n)'
    BY <2>1, CarriesChat
  <2>5. Ordered'
    BY <1>0, <2>1, CarriesOrdered
  <2> QED BY <2>2, <2>3, <2>4, <2>5 DEF ThreadsInv
<1>7. ASSUME NEW t \in Threads, ClearThread(t) \/ ClearLost(t) \/ Expire(t) PROVE ThreadsInv' /\ Ordered'
  BY <1>7, EmptiedThreads
<1>8. CASE UNCHANGED vars
  <2>1. UNCHANGED <<saved, made, history, chat, page, clearing, wipes, forgotten>>
    BY <1>8 DEF vars, portalVars
  <2>2. TypeInv'
    BY <1>0, <2>1 DEF TypeInv, TypeOK, Routed
  <2>3. Still
    BY <1>0, <2>1 DEF Still, TypeInv, TypeOK
  <2>4. \A s \in Sessions, t \in Threads : (Held(s, t)' => Held(s, t)) /\ (Reachable(s, t)' => Reachable(s, t))
    BY <2>1 DEF Held, Reachable, Said, At
  <2>5. \A s \in Sessions : clearing'[s].busy /\ clearing'[s].alone => ~Overlapped(s)'
    BY <2>1 DEF ThreadsInv, ThreadsOK, Overlapped, Said, At
  <2>6. ThreadsOK'
    BY <2>1, <2>3, <2>4, <2>5, StillThreads DEF ThreadsInv, ThreadsOK
  <2> QED BY <2>2, <2>3, <2>6, StillChat, StillOrdered DEF ThreadsInv
<1> QED BY <1>1, <1>2, <1>3, <1>4, <1>5, <1>6, <1>7, <1>8 DEF Next

LEMMA InvAlways == Spec => []Inv
<1>1. ThreadsInv /\ Ordered => Inv
  BY DEF ThreadsInv, TypeInv, Inv
<1> QED BY <1>1, InvInit, InvNext, PTL DEF Spec

(* Every variable keeps to its set: thread ids are used only for threads    *)
(* that were made, and no stored list is longer than the agent keeps.       *)
THEOREM TypeCorrect == Spec => []TypeOK
<1>1. Inv => TypeOK
  BY DEF Inv
<1> QED BY <1>1, InvAlways, PTL

(* clear_chat and the agent's history: after a clear that no other request  *)
(* of the session overlapped, no later message is given anything said       *)
(* before, nor anything another session said.                               *)
THEOREM ForgottenAlwaysStays == Spec => []ForgottenStays
<1>1. Inv => ForgottenStays
  BY DEF Inv, ChatOK, ForgottenStays, MessagesIn
<1> QED BY <1>1, InvAlways, PTL

(* add_message, read, append and write back with nothing held in between:   *)
(* what is stored repeats nothing and has no answer before its question.    *)
THEOREM TranscriptAlwaysInOrder == Spec => []TranscriptInOrder
<1>1. Inv => TranscriptInOrder
  BY DEF Inv, Ordered, InOrder, TranscriptInOrder
<1> QED BY <1>1, InvAlways, PTL
=============================================================================

----------------------------- MODULE ChatService -----------------------------
(***************************************************************************)
(* A conversation: the portal's chat proxy, which keeps a thread id in the *)
(* browser session, and the agent's chat history, a list per thread in a   *)
(* key-value store that is read, extended and written back.                *)
(*                                                                         *)
(* Requests of one browser session overlap: the portal loads the whole     *)
(* session when a request starts and saves it when the response starts,    *)
(* and an answer is streamed long after that.  Every store operation is an *)
(* action of its own (several agent workers on Redis; one worker with the  *)
(* in-memory store has a subset of these behaviours), and an operation on  *)
(* Redis may fail: a failed read is a miss, a failed write or delete is    *)
(* logged and changes nothing.                                             *)
(***************************************************************************)
EXTENDS Naturals, Sequences, SequencesExt

CONSTANTS
    Sessions,    \* browser sessions
    Messages,    \* messages users type, each sent at most once
    MaxThreads,  \* thread ids made
    MaxHistory,  \* ChatHistoryManager._max
    StoreFails,  \* BOOLEAN: may store operations fail
    None

ASSUME ThreadsAssumption == MaxThreads \in Nat \ {0}
ASSUME HistoryAssumption == MaxHistory \in Nat \ {0}
ASSUME FailsAssumption == StoreFails \in BOOLEAN
ASSUME NoneAssumption == None \notin 0..MaxThreads /\ None \notin Sessions

VARIABLES
    saved,      \* saved[s]: chat_thread_id of the stored browser session
    made,       \* number of thread ids made so far
    history,    \* history[t]: the list stored for a thread, <<>> when there is none
    chat,       \* chat[m]: the request that carries message m
    page,       \* page[s]: the thread id loaded by another request of the session, or Idle
    clearing,   \* clearing[s]: the /clear request of the portal in progress
    wipes,      \* threads whose /clear is on its way to the agent
    forgotten   \* history: messages said before a clear that no request overlapped

portalVars == <<saved, made, page, clearing>>
vars == <<portalVars, history, chat, wipes, forgotten>>

-----------------------------------------------------------------------------
Threads == 1..MaxThreads
Idle == 0
Entries == [msg : Messages, role : {"user", "assistant"}]
Question(m) == [msg |-> m, role |-> "user"]
Answer(m) == [msg |-> m, role |-> "assistant"]

ChatSteps == {"unsent", "portal", "posted", "add", "write", "run", "store", "done"}

(* seen is the history given to run_agent, list what add_message has read, *)
(* past the messages already forgotten when this one was typed.            *)
Chats == [pc : ChatSteps, session : Sessions \cup {None}, thread : Threads \cup {None},
          seen : Seq(Entries), list : Seq(Entries), past : SUBSET Messages]

NoChat == [pc |-> "unsent", session |-> None, thread |-> None,
           seen |-> <<>>, list |-> <<>>, past |-> {}]
NoClear == [busy |-> FALSE, alone |-> TRUE]

TypeOK ==
    /\ saved \in [Sessions -> Threads \cup {None}] /\ made \in 0..MaxThreads
    /\ page \in [Sessions -> Threads \cup {None, Idle}]
    /\ history \in [Threads -> Seq(Entries)]
    /\ \A t \in Threads : Len(history[t]) <= MaxHistory
    /\ chat \in [Messages -> Chats]
    /\ clearing \in [Sessions -> [busy : BOOLEAN, alone : BOOLEAN]]
    /\ wipes \subseteq Threads /\ forgotten \subseteq Messages

Init ==
    /\ saved = [s \in Sessions |-> None] /\ made = 0
    /\ page = [s \in Sessions |-> Idle]
    /\ history = [t \in Threads |-> <<>>]
    /\ chat = [m \in Messages |-> NoChat]
    /\ clearing = [s \in Sessions |-> NoClear]
    /\ wipes = {} /\ forgotten = {}

At(m, pc) == chat[m].pc = pc
Goto(m, pc) == chat' = [chat EXCEPT ![m].pc = pc]
End(m) == chat' = [chat EXCEPT ![m] = [NoChat EXCEPT !.pc = "done", !.session = chat[m].session]]

Said(s) == {m \in Messages : chat[m].session = s}
Overlapped(s) == page[s] # Idle \/ \E m \in Said(s) : At(m, "portal")

-----------------------------------------------------------------------------
(* webapp/blueprints/chat.py *)

(* send_message_stream: the session is loaded, _ensure_thread_id takes its *)
(* thread id or makes one; the payload and the service token are fetched   *)
(* before the response starts.                                             *)
SendMessage(s, m) ==
    /\ At(m, "unsent")
    /\ saved[s] = None => made < MaxThreads
    /\ made' = IF saved[s] = None THEN made + 1 ELSE made
    /\ chat' = [chat EXCEPT ![m].pc = "portal", ![m].session = s, ![m].past = forgotten,
                            ![m].thread = IF saved[s] = None THEN made + 1 ELSE saved[s]]
    /\ clearing' = [clearing EXCEPT ![s].alone = FALSE]
    /\ UNCHANGED <<saved, page, history, wipes, forgotten>>

(* The response starts: the session is saved whole, the thread id with it, *)
(* and generate() posts the message to the agent.                          *)
StartStream(m) ==
    /\ At(m, "portal")
    /\ saved' = [saved EXCEPT ![chat[m].session] = chat[m].thread]
    /\ Goto(m, "posted")
    /\ UNCHANGED <<made, page, clearing, history, wipes, forgotten>>

(* Any other request of the session: it too loads and saves the session    *)
(* whole (a permanent session is saved after every request).               *)
OpenPage(s) ==
    /\ page[s] = Idle
    /\ page' = [page EXCEPT ![s] = saved[s]]
    /\ clearing' = [clearing EXCEPT ![s].alone = FALSE]
    /\ UNCHANGED <<saved, made, history, chat, wipes, forgotten>>

PageDone(s) ==
    /\ page[s] # Idle
    /\ saved' = [saved EXCEPT ![s] = page[s]]
    /\ page' = [page EXCEPT ![s] = Idle]
    /\ UNCHANGED <<made, clearing, history, chat, wipes, forgotten>>

(* clear_chat: the agent is asked to clear the thread the session had.     *)
ClearChat(s) ==
    /\ ~clearing[s].busy
    /\ clearing' = [clearing EXCEPT ![s] = [busy |-> TRUE, alone |-> ~Overlapped(s)]]
    /\ wipes' = IF saved[s] = None THEN wipes ELSE wipes \cup {saved[s]}
    /\ UNCHANGED <<saved, made, page, history, chat, forgotten>>

(* As if the session kept its thread id. *)
ClearChatKeepsThread(s) ==
    /\ clearing[s].busy
    /\ forgotten' = IF clearing[s].alone THEN forgotten \cup Said(s) ELSE forgotten
    /\ clearing' = [clearing EXCEPT ![s] = NoClear]
    /\ UNCHANGED <<saved, made, page, history, chat, wipes>>

(* Answered, refused or timed out, the session is saved without the        *)
(* thread id.                                                              *)
ClearChatDone(s) ==
    /\ clearing[s].busy
    /\ saved' = [saved EXCEPT ![s] = None]
    /\ forgotten' = IF clearing[s].alone THEN forgotten \cup Said(s) ELSE forgotten
    /\ clearing' = [clearing EXCEPT ![s] = NoClear]
    /\ UNCHANGED <<made, page, history, chat, wipes>>

-----------------------------------------------------------------------------
(* agent/store.py as agent/chat_history.py uses it.  Fetched is what a     *)
(* get may answer; a set or a delete may leave the stored list as it was.  *)

Fetched(t) == {history[t]} \cup (IF StoreFails THEN {<<>>} ELSE {})

StoreSet(t, list) ==
    \/ history' = [history EXCEPT ![t] = list]
    \/ StoreFails /\ history' = history

(* As if one message too many were kept. *)
TrimOff(list) ==
    IF Len(list) > MaxHistory + 1
    THEN SubSeq(list, Len(list) - MaxHistory + 1, Len(list)) ELSE list

(* The newest MaxHistory messages. *)
Trim(list) ==
    IF Len(list) > MaxHistory
    THEN SubSeq(list, Len(list) - MaxHistory + 1, Len(list)) ELSE list

AddRead(m, from, to) ==
    /\ At(m, from)
    /\ \E list \in Fetched(chat[m].thread) :
          chat' = [chat EXCEPT ![m].pc = to, ![m].list = list]
    /\ UNCHANGED <<portalVars, history, wipes, forgotten>>

(* As if the entry were put first. *)
AddWriteFront(m, entry, from, to) ==
    /\ At(m, from)
    /\ StoreSet(chat[m].thread, Trim(<<entry>> \o chat[m].list))
    /\ IF to = "done" THEN End(m) ELSE chat' = [chat EXCEPT ![m].pc = to, ![m].list = <<>>]
    /\ UNCHANGED <<portalVars, wipes, forgotten>>

AddWrite(m, entry, from, to) ==
    /\ At(m, from)
    /\ StoreSet(chat[m].thread, Trim(Append(chat[m].list, entry)))
    /\ IF to = "done" THEN End(m) ELSE chat' = [chat EXCEPT ![m].pc = to, ![m].list = <<>>]
    /\ UNCHANGED <<portalVars, wipes, forgotten>>

(* InMemoryStore.get, the TTL that Redis is given: an entry expires. *)
Expire(t) ==
    /\ history[t] # <<>>
    /\ history' = [history EXCEPT ![t] = <<>>]
    /\ UNCHANGED <<portalVars, chat, wipes, forgotten>>

-----------------------------------------------------------------------------
(* agent/main.py *)

(* /chat/stream, which the portal posts to, and /chat share _prepare_chat: *)
(* the history for the model, then the user's message.                     *)
ReadHistory(m) ==
    /\ At(m, "posted")
    /\ \E list \in Fetched(chat[m].thread) :
          chat' = [chat EXCEPT ![m].pc = "add", ![m].seen = list]
    /\ UNCHANGED <<portalVars, history, wipes, forgotten>>

(* As if generate() tried again. *)
RefuseRetried(m) ==
    /\ At(m, "posted")
    /\ Goto(m, "portal")
    /\ UNCHANGED <<portalVars, history, wipes, forgotten>>

(* The agent is down or refuses (429, 401): generate() ends with an error. *)
Refuse(m) ==
    /\ At(m, "posted")
    /\ End(m)
    /\ UNCHANGED <<portalVars, history, wipes, forgotten>>

AddUserMessage(m) ==
    \/ AddRead(m, "add", "write")
    \/ AddWrite(m, Question(m), "write", "run")

(* The model has answered, or on /chat an exception was turned into an     *)
(* answer.                                                                 *)
AddAssistantMessage(m) ==
    \/ AddRead(m, "run", "store")
    \/ AddWrite(m, Answer(m), "store", "done")

(* An exception ends the stream without an answer to store, and so does a  *)
(* browser that goes away.                                                 *)
StreamFails(m) ==
    /\ At(m, "run")
    /\ End(m)
    /\ UNCHANGED <<portalVars, history, wipes, forgotten>>

(* clear_thread; or its request is lost or refused. *)
ClearThread(t) ==
    /\ t \in wipes
    /\ StoreSet(t, <<>>)
    /\ wipes' = wipes \ {t}
    /\ UNCHANGED <<portalVars, chat, forgotten>>

ClearLost(t) ==
    /\ t \in wipes
    /\ wipes' = wipes \ {t}
    /\ UNCHANGED <<portalVars, history, chat, forgotten>>

ChatStep(m) ==
    \/ StartStream(m) \/ ReadHistory(m) \/ Refuse(m)
    \/ AddUserMessage(m) \/ AddAssistantMessage(m) \/ StreamFails(m)

Next ==
    \/ \E s \in Sessions :
          \/ \E m \in Messages : SendMessage(s, m)
          \/ ClearChat(s) \/ ClearChatDone(s)
          \/ OpenPage(s) \/ PageDone(s)
    \/ \E m \in Messages : ChatStep(m)
    \/ \E t \in Threads : ClearThread(t) \/ ClearLost(t) \/ Expire(t)

(* The portal and the agent carry a request on; the calls they wait for    *)
(* have timeouts.                                                          *)
Fairness ==
    /\ \A m \in Messages : WF_vars(ChatStep(m))
    /\ \A s \in Sessions : WF_vars(ClearChatDone(s))

Spec == Init /\ [][Next]_vars
FairSpec == Spec /\ Fairness

-----------------------------------------------------------------------------
(* A cleared conversation does not come back: once a clear that no other   *)
(* request of the session overlapped is answered, the history given to the *)
(* model for a later message holds nothing said before, though the agent   *)
(* may never have been told, though answers still in flight are stored     *)
(* into the old thread, and though an overlapping add_message writes the   *)
(* deleted list back.  Nor does it hold what another session said.         *)
ForgottenStays ==
    \A m \in Messages : \A e \in ToSet(chat[m].seen) :
        e.msg \in Said(chat[m].session) \ chat[m].past

(* However overlapping add_message calls, failed reads and clears lose     *)
(* entries, a stored transcript repeats nothing and has no answer before   *)
(* its question.                                                           *)
TranscriptInOrder ==
    \A t \in Threads : \A i, j \in DOMAIN history[t] :
        i < j => /\ history[t][i] # history[t][j]
                 /\ history[t][i].msg = history[t][j].msg => history[t][i].role = "user"

(* A message the portal took is answered, or its request ends with an      *)
(* error, and a clear is answered: whatever the store, the agent and the   *)
(* model do meanwhile.                                                     *)
ChatsEnd ==
    /\ \A m \in Messages : At(m, "portal") ~> At(m, "done")
    /\ \A s \in Sessions : clearing[s].busy ~> ~clearing[s].busy
-----------------------------------------------------------------------------
(* The inductive invariant behind the two: ThreadsOK and ChatOK keep what  *)
(* is forgotten out of reach, Ordered keeps transcripts in order.          *)

MessagesIn(list) == {e.msg : e \in ToSet(list)}

(* All that is in thread t, or may yet be written to it, is from among S.  *)
Within(t, S) ==
    /\ MessagesIn(history[t]) \subseteq S
    /\ \A m \in Messages : chat[m].thread = t => m \in S /\ MessagesIn(chat[m].list) \subseteq S

(* The threads a session has or uses, and those a later request of it may  *)
(* still be given.                                                         *)
Held(s, t) == saved[s] = t \/ page[s] = t \/ \E m \in Said(s) : chat[m].thread = t
Reachable(s, t) ==
    saved[s] = t \/ page[s] = t \/ \E m \in Said(s) : At(m, "portal") /\ chat[m].thread = t

Sent == {m \in Messages : ~At(m, "unsent")}

ThreadsOK ==
    /\ \A s \in Sessions, t \in Threads : Reachable(s, t) => Within(t, Said(s) \ forgotten)
    /\ \A t \in Threads : t > made => Within(t, {})
    /\ \A s \in Sessions, t \in Threads : Held(s, t) => t <= made
    /\ \A s, other \in Sessions, t \in Threads : Held(s, t) /\ Held(other, t) => s = other
    /\ forgotten \subseteq Sent
    /\ \A s \in Sessions : clearing[s].busy /\ clearing[s].alone => ~Overlapped(s)

ChatOK(m) ==
    /\ At(m, "unsent") => chat[m].session = None /\ chat[m].list = <<>> /\ chat[m].seen = <<>>
    /\ ~At(m, "unsent") => chat[m].session \in Sessions
    /\ chat[m].pc \in {"unsent", "done"} <=> chat[m].thread = None
    /\ chat[m].thread # None => Within(chat[m].thread, Said(chat[m].session) \ chat[m].past)
    /\ MessagesIn(chat[m].seen) \subseteq Said(chat[m].session) \ chat[m].past
    /\ chat[m].past \subseteq Sent

(* Nothing of an unwritten message is anywhere. *)
NotYet(m, list) ==
    /\ chat[m].pc \in {"unsent", "portal", "posted", "add", "write"} => m \notin MessagesIn(list)
    /\ chat[m].pc \in {"run", "store"} => Answer(m) \notin ToSet(list)

InOrder(list) ==
    \A i, j \in DOMAIN list :
        i < j => /\ list[i] # list[j]
                 /\ list[i].msg = list[j].msg => list[i].role = "user"

Ordered ==
    /\ \A t \in Threads : InOrder(history[t]) /\ \A m \in Messages : NotYet(m, history[t])
    /\ \A n \in Messages : InOrder(chat[n].list) /\ \A m \in Messages : NotYet(m, chat[n].list)

Inv == TypeOK /\ ThreadsOK /\ (\A m \in Messages : ChatOK(m)) /\ Ordered
=============================================================================

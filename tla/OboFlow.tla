------------------------------- MODULE OboFlow -------------------------------
(***************************************************************************)
(* On-behalf-of delegation in the AI Agent service: chat requests that run *)
(* tools, the /authorize and /callback pair that obtains a delegated (OBO) *)
(* token, /clear, and external MCP clients, all over the shared key-value  *)
(* store of agent/store.py.                                                *)
(*                                                                         *)
(* A handler is an asyncio coroutine; with REDIS_URL set several workers   *)
(* serve the same threads.  Every store operation another handler's        *)
(* decision depends on is therefore a step of its own, and so is every     *)
(* awaited call that answers.  A single worker's behaviours are the subset *)
(* in which the steps between two awaits are not interleaved.              *)
(***************************************************************************)
EXTENDS Naturals

CONSTANTS
    Threads,         \* chat thread ids
    Flows,           \* authorization requests; one per GET /authorize served
    Requests,        \* handler slots: HTTP requests the agent serves at a time
    Actions,         \* the `action` values in use
    MaxIterations,   \* tool calls of one chat turn (5 in the code)
    None,            \* no value
    AgentTok,        \* the agent's own access token
    UserTok,         \* a portal user's own access token (plain scopes)
    McpTokens        \* tokens external MCP clients may come to hold

ASSUME ActionsAssumption == Actions \subseteq {"book", "list", "update", "delete"}

ASSUME IterationsAssumption == MaxIterations \in Nat

ASSUME NoneAssumption ==
    /\ None \notin Flows \cup Threads
    /\ None # AgentTok /\ None # UserTok /\ AgentTok # UserTok
    /\ AgentTok \notin Flows /\ UserTok \notin Flows

VARIABLES
    flow,      \* flow[t]: FlowState of thread t
    pending,   \* pending[t]: the previewed meeting, or NoPending
    obo,       \* obo[t]: live OBO token; named by the flow it was minted for
    creds,     \* creds[t]: agent credentials are stored for t
    pkce,      \* pkce[t]: the PKCE verifier; named by the flow it belongs to
    req,       \* req[r]: the handler running in slot r
    status,    \* status[f]: progress of authorization request f
    auth,      \* auth[f]: what f was opened for
    cookie     \* the user's oauth_session cookie; named by its flow

storeVars == <<flow, pending, obo, creds, pkce>>
idpVars == <<status, auth, cookie>>
vars == <<storeVars, req, idpVars>>

-----------------------------------------------------------------------------
(* agent/state_manager.py *)

Writes == {"book", "update", "delete"}

PreviewState(a) ==
    CASE a = "list"   -> "LIST_PREVIEW_INITIATED"
      [] a = "update" -> "UPDATE_PREVIEW_INITIATED"
      [] a = "delete" -> "DELETE_PREVIEW_INITIATED"
      [] OTHER        -> "BOOKING_PREVIEW_INITIATED"

AuthorizedState(a) ==
    CASE a = "list"   -> "LIST_AUTHORIZED"
      [] a = "update" -> "UPDATE_AUTHORIZED"
      [] a = "delete" -> "DELETE_AUTHORIZED"
      [] OTHER        -> "BOOKING_AUTHORIZED"

FlowState == {"INITIAL",
              "LIST_PREVIEW_INITIATED", "UPDATE_PREVIEW_INITIATED",
              "DELETE_PREVIEW_INITIATED", "BOOKING_PREVIEW_INITIATED",
              "LIST_AUTHORIZED", "UPDATE_AUTHORIZED",
              "DELETE_AUTHORIZED", "BOOKING_AUTHORIZED"}

(* The arguments of a tool, abstracted to the tool family they were written *)
(* for: that decides which fields they have.                               *)
Payload == Writes
NoPending == "none"

-----------------------------------------------------------------------------
(* Tokens and scopes *)

Tokens == Flows \cup {AgentTok, UserTok}

(* The `_agent` scopes of a token, by action.  /authorize asks for the      *)
(* action's scope, and for listing too with update and delete; the agent   *)
(* authenticates itself with all four.                                     *)
AgentScopes(tok) ==
    CASE tok = AgentTok -> {"book", "list", "update", "delete"}
      [] tok \in Flows  -> {auth[tok].action} \cup
                           IF auth[tok].action = "book" THEN {} ELSE {"list"}
      [] OTHER          -> {}

PlainScopes(tok) == IF tok = UserTok THEN {"book", "list", "update", "delete"} ELSE {}

RequireAgentScope(tok, a) == a \in AgentScopes(tok)
RequireScope(tok, a) == a \in AgentScopes(tok) \cup PlainScopes(tok)

-----------------------------------------------------------------------------
(* Handler slots *)

Ops == {"list", "preview", "commit"}

PCs == {"idle", "run", "pending", "dispatch", "fetch", "call", "setpending",
        "token", "post", "ok", "finpending", "fintokens", "listclear",
        "listpreview", "get", "liststate", "listreset", "pkce", "cbget",
        "cbdel", "cbpost", "cbstore", "cbstate", "clear"}

CallbackPCs == {"cbget", "cbdel", "cbpost", "cbstore", "cbstate"}

Idle == [pc |-> "idle", mode |-> "none", thread |-> None, op |-> "none",
         act |-> "none", arg |-> NoPending, tok |-> None, flow |-> None,
         left |-> 0]

Request == [pc : PCs,
            mode : {"none", "auth", "llm", "mcp", "oauth"},
            thread : Threads \cup {None},
            op : Ops \cup {"none"},
            act : Actions \cup {"none"},
            arg : Payload \cup {NoPending},
            tok : Tokens \cup {None},
            flow : Flows \cup {None},
            left : 0..MaxIterations]

At(r, pc) == req[r].pc = pc
Goto(r, pc) == req' = [req EXCEPT ![r].pc = pc]
Finish(r) == req' = [req EXCEPT ![r] = Idle]

(* A tool call returned: the LLM loop goes on, any other caller is done.   *)
ToolDone(r) ==
    IF req[r].mode = "llm"
    THEN req' = [req EXCEPT ![r].pc = "run", ![r].op = "none", ![r].act = "none",
                            ![r].arg = NoPending, ![r].tok = None]
    ELSE Finish(r)

TypeOK ==
    /\ flow \in [Threads -> FlowState]
    /\ pending \in [Threads -> Payload \cup {NoPending}]
    /\ obo \in [Threads -> Flows \cup {None}]
    /\ creds \in [Threads -> BOOLEAN]
    /\ pkce \in [Threads -> Flows \cup {None}]
    /\ req \in [Requests -> Request]
    /\ status \in [Flows -> {"unused", "opening", "started", "consented", "redeemed"}]
    /\ auth \in [Flows -> [thread : Threads \cup {None},
                           action : Actions \cup {"none"}]]
    /\ cookie \in Flows \cup {None}

Init ==
    /\ flow = [t \in Threads |-> "INITIAL"]
    /\ pending = [t \in Threads |-> NoPending]
    /\ obo = [t \in Threads |-> None]
    /\ creds = [t \in Threads |-> FALSE]
    /\ pkce = [t \in Threads |-> None]
    /\ req = [r \in Requests |-> Idle]
    /\ status = [f \in Flows |-> "unused"]
    /\ auth = [f \in Flows |-> [thread |-> None, action |-> "none"]]
    /\ cookie = None

-----------------------------------------------------------------------------
(* clear_obo_tokens also deletes the cached agent token.  That entry only   *)
(* spares a prefetch (dispatch_tool always fetches anew), and whether the   *)
(* prefetch is awaited changes nothing but the time between Chat and the   *)
(* next step, so it is not part of the state.                              *)
ClearOboTokens(t) == obo' = [obo EXCEPT ![t] = None]

-----------------------------------------------------------------------------
(* POST /chat and /chat/stream.  c: the portal sent the org's credentials. *)

Chat(r, t, mode, c) ==
    /\ At(r, "idle")
    /\ creds' = [creds EXCEPT ![t] = creds[t] \/ c]
    /\ req' = [req EXCEPT ![r] =
                 [Idle EXCEPT !.pc = "run", !.mode = mode, !.thread = t,
                              !.left = MaxIterations]]
    /\ UNCHANGED <<flow, pending, obo, pkce, idpVars>>

(* _handle_authorization_callback: an "authorized" message resumes the     *)
(* action the thread's state names.                                        *)
ResumeAuthorized(r) ==
    /\ At(r, "run") /\ req[r].mode = "auth"
    /\ \/ \E a \in Actions :
            /\ flow[req[r].thread] = AuthorizedState(a)
            /\ req' = [req EXCEPT ![r].pc = "pending", ![r].act = a]
       \/ /\ \A a \in Actions : flow[req[r].thread] # AuthorizedState(a)
          /\ Finish(r)
    /\ UNCHANGED <<storeVars, idpVars>>

(* _AUTHORIZED_STATE_DISPATCH: which pending dict each handler accepts.    *)
PendingFits(a, p) ==
    \/ a = "list"
    \/ a = "book" /\ p # NoPending
    \/ a \in {"update", "delete"} /\ p \in {"update", "delete"}

DispatchAuthorized(r) ==
    LET a == req[r].act
        p == pending[req[r].thread]
    IN  /\ At(r, "pending")
        /\ IF PendingFits(a, p)
           THEN req' = [req EXCEPT ![r].pc = "dispatch",
                                   ![r].op = IF a = "list" THEN "list" ELSE "commit",
                                   ![r].arg = IF a = "list" THEN NoPending ELSE p]
           ELSE Finish(r)
        /\ UNCHANGED <<storeVars, idpVars>>

(* What a tool may be asked to do, with the arguments its schema requires. *)
ToolCall(op, a, arg) ==
    \/ op = "list" /\ a = "list" /\ arg = NoPending
    \/ op \in {"preview", "commit"} /\ a \in Writes /\ arg = a

(* One iteration of the Gemini loop: a tool call, or an answer (or an      *)
(* exhausted loop, or an exception) that ends the turn.                    *)
LlmToolCallUncounted(r, op, a, arg) ==   \* mutant: the loop counter never moves
    /\ At(r, "run") /\ req[r].mode = "llm" /\ req[r].left > 0
    /\ ToolCall(op, a, arg)
    /\ req' = [req EXCEPT ![r].pc = "dispatch", ![r].op = op, ![r].act = a, ![r].arg = arg]
    /\ UNCHANGED <<storeVars, idpVars>>

LlmToolCall(r, op, a, arg) ==
    /\ At(r, "run") /\ req[r].mode = "llm" /\ req[r].left > 0
    /\ ToolCall(op, a, arg)
    /\ req' = [req EXCEPT ![r].pc = "dispatch", ![r].op = op, ![r].act = a,
                          ![r].arg = arg, ![r].left = req[r].left - 1]
    /\ UNCHANGED <<storeVars, idpVars>>

LlmAnswer(r) ==
    /\ At(r, "run") /\ req[r].mode = "llm"
    /\ Finish(r)
    /\ UNCHANGED <<storeVars, idpVars>>

-----------------------------------------------------------------------------
(* agent/tools.py: dispatch_tool *)

Dispatch(r) ==
    LET tok == obo[req[r].thread]
    IN  /\ At(r, "dispatch")
        /\ req' = [req EXCEPT ![r].pc = IF tok = None THEN "fetch" ELSE "call",
                              ![r].tok = tok]
        /\ UNCHANGED <<storeVars, idpVars>>

(* No OBO token: the agent authenticates as itself, with the thread's       *)
(* credentials or, when it has none, with those an M2M lookup finds.       *)
FetchAgentToken(r, found) ==
    LET t == req[r].thread
    IN  /\ At(r, "fetch")
        /\ creds' = [creds EXCEPT ![t] = creds[t] \/ found]
        /\ \/ /\ creds'[t]
              /\ req' = [req EXCEPT ![r].pc = "call", ![r].tok = AgentTok]
           \/ ToolDone(r)
        /\ UNCHANGED <<flow, pending, obo, pkce, idpVars>>

-----------------------------------------------------------------------------
(* agent/mcp_server.py: call_tool and its handlers *)

(* An external MCP client calls a tool with its own bearer token and any   *)
(* thread id.                                                              *)
Bearers == McpTokens \cap ({AgentTok, UserTok} \cup {f \in Flows : status[f] = "redeemed"})

McpCall(r, t, op, a, arg, tok) ==
    /\ At(r, "idle")
    /\ ToolCall(op, a, arg)
    /\ req' = [req EXCEPT ![r] = [Idle EXCEPT !.pc = "call", !.mode = "mcp", !.thread = t,
                                              !.op = op, !.act = a, !.arg = arg, !.tok = tok]]
    /\ UNCHANGED <<storeVars, idpVars>>

(* call_tool refuses a token that fails validation or lacks the scope; the  *)
(* scope check is otherwise the first conjunct of each handler below.      *)
RefuseTool(r) ==
    /\ At(r, "call")
    /\ ToolDone(r)
    /\ UNCHANGED <<storeVars, idpVars>>

Preview(r) ==
    /\ At(r, "call") /\ req[r].op = "preview"
    /\ RequireScope(req[r].tok, req[r].act)
    /\ flow' = [flow EXCEPT ![req[r].thread] = PreviewState(req[r].act)]
    /\ Goto(r, "setpending")
    /\ UNCHANGED <<pending, obo, creds, pkce, idpVars>>

SetPending(r) ==
    /\ At(r, "setpending")
    /\ pending' = [pending EXCEPT ![req[r].thread] = req[r].arg]
    /\ ToolDone(r)
    /\ UNCHANGED <<flow, obo, creds, pkce, idpVars>>

(* The committing handlers check the state, then the token, then call.     *)
CheckState(r) ==
    /\ At(r, "call") /\ req[r].op = "commit"
    /\ RequireAgentScope(req[r].tok, req[r].act)
    /\ IF flow[req[r].thread] = AuthorizedState(req[r].act)
       THEN Goto(r, "token") ELSE ToolDone(r)
    /\ UNCHANGED <<storeVars, idpVars>>

CheckTokenPresent(r) ==   \* mutant: a stored OBO token is enough, whichever is sent
    /\ At(r, "token")
    /\ IF obo[req[r].thread] # None THEN Goto(r, "post") ELSE ToolDone(r)
    /\ UNCHANGED <<storeVars, idpVars>>

CheckTokenDelegated(r) ==   \* mutant: any delegated token is enough, stored or not
    /\ At(r, "token")
    /\ IF req[r].tok \in Flows THEN Goto(r, "post") ELSE ToolDone(r)
    /\ UNCHANGED <<storeVars, idpVars>>

CheckToken(r) ==
    /\ At(r, "token")
    /\ IF obo[req[r].thread] # None /\ obo[req[r].thread] = req[r].tok
       THEN Goto(r, "post") ELSE ToolDone(r)
    /\ UNCHANGED <<storeVars, idpVars>>

(* _finalize_action: state, pending meeting, tokens. *)
FinalizeState(r) ==
    /\ At(r, "ok")
    /\ flow' = [flow EXCEPT ![req[r].thread] = "INITIAL"]
    /\ Goto(r, "finpending")
    /\ UNCHANGED <<pending, obo, creds, pkce, idpVars>>

FinalizePending(r) ==
    /\ At(r, "finpending")
    /\ pending' = [pending EXCEPT ![req[r].thread] = NoPending]
    /\ Goto(r, "fintokens")
    /\ UNCHANGED <<flow, obo, creds, pkce, idpVars>>

FinalizeTokens(r) ==
    /\ At(r, "fintokens")
    /\ ClearOboTokens(req[r].thread)
    /\ ToolDone(r)
    /\ UNCHANGED <<flow, pending, creds, pkce, idpVars>>

(* _handle_list_meetings *)
ListCheckScopeOnly(r) ==   \* mutant: the scope of a delegated token is enough
    /\ At(r, "call") /\ req[r].op = "list"
    /\ RequireScope(req[r].tok, "list")
    /\ IF req[r].tok \in Flows THEN Goto(r, "get") ELSE Goto(r, "listclear")
    /\ UNCHANGED <<storeVars, idpVars>>

ListCheck(r) ==
    /\ At(r, "call") /\ req[r].op = "list"
    /\ RequireScope(req[r].tok, "list")
    /\ IF obo[req[r].thread] # None /\ obo[req[r].thread] = req[r].tok
       THEN Goto(r, "get") ELSE Goto(r, "listclear")
    /\ UNCHANGED <<storeVars, idpVars>>

ListClear(r) ==
    /\ At(r, "listclear")
    /\ ClearOboTokens(req[r].thread)
    /\ Goto(r, "listpreview")
    /\ UNCHANGED <<flow, pending, creds, pkce, idpVars>>

ListPreview(r) ==
    /\ At(r, "listpreview")
    /\ flow' = [flow EXCEPT ![req[r].thread] = PreviewState("list")]
    /\ ToolDone(r)
    /\ UNCHANGED <<pending, obo, creds, pkce, idpVars>>

ListState(r) ==
    /\ At(r, "liststate")
    /\ IF flow[req[r].thread] \in {AuthorizedState("list"), PreviewState("list")}
       THEN Goto(r, "listreset") ELSE ToolDone(r)
    /\ UNCHANGED <<storeVars, idpVars>>

ListReset(r) ==
    /\ At(r, "listreset")
    /\ flow' = [flow EXCEPT ![req[r].thread] = "INITIAL"]
    /\ Goto(r, "fintokens")
    /\ UNCHANGED <<pending, obo, creds, pkce, idpVars>>

-----------------------------------------------------------------------------
(* The Business API, as the agent meets it: it checks the scope and the    *)
(* body, may refuse for its own reasons, and an answer may be lost.        *)

BodyComplete(a, arg) == a = "delete" \/ arg \in {"book", "update"}

ApiWrite(r) ==
    LET q == req[r]
    IN  /\ At(r, "post")
        /\ RequireScope(q.tok, q.act) /\ BodyComplete(q.act, q.arg)
        /\ Goto(r, "ok")
        /\ UNCHANGED <<storeVars, idpVars>>

ApiRefuseWrite(r) ==
    /\ At(r, "post")
    /\ ToolDone(r)
    /\ UNCHANGED <<storeVars, idpVars>>

ApiList(r, ok) ==
    /\ At(r, "get")
    /\ Goto(r, IF ok THEN "liststate" ELSE "listclear")
    /\ UNCHANGED <<storeVars, idpVars>>

(* The call times out, or its answer never arrives: the exception ends the *)
(* turn, whether or not the write was committed.                           *)
ApiTimeout(r) ==
    /\ req[r].pc \in {"post", "ok", "get"}
    /\ Finish(r)
    /\ UNCHANGED <<storeVars, idpVars>>

-----------------------------------------------------------------------------
(* GET /authorize *)

Authorize(r, t, a, f) ==
    /\ At(r, "idle")
    /\ creds[t] /\ status[f] = "unused"
    /\ status' = [status EXCEPT ![f] = "opening"]
    /\ auth' = [auth EXCEPT ![f] = [thread |-> t, action |-> a]]
    /\ ClearOboTokens(t)
    /\ req' = [req EXCEPT ![r] = [Idle EXCEPT !.pc = "pkce", !.mode = "oauth",
                                              !.thread = t, !.flow = f]]
    /\ UNCHANGED <<flow, pending, creds, pkce, cookie>>

(* The verifier is stored, then the redirect sets the cookie. *)
AuthorizeRedirect(r) ==
    LET f == req[r].flow
        t == req[r].thread
    IN  /\ At(r, "pkce")
        /\ pkce' = [pkce EXCEPT ![t] = f]
        /\ status' = [status EXCEPT ![f] = "started"]
        /\ cookie' = f
        /\ Finish(r)
        /\ UNCHANGED <<flow, pending, obo, creds, auth>>

(* The user signs in and approves: WSO2 IS issues f's one authorization    *)
(* code, bound to f's challenge.                                           *)
UserConsents(f) ==
    /\ status[f] = "started"
    /\ status' = [status EXCEPT ![f] = "consented"]
    /\ UNCHANGED <<storeVars, req, auth, cookie>>

(* OAUTH_STATE_TTL_SECONDS pass.  The signed state and the cookie carry the *)
(* same expiry and /callback needs both, so losing the cookie stands for   *)
(* either refusal.                                                         *)
StateExpires ==
    /\ cookie # None
    /\ cookie' = None
    /\ UNCHANGED <<storeVars, req, status, auth>>

-----------------------------------------------------------------------------
(* GET /callback.  The browser may repeat it.  An expired state, a missing *)
(* or different cookie, or no credentials end it before anything changes.  *)

Callback(r, f) ==
    /\ At(r, "idle")
    /\ status[f] \in {"consented", "redeemed"}
    /\ cookie = f
    /\ creds[auth[f].thread]
    /\ req' = [req EXCEPT ![r] = [Idle EXCEPT !.pc = "cbget", !.mode = "oauth",
                                              !.thread = auth[f].thread, !.flow = f]]
    /\ UNCHANGED <<storeVars, idpVars>>

(* exchange_obo_code authenticates the agent, reads the verifier, deletes  *)
(* it, then redeems the code with whatever it read, here kept in `tok`.    *)
ReadVerifier(r) ==
    /\ At(r, "cbget")
    /\ req' = [req EXCEPT ![r].pc = "cbdel", ![r].tok = pkce[req[r].thread]]
    /\ UNCHANGED <<storeVars, idpVars>>

DeleteVerifierLater(r) ==   \* mutant: the verifier outlives the exchange
    /\ At(r, "cbdel")
    /\ Goto(r, "cbpost")
    /\ UNCHANGED <<storeVars, idpVars>>

DeleteVerifier(r) ==
    /\ At(r, "cbdel")
    /\ pkce' = [pkce EXCEPT ![req[r].thread] = None]
    /\ Goto(r, "cbpost")
    /\ UNCHANGED <<flow, pending, obo, creds, idpVars>>

(* The token endpoint: a code is good once, and only with the verifier of  *)
(* its own challenge.  heard: the answer reaches the agent.                *)
RedeemCode(r, heard) ==
    LET f == req[r].flow
    IN  /\ At(r, "cbpost")
        /\ status[f] = "consented" /\ req[r].tok = f
        /\ status' = [status EXCEPT ![f] = "redeemed"]
        /\ IF heard THEN Goto(r, "cbstore") ELSE Finish(r)
        /\ UNCHANGED <<storeVars, auth, cookie>>

(* Either call to WSO2 IS fails: before the verifier was touched, or after. *)
ExchangeFailureIgnored(r) ==   \* mutant: the ValueError is swallowed
    /\ At(r, "cbget") \/ At(r, "cbpost")
    /\ Goto(r, "cbstate")
    /\ UNCHANGED <<storeVars, idpVars>>

ExchangeFails(r) ==
    /\ At(r, "cbget") \/ At(r, "cbpost")
    /\ Finish(r)
    /\ UNCHANGED <<storeVars, idpVars>>

StoreOboToken(r) ==
    /\ At(r, "cbstore")
    /\ obo' = [obo EXCEPT ![req[r].thread] = req[r].flow]
    /\ Goto(r, "cbstate")
    /\ UNCHANGED <<flow, pending, creds, pkce, idpVars>>

CallbackDone(r) ==
    /\ At(r, "cbstate")
    /\ flow' = [flow EXCEPT ![req[r].thread] = AuthorizedState(auth[req[r].flow].action)]
    /\ cookie' = None
    /\ Finish(r)
    /\ UNCHANGED <<pending, obo, creds, pkce, status, auth>>

-----------------------------------------------------------------------------
(* POST /clear/{thread_id}: tokens first, then the state namespaces.       *)

Clear(r, t) ==
    /\ At(r, "idle")
    /\ ClearOboTokens(t)
    /\ req' = [req EXCEPT ![r] = [Idle EXCEPT !.pc = "clear", !.mode = "oauth", !.thread = t]]
    /\ UNCHANGED <<flow, pending, creds, pkce, idpVars>>

ClearState(r) ==
    LET t == req[r].thread
    IN  /\ At(r, "clear")
        /\ flow' = [flow EXCEPT ![t] = "INITIAL"]
        /\ pending' = [pending EXCEPT ![t] = NoPending]
        /\ creds' = [creds EXCEPT ![t] = FALSE]
        /\ Finish(r)
        /\ UNCHANGED <<obo, pkce, idpVars>>

(* Entries of the store outlive their TTL or their token.  clear_state      *)
(* deletes its namespaces one by one; what others may see of it half done  *)
(* is an expiry of the entries deleted so far.                             *)
StateEntryExpires(t) ==
    /\ \/ /\ flow[t] # "INITIAL"
          /\ flow' = [flow EXCEPT ![t] = "INITIAL"]
          /\ UNCHANGED <<pending, creds>>
       \/ /\ pending[t] # NoPending
          /\ pending' = [pending EXCEPT ![t] = NoPending]
          /\ UNCHANGED <<flow, creds>>
       \/ /\ creds[t]
          /\ creds' = [creds EXCEPT ![t] = FALSE]
          /\ UNCHANGED <<flow, pending>>
    /\ UNCHANGED <<obo, pkce, req, idpVars>>

OboTokenExpires(t) ==
    /\ obo[t] # None
    /\ obo' = [obo EXCEPT ![t] = None]
    /\ UNCHANGED <<flow, pending, creds, pkce, req, idpVars>>

VerifierExpires(t) ==
    /\ pkce[t] # None
    /\ pkce' = [pkce EXCEPT ![t] = None]
    /\ UNCHANGED <<flow, pending, obo, creds, req, idpVars>>

-----------------------------------------------------------------------------
(* A step of the handler in slot r: it always has one until it is done.     *)
(* What it waits for differs: Gemini, the store, or a call over HTTP.      *)
GeminiStep(r) ==
    \/ LlmAnswer(r)
    \/ \E op \in Ops, a \in Actions, arg \in Payload \cup {NoPending} :
          LlmToolCall(r, op, a, arg)

StoreStep(r) ==
    \/ ResumeAuthorized(r) \/ DispatchAuthorized(r) \/ Dispatch(r)
    \/ Preview(r) \/ SetPending(r) \/ CheckState(r) \/ CheckToken(r)
    \/ FinalizeState(r) \/ FinalizePending(r) \/ FinalizeTokens(r)
    \/ ListCheck(r) \/ ListClear(r) \/ ListPreview(r) \/ ListState(r) \/ ListReset(r)
    \/ AuthorizeRedirect(r)
    \/ ReadVerifier(r) \/ DeleteVerifier(r) \/ StoreOboToken(r) \/ CallbackDone(r)
    \/ ClearState(r)

HttpStep(r) ==
    \/ \E b \in BOOLEAN : FetchAgentToken(r, b) \/ ApiList(r, b) \/ RedeemCode(r, b)
    \/ RefuseTool(r) \/ ApiWrite(r) \/ ApiRefuseWrite(r) \/ ApiTimeout(r)
    \/ ExchangeFails(r)

HandlerStep(r) == GeminiStep(r) \/ StoreStep(r) \/ HttpStep(r)

(* A request arrives in slot r. *)
Arrival(r) ==
    \/ \E t \in Threads : Clear(r, t)
    \/ \E t \in Threads, mode \in {"auth", "llm"}, c \in BOOLEAN : Chat(r, t, mode, c)
    \/ \E t \in Threads, op \in Ops, a \in Actions, arg \in Payload \cup {NoPending},
          tok \in Bearers : McpCall(r, t, op, a, arg, tok)
    \/ \E t \in Threads, a \in Actions, f \in Flows : Authorize(r, t, a, f)
    \/ \E f \in Flows : Callback(r, f)

Environment ==
    \/ StateExpires
    \/ \E f \in Flows : UserConsents(f)
    \/ \E t \in Threads : StateEntryExpires(t) \/ OboTokenExpires(t) \/ VerifierExpires(t)

Next ==
    \/ \E r \in Requests : HandlerStep(r) \/ Arrival(r)
    \/ Environment

Spec == Init /\ [][Next]_vars

(* Two of the waits have no timeout: the Gemini client is made without one, *)
(* and so is the Redis client.  A Gemini call that never answers keeps its *)
(* worker thread; a stream that falls silent (run_agent_stream iterates it *)
(* on the event loop) or a silent Redis (its client is synchronous) stops  *)
(* every handler of the worker.  Nothing in the code says these answer.    *)
Unstalled == \A r \in Requests : WF_vars(GeminiStep(r) \/ StoreStep(r))

(* While they do, handlers run to completion: the event loop schedules     *)
(* every ready coroutine, and every call over HTTP has a timeout.  When    *)
(* one does not, no step of any handler is due.  Users owe nothing.        *)
FairSpec == Spec /\ (Unstalled => \A r \in Requests : WF_vars(HttpStep(r)))

-----------------------------------------------------------------------------
(* Properties *)

(* A flow's token was obtained: its user consented and its code was        *)
(* redeemed with its own verifier.                                         *)
Delegated(f) == f \in Flows /\ status[f] = "redeemed"

(* Every call the agent makes to the Business API - the POST, PUT or       *)
(* DELETE of a committing tool and the GET of list_meetings - carries a    *)
(* token its user delegated for this thread, with the scope of what is     *)
(* done: never the agent's own token, never a token of another thread,     *)
(* whatever token an MCP client presents and however callbacks, previews   *)
(* and clears interleave (README: "a destructive action can only happen    *)
(* under delegated authority").                                            *)
DelegatedCalls ==
    \A r \in Requests :
        req[r].pc \in {"post", "ok", "get"} =>
            /\ Delegated(req[r].tok)
            /\ auth[req[r].tok].thread = req[r].thread
            /\ req[r].act \in AgentScopes(req[r].tok)

(* A thread's state is <action>_AUTHORIZED only if the user completed a    *)
(* consent for that action on that thread: no failed, refused or timed-out *)
(* exchange in /callback and no tool ever leads there.                     *)
AuthorizedByConsent ==
    \A t \in Threads, a \in Actions :
        flow[t] = AuthorizedState(a) =>
            \E f \in Flows : Delegated(f) /\ auth[f].thread = t /\ auth[f].action = a

(* Once a code has been redeemed its verifier is not in the store, under   *)
(* any thread: exchange_obo_code deletes it before it calls the token      *)
(* endpoint, and no later /authorize brings it back.                       *)
RedeemedVerifierGone ==
    \A f \in Flows, t \in Threads : status[f] = "redeemed" => pkce[t] # f

(* Every request the agent accepts is eventually answered, unless Gemini or *)
(* Redis leaves a call unanswered for good, which nothing in the agent     *)
(* cuts short: no handler waits for another, every HTTP call ends, and a   *)
(* chat turn makes a bounded number of tool calls (max_iterations in       *)
(* gemini_agent.py).                                                       *)
RequestsFinish ==
    Unstalled => \A r \in Requests : req[r].pc # "idle" ~> req[r].pc = "idle"

(* The refinement mapping.  A redeemed flow's grant is due while a callback *)
(* still has to store its token, live while the token is stored.           *)
BeingStored(f) == \E r \in Requests : At(r, "cbstore") /\ req[r].flow = f

LifeOf(f) ==
    CASE status[f] = "unused" -> "none"
      [] status[f] \in {"opening", "started"} -> "asked"
      [] status[f] = "consented" -> "given"
      [] status[f] = "redeemed" -> IF BeingStored(f) THEN "due"
                                   ELSE IF obo[auth[f].thread] = f THEN "live" ELSE "spent"

Life == [f \in Flows |-> LifeOf(f)]

Calling(r) == req[r].pc \in {"post", "ok", "get"}

CallOf(r) ==
    IF Calling(r) THEN [grant |-> req[r].tok, thread |-> req[r].thread, act |-> req[r].act]
                  ELSE [grant |-> None, thread |-> None, act |-> "none"]

Calls == [r \in Requests |-> CallOf(r)]

Consents == INSTANCE Delegation
                WITH Grants <- Flows, Callers <- Requests,
                     life <- Life, purpose <- auth, calls <- Calls

(* The handlers and the store keep the promise of delegation: a call to    *)
(* the Business API begins only while the thread holds the token of its    *)
(* own consent, a consent is asked for, given, collected and stored once   *)
(* and in that order, and a token cleared by /authorize, /clear, a         *)
(* finished action or its expiry never comes back, whichever callbacks are *)
(* repeated or overtaken.                                                  *)
ConsentSpec == Consents!Spec

(* The inductive invariant behind the three safety properties above. *)

(* What a handler has established when it stands at a step. *)
HandlerOK(r) ==
    /\ ~At(r, "idle") => req[r].thread \in Threads
    /\ req[r].pc \in {"pending", "dispatch", "fetch", "call", "setpending", "token", "post",
                      "ok", "get"} => req[r].act \in Actions
    /\ req[r].pc \in {"dispatch", "fetch", "call"} /\ req[r].op = "list" =>
          req[r].act = "list"
    /\ req[r].pc \in {"call", "token"} /\ req[r].tok \in Flows => Delegated(req[r].tok)
    /\ At(r, "token") => req[r].act \in AgentScopes(req[r].tok)
    /\ req[r].pc \in {"post", "ok", "get"} =>
          /\ Delegated(req[r].tok)
          /\ auth[req[r].tok].thread = req[r].thread
          /\ req[r].act \in AgentScopes(req[r].tok)
    /\ At(r, "pkce") =>
          /\ req[r].flow \in Flows
          /\ status[req[r].flow] = "opening"
          /\ auth[req[r].flow].thread = req[r].thread
    /\ req[r].pc \in CallbackPCs =>
          /\ req[r].flow \in Flows
          /\ status[req[r].flow] \in {"consented", "redeemed"}
          /\ auth[req[r].flow].thread = req[r].thread
    /\ req[r].pc \in {"cbstore", "cbstate"} => status[req[r].flow] = "redeemed"
    /\ At(r, "cbpost") => pkce[req[r].thread] # req[r].flow

HandlersOK == \A r \in Requests : HandlerOK(r)

(* Two handlers of /authorize never work on the same flow. *)
OpeningsDistinct ==
    \A r, q \in Requests :
        At(r, "pkce") /\ At(q, "pkce") /\ req[r].flow = req[q].flow => r = q

(* A stored OBO token was delegated for the thread it is stored under. *)
StoredTokensOK ==
    \A t \in Threads :
        obo[t] # None => Delegated(obo[t]) /\ auth[obo[t]].thread = t

(* A stored verifier belongs to a flow opened on that thread and not yet   *)
(* redeemed.                                                               *)
StoredVerifiersOK ==
    \A t \in Threads :
        pkce[t] # None => /\ status[pkce[t]] \in {"started", "consented"}
                          /\ auth[pkce[t]].thread = t

(* A flow that was opened names its thread and action. *)
OpenedFlowsOK ==
    \A f \in Flows :
        status[f] # "unused" => auth[f].thread \in Threads /\ auth[f].action \in Actions

(* A token about to be stored is stored nowhere yet, and by one handler:   *)
(* what the refinement needs besides Inv.                                  *)
StoringOnce ==
    /\ \A r \in Requests, t \in Threads : At(r, "cbstore") => obo[t] # req[r].flow
    /\ \A r, q \in Requests :
          At(r, "cbstore") /\ At(q, "cbstore") /\ req[r].flow = req[q].flow => r = q

Inv ==
    /\ TypeOK
    /\ HandlersOK
    /\ OpeningsDistinct
    /\ StoredTokensOK
    /\ StoredVerifiersOK
    /\ OpenedFlowsOK
    /\ AuthorizedByConsent
=============================================================================

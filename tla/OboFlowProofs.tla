---------------------------- MODULE OboFlowProofs ----------------------------
(***************************************************************************)
(* Proofs that OboFlow keeps its safety properties for any number of       *)
(* threads, handlers and authorization requests, any set of actions, any   *)
(* iteration bound and any tokens in the hands of MCP clients.             *)
(***************************************************************************)
EXTENDS OboFlow, TLAPS

-----------------------------------------------------------------------------
(* What the steps of a slot do to req *)

(* The steps handlers are sent to, as a fact about PCs. *)
LEMMA SomePCs ==
  /\ "run" \in PCs /\ "pending" \in PCs /\ "dispatch" \in PCs /\ "fetch" \in PCs
  /\ "call" \in PCs /\ "pkce" \in PCs /\ "cbget" \in PCs /\ "cbdel" \in PCs
  /\ "clear" \in PCs
BY DEF PCs

(* The empty slot is a request record. *)
LEMMA IdleType == Idle \in Request
BY IterationsAssumption DEF Idle, Request, PCs, Ops, Tokens, NoPending

(* Goto moves one handler and changes nothing else about it. *)
LEMMA GotoFacts ==
  ASSUME NEW r \in Requests, NEW pc \in PCs, req \in [Requests -> Request], Goto(r, pc)
  PROVE  /\ req' \in [Requests -> Request]
         /\ req'[r].pc = pc
         /\ req'[r].thread = req[r].thread /\ req'[r].op = req[r].op
         /\ req'[r].act = req[r].act /\ req'[r].tok = req[r].tok
         /\ req'[r].flow = req[r].flow
         /\ \A q \in Requests : q # r => req'[q] = req[q]
<1> DEFINE new == [req[r] EXCEPT !.pc = pc]
<1>1. new \in Request
  BY DEF Request
<1>2. /\ new.pc = pc /\ new.thread = req[r].thread /\ new.op = req[r].op
      /\ new.act = req[r].act /\ new.tok = req[r].tok /\ new.flow = req[r].flow
  BY DEF Request
<1>3. QED
  BY <1>1, <1>2 DEF Goto

(* Finish empties one slot. *)
LEMMA FinishFacts ==
  ASSUME NEW r \in Requests, req \in [Requests -> Request], Finish(r)
  PROVE  /\ req' \in [Requests -> Request]
         /\ req'[r] = Idle
         /\ \A q \in Requests : q # r => req'[q] = req[q]
BY IdleType DEF Finish

(* A finished tool call leaves its handler at the top of the LLM loop or    *)
(* done, without a tool.                                                   *)
LEMMA ToolDoneFacts ==
  ASSUME NEW r \in Requests, req \in [Requests -> Request], ToolDone(r)
  PROVE  /\ req' \in [Requests -> Request]
         /\ \A q \in Requests : q # r => req'[q] = req[q]
         /\ req'[r].pc = "idle" \/ (req'[r].pc = "run" /\ req'[r].thread = req[r].thread)
         /\ req'[r].op = "none"
<1> DEFINE back == [req[r] EXCEPT !.pc = "run", !.op = "none", !.act = "none",
                                  !.arg = NoPending, !.tok = None]
<1>1. req[r] \in Request
  OBVIOUS
<1>2. back \in Request
  BY <1>1, SomePCs, Zenon DEF Request
<1>3. back.pc = "run" /\ back.op = "none" /\ back.thread = req[r].thread
  BY <1>1 DEF Request
<1>4. CASE req[r].mode = "llm"
  <2>1. req' = [req EXCEPT ![r] = back]
    BY <1>4, Zenon DEF ToolDone
  <2>2. QED
    BY <1>2, <1>3, <2>1
<1>5. CASE req[r].mode # "llm"
  BY <1>5, FinishFacts DEF ToolDone, Idle
<1>6. QED
  BY <1>4, <1>5

-----------------------------------------------------------------------------
(* Frames: what keeps a handler's condition *)

(* The condition of a handler that does not move survives any step that    *)
(* leaves the flows alone and at most drops verifiers.                     *)
LEMMA HandlerFrame ==
  ASSUME TypeOK, NEW q \in Requests, HandlerOK(q), req'[q] = req[q],
         UNCHANGED <<status, auth>>,
         \A t \in Threads : pkce'[t] \in {pkce[t], None}
  PROVE  HandlerOK(q)'
<1> USE DEF HandlerOK, At, Delegated, AgentScopes
<1>1. req[q].pc = "cbpost" => req[q].flow \in Flows /\ req[q].thread \in Threads
  BY DEF CallbackPCs
<1>2. req'[q].pc = "cbpost" => pkce'[req'[q].thread] # req'[q].flow
  BY <1>1, NoneAssumption
<1>3. QED
  BY <1>2

(* An empty slot, and a handler between tool calls, have nothing to show.  *)
LEMMA HandlerIdle ==
  ASSUME NEW r \in Requests, req'[r] = Idle
  PROVE  HandlerOK(r)'
BY DEF HandlerOK, Idle, At, CallbackPCs

(* So has one that returned from a tool. *)
LEMMA HandlerBack ==
  ASSUME NEW r \in Requests, HandlerOK(r), ~At(r, "idle"),
         req'[r].pc = "idle" \/ (req'[r].pc = "run" /\ req'[r].thread = req[r].thread),
         req'[r].op = "none"
  PROVE  HandlerOK(r)'
BY DEF HandlerOK, At, CallbackPCs

(* A step of handler r that opens, redeems and stores no delegation: what  *)
(* it has to show to keep the whole invariant.                             *)
LEMMA QuietStep ==
  ASSUME Inv, NEW r \in Requests,
         TypeOK',
         \A q \in Requests : q # r => req'[q] = req[q],
         HandlerOK(r)', req'[r].pc # "pkce",
         UNCHANGED <<status, auth>>,
         \A t \in Threads : pkce'[t] \in {pkce[t], None},
         \A t \in Threads : obo'[t] \in {obo[t], None},
         \A t \in Threads, a \in Actions :
             flow'[t] = AuthorizedState(a) => flow[t] = AuthorizedState(a)
  PROVE  Inv'
<1> USE DEF Inv
<1>1. HandlersOK'
  BY HandlerFrame DEF HandlersOK
<1>2. OpeningsDistinct'
  BY DEF OpeningsDistinct, At
<1>3. StoredTokensOK'
  BY DEF StoredTokensOK, Delegated
<1>4. StoredVerifiersOK'
  BY DEF StoredVerifiersOK
<1>5. OpenedFlowsOK'
  BY DEF OpenedFlowsOK
<1>6. AuthorizedByConsent'
  BY DEF AuthorizedByConsent, Delegated
<1>7. QED
  BY <1>1, <1>2, <1>3, <1>4, <1>5, <1>6

(* A step that touches nothing but its own slot. *)
LEMMA LocalStep ==
  ASSUME Inv, NEW r \in Requests,
         req' \in [Requests -> Request],
         \A q \in Requests : q # r => req'[q] = req[q],
         HandlerOK(r)', req'[r].pc # "pkce",
         UNCHANGED <<storeVars, idpVars>>
  PROVE  Inv'
<1>1. TypeOK'
  BY DEF Inv, TypeOK, storeVars, idpVars
<1>2. QED
  BY <1>1, QuietStep DEF storeVars, idpVars

(* A handler that gives up, or returns from a tool, having changed nothing. *)
LEMMA LocalEnd ==
  ASSUME Inv, NEW r \in Requests, ~At(r, "idle"), Finish(r) \/ ToolDone(r),
         UNCHANGED <<storeVars, idpVars>>
  PROVE  Inv'
<1>1. req \in [Requests -> Request] /\ HandlerOK(r)
  BY DEF Inv, TypeOK, HandlersOK
<1>2. CASE Finish(r)
  BY <1>1, <1>2, FinishFacts, HandlerIdle, LocalStep DEF Idle
<1>3. CASE ToolDone(r)
  BY <1>1, <1>3, ToolDoneFacts, HandlerBack, LocalStep
<1>4. QED
  BY <1>2, <1>3

-----------------------------------------------------------------------------
(* Chat turns and dispatch_tool *)

(* _prepare_chat starts a turn that holds nothing yet. *)
LEMMA ChatStep ==
  ASSUME Inv, NEW r \in Requests, NEW t \in Threads, NEW mode \in {"auth", "llm"},
         NEW c \in BOOLEAN, Chat(r, t, mode, c)
  PROVE  Inv'
<1> DEFINE new == [Idle EXCEPT !.pc = "run", !.mode = mode, !.thread = t,
                               !.left = MaxIterations]
<1>1. TypeOK
  BY DEF Inv
<1>2. MaxIterations \in 0..MaxIterations
  BY IterationsAssumption
<1>3. new \in Request /\ new.pc = "run" /\ new.thread = t
  BY <1>2, IdleType, SomePCs, Zenon DEF Request
<1>4. req' = [req EXCEPT ![r] = new]
  BY DEF Chat
<1>5. /\ req' \in [Requests -> Request]
      /\ req'[r] = new
      /\ \A q \in Requests : q # r => req'[q] = req[q]
  BY <1>1, <1>3, <1>4 DEF TypeOK
<1>6. HandlerOK(r)'
  BY <1>3, <1>5 DEF HandlerOK, At, CallbackPCs
<1>7. TypeOK'
  <2>1. creds' \in [Threads -> BOOLEAN]
    BY <1>1 DEF Chat, TypeOK
  <2>2. QED
    BY <1>1, <1>5, <2>1 DEF Chat, TypeOK, idpVars
<1>8. QED
  BY <1>3, <1>5, <1>6, <1>7, QuietStep DEF Chat, idpVars

(* _handle_authorization_callback picks up one of the actions in use. *)
LEMMA ResumeStep ==
  ASSUME Inv, NEW r \in Requests, ResumeAuthorized(r)
  PROVE  Inv'
<1>1. TypeOK /\ HandlerOK(r) /\ At(r, "run")
  BY DEF Inv, HandlersOK, ResumeAuthorized
<1>2. CASE Finish(r)
  BY <1>1, <1>2, LocalEnd DEF ResumeAuthorized, At
<1>3. ASSUME NEW a \in Actions, req' = [req EXCEPT ![r].pc = "pending", ![r].act = a]
      PROVE  Inv'
  <2> DEFINE new == [req[r] EXCEPT !.pc = "pending", !.act = a]
  <2>1. req[r] \in Request
    BY <1>1 DEF TypeOK
  <2>2. new \in Request
    BY <2>1, SomePCs, Zenon DEF Request
  <2>3. new.pc = "pending" /\ new.act = a /\ new.thread = req[r].thread /\ new.op = req[r].op
    BY <2>1 DEF Request
  <2>4. /\ req' \in [Requests -> Request]
        /\ req'[r] = new
        /\ \A q \in Requests : q # r => req'[q] = req[q]
    BY <1>1, <1>3, <2>2 DEF TypeOK
  <2>6. HandlerOK(r)'
    BY <1>1, <2>3, <2>4 DEF HandlerOK, At, CallbackPCs
  <2>7. QED
    BY <2>3, <2>4, <2>6, LocalStep, Zenon DEF ResumeAuthorized
<1>4. QED
  BY <1>2, <1>3 DEF ResumeAuthorized

(* An authorized handler dispatches the tool of its own action. *)
LEMMA DispatchAuthorizedStep ==
  ASSUME Inv, NEW r \in Requests, DispatchAuthorized(r)
  PROVE  Inv'
<1>1. TypeOK /\ HandlerOK(r) /\ At(r, "pending")
  BY DEF Inv, HandlersOK, DispatchAuthorized
<1>2. CASE Finish(r)
  BY <1>1, <1>2, LocalEnd DEF DispatchAuthorized, At
<1>3. CASE ~Finish(r)
  <2> DEFINE op == IF req[r].act = "list" THEN "list" ELSE "commit"
             arg == IF req[r].act = "list" THEN NoPending ELSE pending[req[r].thread]
             new == [req[r] EXCEPT !.pc = "dispatch", !.op = op, !.arg = arg]
  <2>1. req[r] \in Request /\ req[r].thread \in Threads /\ req[r].act \in Actions
    BY <1>1 DEF TypeOK, HandlerOK, At
  <2>2. op \in Ops /\ arg \in Payload \cup {NoPending} /\ (op = "list" => req[r].act = "list")
    BY <1>1, <2>1 DEF TypeOK, Ops
  <2>3. req' = [req EXCEPT ![r] = new]
    BY <1>3, Zenon DEF DispatchAuthorized
  <2> HIDE DEF op, arg
  <2>4. new \in Request
    BY <2>1, <2>2, SomePCs, Zenon DEF Request
  <2>5. new.pc = "dispatch" /\ new.op = op /\ new.act = req[r].act /\ new.thread = req[r].thread
    BY <2>1 DEF Request
  <2>6. /\ req' \in [Requests -> Request]
        /\ req'[r] = new
        /\ \A q \in Requests : q # r => req'[q] = req[q]
    BY <1>1, <2>3, <2>4 DEF TypeOK
  <2>7. HandlerOK(r)'
    BY <2>1, <2>2, <2>5, <2>6 DEF HandlerOK, At, CallbackPCs
  <2>8. QED
    BY <2>5, <2>6, <2>7, LocalStep, Zenon DEF DispatchAuthorized
<1>4. QED
  BY <1>2, <1>3

(* The model asks for a tool: one iteration of the loop is used up. *)
LEMMA LlmToolCallStep ==
  ASSUME Inv, NEW r \in Requests, NEW op \in Ops, NEW a \in Actions,
         NEW arg \in Payload \cup {NoPending}, LlmToolCall(r, op, a, arg)
  PROVE  Inv'
<1> DEFINE n == req[r].left - 1
           new == [req[r] EXCEPT !.pc = "dispatch", !.op = op, !.act = a, !.arg = arg,
                                 !.left = n]
<1>1. TypeOK /\ HandlerOK(r) /\ At(r, "run") /\ req[r].left > 0
  BY DEF Inv, HandlersOK, LlmToolCall
<1>2. req[r] \in Request /\ req[r].left \in 0..MaxIterations
  BY <1>1 DEF TypeOK, Request
<1>3. n \in 0..MaxIterations
  BY <1>1, <1>2, IterationsAssumption
<1>4. req' = [req EXCEPT ![r] = new]
  BY Zenon DEF LlmToolCall
<1>5. op = "list" => a = "list"
  BY DEF LlmToolCall, ToolCall
<1> HIDE DEF n
<1>6. new \in Request
  BY <1>2, <1>3, SomePCs, Zenon DEF Request
<1>7. new.pc = "dispatch" /\ new.op = op /\ new.act = a /\ new.thread = req[r].thread
  BY <1>2 DEF Request
<1>8. /\ req' \in [Requests -> Request]
      /\ req'[r] = new
      /\ \A q \in Requests : q # r => req'[q] = req[q]
  BY <1>1, <1>4, <1>6 DEF TypeOK
<1>9. HandlerOK(r)'
  BY <1>1, <1>5, <1>7, <1>8 DEF HandlerOK, At, CallbackPCs
<1>10. QED
  BY <1>7, <1>8, <1>9, LocalStep DEF LlmToolCall

(* dispatch_tool takes the thread's OBO token, which was delegated to it. *)
LEMMA DispatchStep ==
  ASSUME Inv, NEW r \in Requests, Dispatch(r)
  PROVE  Inv'
<1> DEFINE tok == obo[req[r].thread]
           pc == IF tok = None THEN "fetch" ELSE "call"
           new == [req[r] EXCEPT !.pc = pc, !.tok = tok]
<1>1. TypeOK /\ HandlerOK(r) /\ At(r, "dispatch") /\ StoredTokensOK
  BY DEF Inv, HandlersOK, Dispatch
<1>2. req[r] \in Request /\ req[r].thread \in Threads /\ req[r].act \in Actions
  BY <1>1 DEF TypeOK, HandlerOK, At
<1>3. tok \in Flows \cup {None} /\ (tok \in Flows => Delegated(tok)) /\ pc \in {"fetch", "call"}
  BY <1>1, <1>2, NoneAssumption DEF TypeOK, StoredTokensOK
<1>4. req' = [req EXCEPT ![r] = new]
  BY Zenon DEF Dispatch
<1> HIDE DEF tok, pc
<1>5. new \in Request
  BY <1>2, <1>3, SomePCs, Zenon DEF Request, Tokens
<1>6. /\ new.pc = pc /\ new.tok = tok /\ new.op = req[r].op /\ new.act = req[r].act
      /\ new.thread = req[r].thread
  BY <1>2 DEF Request
<1>7. /\ req' \in [Requests -> Request]
      /\ req'[r] = new
      /\ \A q \in Requests : q # r => req'[q] = req[q]
  BY <1>1, <1>4, <1>5 DEF TypeOK
<1>8. /\ req'[r].pc = pc /\ req'[r].tok = tok /\ req'[r].op = req[r].op
      /\ req'[r].act = req[r].act /\ req'[r].thread = req[r].thread
  BY <1>6, <1>7
<1>9. status' = status
  BY DEF Dispatch, idpVars
<1> HIDE DEF new
<1>10. HandlerOK(r)'
  BY <1>1, <1>2, <1>3, <1>8, <1>9 DEF HandlerOK, At, CallbackPCs, Delegated
<1>11. QED
  BY <1>3, <1>7, <1>8, <1>10, LocalStep DEF Dispatch

(* Without one it takes the agent's own token, which no flow stands for. *)
LEMMA FetchStep ==
  ASSUME Inv, NEW r \in Requests, NEW found \in BOOLEAN, FetchAgentToken(r, found)
  PROVE  Inv'
<1>1. TypeOK /\ HandlerOK(r) /\ At(r, "fetch")
  BY DEF Inv, HandlersOK, FetchAgentToken
<1>2. req[r] \in Request /\ req[r].thread \in Threads /\ req[r].act \in Actions
  BY <1>1 DEF TypeOK, HandlerOK, At
<1>3. SUFFICES /\ req' \in [Requests -> Request]
               /\ HandlerOK(r)' /\ req'[r].pc # "pkce"
               /\ \A q \in Requests : q # r => req'[q] = req[q]
  <2>1. creds' \in [Threads -> BOOLEAN]
    BY <1>1, <1>2 DEF FetchAgentToken, TypeOK
  <2>2. TypeOK'
    BY <1>1, <1>3, <2>1 DEF FetchAgentToken, TypeOK, idpVars
  <2>3. QED
    BY <1>3, <2>2, QuietStep DEF FetchAgentToken, idpVars
<1>4. CASE ToolDone(r)
  BY <1>1, <1>4, ToolDoneFacts, HandlerBack DEF TypeOK, At
<1>5. CASE req' = [req EXCEPT ![r].pc = "call", ![r].tok = AgentTok]
  <2> DEFINE new == [req[r] EXCEPT !.pc = "call", !.tok = AgentTok]
  <2>1. new \in Request
    BY <1>2, SomePCs, Zenon DEF Request, Tokens
  <2>2. /\ new.pc = "call" /\ new.tok = AgentTok /\ new.op = req[r].op
        /\ new.act = req[r].act /\ new.thread = req[r].thread
    BY <1>2 DEF Request
  <2>3. /\ req' \in [Requests -> Request]
        /\ req'[r] = new
        /\ \A q \in Requests : q # r => req'[q] = req[q]
    BY <1>1, <1>5, <2>1 DEF TypeOK
  <2>4. HandlerOK(r)'
    BY <1>1, <1>2, <2>2, <2>3, NoneAssumption DEF HandlerOK, At, CallbackPCs
  <2>5. QED
    BY <2>2, <2>3, <2>4
<1>6. QED
  BY <1>4, <1>5 DEF FetchAgentToken

(* An MCP client's bearer token, if it is an OBO token, was delegated. *)
LEMMA McpCallStep ==
  ASSUME Inv, NEW r \in Requests, NEW t \in Threads, NEW op \in Ops, NEW a \in Actions,
         NEW arg \in Payload \cup {NoPending}, NEW tok \in Bearers,
         McpCall(r, t, op, a, arg, tok)
  PROVE  Inv'
<1> DEFINE new == [Idle EXCEPT !.pc = "call", !.mode = "mcp", !.thread = t, !.op = op,
                               !.act = a, !.arg = arg, !.tok = tok]
<1>1. TypeOK /\ tok \in Tokens /\ (tok \in Flows => Delegated(tok))
  BY NoneAssumption DEF Inv, Bearers, Tokens, Delegated
<1>2. new \in Request
  BY <1>1, IdleType, SomePCs, Zenon DEF Request
<1>3. /\ new.pc = "call" /\ new.thread = t /\ new.op = op /\ new.act = a /\ new.tok = tok
  BY IdleType DEF Request
<1>4. op = "list" => a = "list"
  BY DEF McpCall, ToolCall
<1>5. /\ req' \in [Requests -> Request]
      /\ req'[r] = new
      /\ \A q \in Requests : q # r => req'[q] = req[q]
  BY <1>1, <1>2 DEF TypeOK, McpCall
<1>6. HandlerOK(r)'
  BY <1>1, <1>3, <1>4, <1>5 DEF HandlerOK, At, CallbackPCs, McpCall, idpVars, Delegated
<1>7. QED
  BY <1>3, <1>5, <1>6, LocalStep DEF McpCall

-----------------------------------------------------------------------------
(* call_tool and its handlers *)

(* A handler that moves on without touching anything else keeps the        *)
(* invariant if it has what its next step asks for.                        *)
LEMMA GotoStep ==
  ASSUME Inv, NEW r \in Requests, NEW pc \in PCs, pc # "pkce", Goto(r, pc),
         UNCHANGED <<storeVars, idpVars>>,
         HandlerOK(r)'
  PROVE  Inv'
<1>1. req \in [Requests -> Request]
  BY DEF Inv, TypeOK
<1>2. QED
  BY <1>1, GotoFacts, LocalStep

(* The steps at which a turn or a tool call just ends. *)
LEMMA EndingStep ==
  ASSUME Inv, NEW r \in Requests,
         LlmAnswer(r) \/ RefuseTool(r) \/ ApiRefuseWrite(r) \/ ApiTimeout(r) \/ ExchangeFails(r)
  PROVE  Inv'
<1>1. ~At(r, "idle") /\ (Finish(r) \/ ToolDone(r)) /\ UNCHANGED <<storeVars, idpVars>>
  BY DEF LlmAnswer, RefuseTool, ApiRefuseWrite, ApiTimeout, ExchangeFails, At
<1>2. QED
  BY <1>1, LocalEnd

(* The state check of a committing handler passes the scope check on. *)
LEMMA CheckStateStep ==
  ASSUME Inv, NEW r \in Requests, CheckState(r)
  PROVE  Inv'
<1>1. req \in [Requests -> Request] /\ HandlerOK(r) /\ At(r, "call")
  BY DEF Inv, TypeOK, HandlersOK, CheckState
<1>2. CASE ToolDone(r)
  BY <1>1, <1>2, LocalEnd DEF CheckState, At
<1>3. CASE Goto(r, "token")
  <2>1. "token" \in PCs
    BY DEF PCs
  <2>2. HandlerOK(r)'
    BY <1>1, <1>3, <2>1, GotoFacts
    DEF HandlerOK, At, CallbackPCs, CheckState, idpVars, RequireAgentScope, AgentScopes, Delegated
  <2>3. QED
    BY <1>3, <2>1, <2>2, GotoStep DEF CheckState
<1>4. QED
  BY <1>2, <1>3 DEF CheckState

(* The token check makes the token the one delegated for the thread. *)
LEMMA CheckTokenStep ==
  ASSUME Inv, NEW r \in Requests, CheckToken(r)
  PROVE  Inv'
<1>1. req \in [Requests -> Request] /\ HandlerOK(r) /\ At(r, "token") /\ StoredTokensOK
  BY DEF Inv, TypeOK, HandlersOK, CheckToken
<1>2. CASE ToolDone(r)
  BY <1>1, <1>2, LocalEnd DEF CheckToken, At
<1>3. CASE ~ToolDone(r)
  <2>1. "post" \in PCs /\ Goto(r, "post")
    BY <1>3 DEF PCs, CheckToken
  <2>2. req[r].thread \in Threads /\ Delegated(req[r].tok) /\ auth[req[r].tok].thread = req[r].thread
    BY <1>1, <1>3 DEF CheckToken, StoredTokensOK, HandlerOK, At
  <2>3. HandlerOK(r)'
    BY <1>1, <2>1, <2>2, GotoFacts
    DEF HandlerOK, At, CallbackPCs, CheckToken, idpVars, AgentScopes, Delegated
  <2>4. QED
    BY <2>1, <2>3, GotoStep DEF CheckToken
<1>4. QED
  BY <1>2, <1>3 DEF CheckToken

(* list_meetings calls the API only with the thread's own OBO token. *)
LEMMA ListCheckStep ==
  ASSUME Inv, NEW r \in Requests, ListCheck(r)
  PROVE  Inv'
<1>1. req \in [Requests -> Request] /\ HandlerOK(r) /\ At(r, "call") /\ StoredTokensOK
  BY DEF Inv, TypeOK, HandlersOK, ListCheck
<1>2. req[r].thread \in Threads /\ req[r].act = "list" /\ "list" \in Actions
  BY <1>1 DEF HandlerOK, At, ListCheck
<1>3. CASE Goto(r, "listclear")
  <2>1. "listclear" \in PCs
    BY DEF PCs
  <2>2. HandlerOK(r)'
    BY <1>1, <1>3, <2>1, GotoFacts DEF HandlerOK, At, CallbackPCs
  <2>3. QED
    BY <1>3, <2>1, <2>2, GotoStep DEF ListCheck
<1>4. CASE ~Goto(r, "listclear")
  <2>1. "get" \in PCs /\ Goto(r, "get")
    BY <1>4 DEF PCs, ListCheck
  <2>2. Delegated(req[r].tok) /\ auth[req[r].tok].thread = req[r].thread
    BY <1>1, <1>2, <1>4 DEF ListCheck, StoredTokensOK
  <2>3. "list" \in AgentScopes(req[r].tok)
    BY <1>4, <2>2, NoneAssumption DEF ListCheck, RequireScope, PlainScopes, Delegated
  <2>4. HandlerOK(r)'
    BY <1>1, <1>2, <2>1, <2>2, <2>3, GotoFacts
    DEF HandlerOK, At, CallbackPCs, ListCheck, idpVars, AgentScopes, Delegated
  <2>5. QED
    BY <2>1, <2>4, GotoStep DEF ListCheck
<1>5. QED
  BY <1>3, <1>4 DEF ListCheck

(* The answers of the Business API move a handler on. *)
LEMMA ApiStep ==
  ASSUME Inv, NEW r \in Requests, NEW ok \in BOOLEAN, ApiWrite(r) \/ ApiList(r, ok)
  PROVE  Inv'
<1>1. req \in [Requests -> Request] /\ HandlerOK(r)
  BY DEF Inv, TypeOK, HandlersOK
<1>2. CASE ApiWrite(r)
  <2>1. "ok" \in PCs /\ Goto(r, "ok") /\ At(r, "post") /\ UNCHANGED <<storeVars, idpVars>>
    BY <1>2 DEF PCs, ApiWrite
  <2>2. HandlerOK(r)'
    BY <1>1, <2>1, GotoFacts DEF HandlerOK, At, CallbackPCs, idpVars, AgentScopes, Delegated
  <2>3. QED
    BY <2>1, <2>2, GotoStep
<1>3. CASE ApiList(r, ok)
  <2> DEFINE pc == IF ok THEN "liststate" ELSE "listclear"
  <2>1. pc \in PCs /\ pc \in {"liststate", "listclear"}
    BY DEF PCs
  <2>2. Goto(r, pc) /\ At(r, "get") /\ UNCHANGED <<storeVars, idpVars>>
    BY <1>3 DEF ApiList
  <2> HIDE DEF pc
  <2>3. HandlerOK(r)'
    BY <1>1, <2>1, <2>2, GotoFacts DEF HandlerOK, At, CallbackPCs
  <2>4. QED
    BY <2>1, <2>2, <2>3, GotoStep
<1>4. QED
  BY <1>2, <1>3

(* list_meetings decides whether the state is its own to reset. *)
LEMMA ListStateStep ==
  ASSUME Inv, NEW r \in Requests, ListState(r)
  PROVE  Inv'
<1>1. req \in [Requests -> Request] /\ HandlerOK(r) /\ At(r, "liststate")
  BY DEF Inv, TypeOK, HandlersOK, ListState
<1>2. CASE ToolDone(r)
  BY <1>1, <1>2, LocalEnd DEF ListState, At
<1>3. CASE Goto(r, "listreset")
  <2>1. "listreset" \in PCs
    BY DEF PCs
  <2>2. HandlerOK(r)'
    BY <1>1, <1>3, <2>1, GotoFacts DEF HandlerOK, At, CallbackPCs
  <2>3. QED
    BY <1>3, <2>1, <2>2, GotoStep DEF ListState
<1>4. QED
  BY <1>2, <1>3 DEF ListState

-----------------------------------------------------------------------------
(* Steps that write the store, but no delegation *)

(* An action's preview state is a flow state, and no AUTHORIZED one. *)
LEMMA PreviewFacts ==
  ASSUME NEW a \in Actions \cup {"list"}
  PROVE  /\ PreviewState(a) \in FlowState
         /\ "INITIAL" \in FlowState
         /\ \A b \in Actions : PreviewState(a) # AuthorizedState(b) /\ AuthorizedState(b) # "INITIAL"
BY ActionsAssumption DEF PreviewState, AuthorizedState, FlowState

(* A step that writes the flow state, the pending meeting or the           *)
(* credentials of one thread, or drops its OBO token or verifier, and      *)
(* brings no AUTHORIZED state about.                                       *)
LEMMA WritingStep ==
  ASSUME Inv, NEW r \in Requests, NEW t \in Threads,
         req' \in [Requests -> Request],
         \A q \in Requests : q # r => req'[q] = req[q],
         HandlerOK(r)', req'[r].pc # "pkce",
         UNCHANGED <<status, auth>>, cookie' \in {cookie, None},
         flow' = flow \/ \E s \in FlowState : /\ flow' = [flow EXCEPT ![t] = s]
                                             /\ \A a \in Actions : s # AuthorizedState(a),
         pending' = pending \/ \E p \in Payload \cup {NoPending} : pending' = [pending EXCEPT ![t] = p],
         creds' = creds \/ creds' = [creds EXCEPT ![t] = FALSE],
         obo' = obo \/ obo' = [obo EXCEPT ![t] = None],
         pkce' = pkce \/ pkce' = [pkce EXCEPT ![t] = None]
  PROVE  Inv'
<1>1. TypeOK
  BY DEF Inv
<1>2. flow' \in [Threads -> FlowState]
  BY <1>1 DEF TypeOK
<1>3. pending' \in [Threads -> Payload \cup {NoPending}]
  BY <1>1 DEF TypeOK
<1>4. creds' \in [Threads -> BOOLEAN]
  BY <1>1, Zenon DEF TypeOK
<1>5. /\ obo' \in [Threads -> Flows \cup {None}]
      /\ \A u \in Threads : obo'[u] \in {obo[u], None}
  BY <1>1 DEF TypeOK
<1>6. /\ pkce' \in [Threads -> Flows \cup {None}]
      /\ \A u \in Threads : pkce'[u] \in {pkce[u], None}
  BY <1>1 DEF TypeOK
<1>7. TypeOK'
  BY <1>1, <1>2, <1>3, <1>4, <1>5, <1>6 DEF TypeOK
<1>8. \A u \in Threads, a \in Actions :
        flow'[u] = AuthorizedState(a) => flow[u] = AuthorizedState(a)
  BY <1>1 DEF TypeOK
<1>9. QED
  BY <1>5, <1>6, <1>7, <1>8, QuietStep

(* What a handler's move leaves to be shown by a step that writes. *)
LEMMA MoveFacts ==
  ASSUME Inv, NEW r \in Requests, ~At(r, "idle"),
         \/ Finish(r) \/ ToolDone(r)
         \/ \E pc \in {"finpending", "fintokens", "listpreview"} : Goto(r, pc)
         \/ Goto(r, "setpending") /\ req[r].act \in Actions
  PROVE  /\ req[r].thread \in Threads
         /\ req' \in [Requests -> Request]
         /\ \A q \in Requests : q # r => req'[q] = req[q]
         /\ HandlerOK(r)' /\ req'[r].pc # "pkce"
<1>1. req \in [Requests -> Request] /\ HandlerOK(r) /\ req[r].thread \in Threads
  BY DEF Inv, TypeOK, HandlersOK, HandlerOK
<1>2. CASE Finish(r)
  BY <1>1, <1>2, FinishFacts, HandlerIdle DEF Idle
<1>3. CASE ToolDone(r)
  BY <1>1, <1>3, ToolDoneFacts, HandlerBack
<1>4. ASSUME NEW pc \in {"finpending", "fintokens", "listpreview", "setpending"}, Goto(r, pc),
             pc = "setpending" => req[r].act \in Actions
      PROVE  /\ req' \in [Requests -> Request]
             /\ \A q \in Requests : q # r => req'[q] = req[q]
             /\ HandlerOK(r)' /\ req'[r].pc # "pkce"
  <2>1. pc \in PCs
    BY DEF PCs
  <2>2. /\ req' \in [Requests -> Request]
        /\ req'[r].pc = pc /\ req'[r].thread = req[r].thread /\ req'[r].act = req[r].act
        /\ \A q \in Requests : q # r => req'[q] = req[q]
    BY <1>1, <1>4, <2>1, GotoFacts
  <2>3. HandlerOK(r)'
    BY <1>1, <1>4, <2>2 DEF HandlerOK, At, CallbackPCs
  <2>4. QED
    BY <2>2, <2>3
<1>5. QED
  BY <1>1, <1>2, <1>3, <1>4

(* The previews: a state, then the meeting to show. *)
LEMMA PreviewStep ==
  ASSUME Inv, NEW r \in Requests, Preview(r) \/ SetPending(r)
  PROVE  Inv'
<1>1. TypeOK /\ HandlerOK(r)
  BY DEF Inv, HandlersOK
<1>2. CASE Preview(r)
  <2>1. req[r].act \in Actions /\ ~At(r, "idle")
    BY <1>1, <1>2 DEF HandlerOK, At, Preview
  <2>2. QED
    BY <1>2, <2>1, MoveFacts, PreviewFacts, WritingStep, Zenon DEF Preview, idpVars
<1>3. CASE SetPending(r)
  <2>1. req[r].arg \in Payload \cup {NoPending} /\ ~At(r, "idle")
    BY <1>1, <1>3 DEF TypeOK, Request, SetPending, At
  <2>2. QED
    BY <1>3, <2>1, MoveFacts, WritingStep, Zenon DEF SetPending, idpVars
<1>4. QED
  BY <1>2, <1>3

(* _finalize_action and the resets of list_meetings. *)
LEMMA FinalizeStep ==
  ASSUME Inv, NEW r \in Requests,
         \/ FinalizeState(r) \/ FinalizePending(r) \/ FinalizeTokens(r)
         \/ ListClear(r) \/ ListPreview(r) \/ ListReset(r)
  PROVE  Inv'
<1>1. /\ ~At(r, "idle") /\ UNCHANGED <<creds, pkce, idpVars>>
      /\ \/ ToolDone(r)
         \/ \E pc \in {"finpending", "fintokens", "listpreview"} : Goto(r, pc)
  BY DEF FinalizeState, FinalizePending, FinalizeTokens, ListClear, ListPreview, ListReset, At
<1>2. req[r].thread \in Threads
  BY <1>1, MoveFacts
<1>3. /\ \/ flow' = flow
         \/ \E s \in FlowState : /\ flow' = [flow EXCEPT ![req[r].thread] = s]
                                /\ \A a \in Actions : s # AuthorizedState(a)
      /\ pending' = pending \/ pending' = [pending EXCEPT ![req[r].thread] = NoPending]
      /\ obo' = obo \/ obo' = [obo EXCEPT ![req[r].thread] = None]
  BY PreviewFacts
  DEF FinalizeState, FinalizePending, FinalizeTokens, ListClear, ListPreview, ListReset,
      ClearOboTokens
<1>4. QED
  BY <1>1, <1>2, <1>3, MoveFacts, WritingStep DEF idpVars

(* The second half of /clear. *)
LEMMA ClearStateStep ==
  ASSUME Inv, NEW r \in Requests, ClearState(r)
  PROVE  Inv'
<1>1. ~At(r, "idle")
  BY DEF ClearState, At
<1>2. QED
  BY <1>1, MoveFacts, PreviewFacts, WritingStep, Zenon DEF ClearState, idpVars

(* The first half of /clear drops the tokens. *)
LEMMA ClearStep ==
  ASSUME Inv, NEW r \in Requests, NEW t \in Threads, Clear(r, t)
  PROVE  Inv'
<1> DEFINE new == [Idle EXCEPT !.pc = "clear", !.mode = "oauth", !.thread = t]
<1>1. new \in Request /\ new.pc = "clear" /\ new.thread = t
  BY IdleType, SomePCs, Zenon DEF Request
<1>2. /\ req' \in [Requests -> Request]
      /\ req'[r] = new
      /\ \A q \in Requests : q # r => req'[q] = req[q]
  BY <1>1 DEF Inv, TypeOK, Clear
<1>3. HandlerOK(r)'
  BY <1>1, <1>2 DEF HandlerOK, At, CallbackPCs
<1>4. QED
  BY <1>1, <1>2, <1>3, WritingStep, Zenon DEF Clear, ClearOboTokens, idpVars

(* Expiries: nothing but entries of the store, or the cookie, disappears.  *)
LEMMA ExpiryStep ==
  ASSUME Inv, UNCHANGED <<req, status, auth>>, cookie' \in {cookie, None},
         flow' = flow \/ \E t \in Threads : flow' = [flow EXCEPT ![t] = "INITIAL"],
         pending' = pending \/ \E t \in Threads : pending' = [pending EXCEPT ![t] = NoPending],
         creds' = creds \/ \E t \in Threads : creds' = [creds EXCEPT ![t] = FALSE],
         obo' = obo \/ \E t \in Threads : obo' = [obo EXCEPT ![t] = None],
         pkce' = pkce \/ \E t \in Threads : pkce' = [pkce EXCEPT ![t] = None]
  PROVE  Inv'
<1> USE DEF Inv
<1>1. /\ obo' \in [Threads -> Flows \cup {None}] /\ pkce' \in [Threads -> Flows \cup {None}]
      /\ \A t \in Threads : obo'[t] \in {obo[t], None} /\ pkce'[t] \in {pkce[t], None}
  BY DEF TypeOK
<1>2. /\ flow' \in [Threads -> FlowState]
      /\ \A t \in Threads, a \in Actions :
            flow'[t] = AuthorizedState(a) => flow[t] = AuthorizedState(a)
  <2>1. "INITIAL" \in FlowState /\ \A a \in Actions : AuthorizedState(a) # "INITIAL"
    BY ActionsAssumption DEF FlowState, AuthorizedState
  <2>2. QED
    BY <2>1 DEF TypeOK
<1>3. TypeOK'
  <2>1. pending' \in [Threads -> Payload \cup {NoPending}]
    BY DEF TypeOK
  <2>2. creds' \in [Threads -> BOOLEAN]
    BY Zenon DEF TypeOK
  <2>3. QED
    BY <1>1, <1>2, <2>1, <2>2 DEF TypeOK
<1>4. HandlersOK'
  BY <1>1, HandlerFrame DEF HandlersOK
<1>5. OpeningsDistinct' /\ OpenedFlowsOK'
  BY DEF OpeningsDistinct, OpenedFlowsOK, At
<1>6. StoredTokensOK' /\ StoredVerifiersOK'
  BY <1>1 DEF StoredTokensOK, StoredVerifiersOK, Delegated
<1>7. AuthorizedByConsent'
  BY <1>2 DEF AuthorizedByConsent, Delegated
<1>8. QED
  BY <1>3, <1>4, <1>5, <1>6, <1>7

-----------------------------------------------------------------------------
(* Steps of a delegation *)

(* One authorization request f moves on, and its verifier may be stored:   *)
(* the handlers that do not move keep their conditions, because none of    *)
(* them relies on f where it was.                                          *)
LEMMA HandlerFlowFrame ==
  ASSUME TypeOK, NEW q \in Requests, HandlerOK(q), req'[q] = req[q],
         NEW f \in Flows, NEW s, status' = [status EXCEPT ![f] = s],
         status[f] # "redeemed", status[f] = "consented" => s = "redeemed",
         \A g \in Flows : g # f => auth'[g] = auth[g],
         auth'[f] = auth[f] \/ status[f] = "unused",
         At(q, "pkce") => req[q].flow # f,
         \A t \in Threads : pkce'[t] = pkce[t] \/ (pkce'[t] = f /\ status[f] # "consented")
  PROVE  HandlerOK(q)'
<1> DEFINE me == req[q]
<1>1. /\ status'[f] = s
      /\ \A g \in Flows : g # f => status'[g] = status[g]
  BY DEF TypeOK
<1>2. \A g \in Flows : Delegated(g) => g # f /\ Delegated(g)'
  BY <1>1 DEF Delegated
<1>3. \A tok : tok # f => AgentScopes(tok)' = AgentScopes(tok)
  BY DEF AgentScopes
<1>4. me.pc \in {"call", "token"} /\ me.tok \in Flows => Delegated(me.tok)'
  BY <1>2 DEF HandlerOK, At
<1>5. me.pc = "token" => me.act \in AgentScopes(me.tok)'
  BY <1>2, <1>3 DEF HandlerOK, At
<1>6. me.pc \in {"post", "ok", "get"} =>
        /\ Delegated(me.tok)'
        /\ auth'[me.tok].thread = me.thread
        /\ me.act \in AgentScopes(me.tok)'
  BY <1>2, <1>3 DEF HandlerOK, At, Delegated
<1>7. me.pc = "pkce" =>
        /\ me.flow \in Flows
        /\ status'[me.flow] = "opening"
        /\ auth'[me.flow].thread = me.thread
  BY <1>1 DEF HandlerOK, At
<1>8. me.pc \in CallbackPCs =>
        /\ me.flow \in Flows
        /\ status'[me.flow] \in {"consented", "redeemed"}
        /\ auth'[me.flow].thread = me.thread
  BY <1>1 DEF HandlerOK
<1>9. me.pc \in {"cbstore", "cbstate"} => status'[me.flow] = "redeemed"
  BY <1>1 DEF HandlerOK, CallbackPCs
<1>10. me.pc = "cbpost" => pkce'[me.thread] # me.flow
  <2>1. me.pc = "cbpost" => /\ me.thread \in Threads
                            /\ me.flow = f => status[f] = "consented"
                            /\ pkce[me.thread] # me.flow
    BY DEF HandlerOK, At, CallbackPCs
  <2>2. QED
    BY <2>1
<1>11. QED
  BY <1>4, <1>5, <1>6, <1>7, <1>8, <1>9, <1>10 DEF HandlerOK, At

(* /authorize opens an unused request; nobody relies on it yet. *)
LEMMA AuthorizeStep ==
  ASSUME Inv, NEW r \in Requests, NEW t \in Threads, NEW a \in Actions, NEW f \in Flows,
         Authorize(r, t, a, f)
  PROVE  Inv'
<1> DEFINE new == [Idle EXCEPT !.pc = "pkce", !.mode = "oauth", !.thread = t, !.flow = f]
           opened == [thread |-> t, action |-> a]
<1>1. TypeOK /\ status[f] = "unused"
  BY DEF Inv, Authorize
<1>2. new \in Request /\ new.pc = "pkce" /\ new.thread = t /\ new.flow = f
  BY IdleType, SomePCs, Zenon DEF Request
<1>3. /\ req' \in [Requests -> Request]
      /\ req'[r] = new
      /\ \A q \in Requests : q # r => req'[q] = req[q]
  BY <1>1, <1>2 DEF TypeOK, Authorize
<1>4. /\ status' = [status EXCEPT ![f] = "opening"]
      /\ status'[f] = "opening"
      /\ \A g \in Flows : g # f => status'[g] = status[g]
      /\ status' \in [Flows -> {"unused", "opening", "started", "consented", "redeemed"}]
  BY <1>1 DEF TypeOK, Authorize
<1>5. /\ auth'[f] = opened
      /\ \A g \in Flows : g # f => auth'[g] = auth[g]
      /\ auth' \in [Flows -> [thread : Threads \cup {None}, action : Actions \cup {"none"}]]
  BY <1>1 DEF TypeOK, Authorize
<1>6. /\ obo' \in [Threads -> Flows \cup {None}]
      /\ \A u \in Threads : obo'[u] \in {obo[u], None}
  BY <1>1 DEF TypeOK, Authorize, ClearOboTokens
<1>7. TypeOK'
  BY <1>1, <1>3, <1>4, <1>5, <1>6 DEF TypeOK, Authorize
<1>8. \A g \in Flows : Delegated(g) => g # f /\ Delegated(g)' /\ auth'[g] = auth[g]
  BY <1>1, <1>4, <1>5 DEF Delegated
<1>9. \A q \in Requests : At(q, "pkce") => req[q].flow # f
  BY <1>1 DEF Inv, HandlersOK, HandlerOK, At
<1>10. HandlersOK'
  <2>1. HandlerOK(r)'
    BY <1>2, <1>3, <1>4, <1>5 DEF HandlerOK, At, CallbackPCs
  <2>2. ASSUME NEW q \in Requests, q # r
        PROVE  HandlerOK(q)'
    <3>1. \A u \in Threads : pkce'[u] = pkce[u]
      BY DEF Authorize
    <3>2. HandlerOK(q) /\ req'[q] = req[q]
      BY <1>3, <2>2 DEF Inv, HandlersOK
    <3>3. QED
      BY <1>1, <1>4, <1>5, <1>9, <3>1, <3>2, HandlerFlowFrame, ZenonT(60)
  <2>3. QED
    BY <2>1, <2>2 DEF HandlersOK
<1>11. OpeningsDistinct'
  <2>1. \A q \in Requests : q # r /\ req'[q].pc = "pkce" => req'[q].flow # req'[r].flow
    BY <1>2, <1>3, <1>9 DEF At
  <2>2. OpeningsDistinct
    BY DEF Inv
  <2>3. QED
    BY <1>3, <2>1, <2>2, ZenonT(60) DEF OpeningsDistinct, At
<1>12. StoredTokensOK'
  BY <1>6, <1>8 DEF Inv, StoredTokensOK, Delegated
<1>13. StoredVerifiersOK'
  BY <1>1, <1>4, <1>5, NoneAssumption DEF Inv, TypeOK, StoredVerifiersOK, Authorize
<1>14. OpenedFlowsOK'
  BY <1>4, <1>5 DEF Inv, OpenedFlowsOK
<1>15. AuthorizedByConsent'
  BY <1>8 DEF Inv, AuthorizedByConsent, Authorize
<1>16. QED
  BY <1>7, <1>10, <1>11, <1>12, <1>13, <1>14, <1>15 DEF Inv

(* The redirect stores the verifier of the request it opened. *)
LEMMA AuthorizeRedirectStep ==
  ASSUME Inv, NEW r \in Requests, AuthorizeRedirect(r)
  PROVE  Inv'
<1> DEFINE f == req[r].flow
           t == req[r].thread
<1>1. /\ TypeOK /\ f \in Flows /\ t \in Threads /\ status[f] = "opening"
      /\ auth[f].thread = t /\ At(r, "pkce")
  BY DEF Inv, HandlersOK, HandlerOK, At, AuthorizeRedirect
<1>2. /\ req' \in [Requests -> Request]
      /\ req'[r] = Idle
      /\ \A q \in Requests : q # r => req'[q] = req[q]
  BY <1>1, FinishFacts DEF TypeOK, AuthorizeRedirect
<1>3. /\ status' = [status EXCEPT ![f] = "started"]
      /\ status'[f] = "started"
      /\ \A g \in Flows : g # f => status'[g] = status[g]
      /\ status' \in [Flows -> {"unused", "opening", "started", "consented", "redeemed"}]
  BY <1>1 DEF TypeOK, AuthorizeRedirect
<1>4. /\ pkce'[t] = f
      /\ \A u \in Threads : u # t => pkce'[u] = pkce[u]
      /\ pkce' \in [Threads -> Flows \cup {None}]
  BY <1>1 DEF TypeOK, AuthorizeRedirect
<1>5. UNCHANGED <<flow, pending, obo, creds, auth>> /\ cookie' = f
  BY DEF AuthorizeRedirect
<1>6. TypeOK'
  BY <1>1, <1>2, <1>3, <1>4, <1>5 DEF TypeOK
<1>7. HandlersOK'
  <2>1. HandlerOK(r)'
    BY <1>2, HandlerIdle
  <2>2. ASSUME NEW q \in Requests, q # r
        PROVE  HandlerOK(q)'
    <3>1. HandlerOK(q) /\ req'[q] = req[q] /\ (At(q, "pkce") => req[q].flow # f)
      BY <1>1, <1>2, <2>2 DEF Inv, HandlersOK, OpeningsDistinct
    <3>2. QED
      BY <1>1, <1>3, <1>4, <1>5, <3>1, HandlerFlowFrame, Zenon
  <2>3. QED
    BY <2>1, <2>2 DEF HandlersOK
<1>8. OpeningsDistinct'
  BY <1>2 DEF Inv, OpeningsDistinct, At, Idle
<1>9. StoredTokensOK'
  BY <1>1, <1>3, <1>5 DEF Inv, StoredTokensOK, Delegated
<1>10. StoredVerifiersOK'
  BY <1>1, <1>3, <1>4, <1>5 DEF Inv, TypeOK, StoredVerifiersOK
<1>11. OpenedFlowsOK'
  BY <1>1, <1>3, <1>5 DEF Inv, OpenedFlowsOK
<1>12. AuthorizedByConsent'
  BY <1>1, <1>3, <1>5 DEF Inv, AuthorizedByConsent, Delegated
<1>13. QED
  BY <1>6, <1>7, <1>8, <1>9, <1>10, <1>11, <1>12 DEF Inv

(* The user's consent. *)
LEMMA UserConsentsStep ==
  ASSUME Inv, NEW f \in Flows, UserConsents(f)
  PROVE  Inv'
<1>1. TypeOK /\ status[f] = "started" /\ UNCHANGED <<storeVars, req, auth, cookie>>
  BY DEF Inv, UserConsents
<1>2. /\ status' = [status EXCEPT ![f] = "consented"]
      /\ status'[f] = "consented"
      /\ \A g \in Flows : g # f => status'[g] = status[g]
      /\ status' \in [Flows -> {"unused", "opening", "started", "consented", "redeemed"}]
  BY <1>1 DEF TypeOK, UserConsents
<1>3. TypeOK'
  BY <1>1, <1>2 DEF TypeOK, storeVars
<1>4. HandlersOK'
  <2>1. SUFFICES ASSUME NEW q \in Requests
                 PROVE  HandlerOK(q)'
    BY DEF HandlersOK
  <2>2. HandlerOK(q) /\ (At(q, "pkce") => req[q].flow # f)
    BY <1>1 DEF Inv, HandlersOK, HandlerOK
  <2>3. QED
    BY <1>1, <1>2, <2>2, HandlerFlowFrame, Zenon DEF storeVars
<1>5. OpeningsDistinct'
  BY <1>1 DEF Inv, OpeningsDistinct, At
<1>6. StoredTokensOK'
  BY <1>1, <1>2 DEF Inv, StoredTokensOK, Delegated, storeVars
<1>7. StoredVerifiersOK'
  BY <1>1, <1>2 DEF Inv, TypeOK, StoredVerifiersOK, storeVars
<1>8. OpenedFlowsOK'
  BY <1>1, <1>2 DEF Inv, OpenedFlowsOK
<1>9. AuthorizedByConsent'
  BY <1>1, <1>2 DEF Inv, AuthorizedByConsent, Delegated, storeVars
<1>10. QED
  BY <1>3, <1>4, <1>5, <1>6, <1>7, <1>8, <1>9 DEF Inv

-----------------------------------------------------------------------------
(* /callback *)

(* A callback belongs to a request that was opened and consented. *)
LEMMA CallbackStep ==
  ASSUME Inv, NEW r \in Requests, NEW f \in Flows, Callback(r, f)
  PROVE  Inv'
<1> DEFINE t == auth[f].thread
           new == [Idle EXCEPT !.pc = "cbget", !.mode = "oauth", !.thread = t, !.flow = f]
<1>1. TypeOK /\ t \in Threads /\ status[f] \in {"consented", "redeemed"}
  BY DEF Inv, Callback, OpenedFlowsOK
<1>2. UNCHANGED <<storeVars, idpVars>> /\ req' = [req EXCEPT ![r] = new]
  BY DEF Callback
<1> HIDE DEF t
<1>3. new \in Request /\ new.pc = "cbget" /\ new.thread = t /\ new.flow = f
  BY <1>1, IdleType, SomePCs, Zenon DEF Request
<1>4. /\ req' \in [Requests -> Request]
      /\ req'[r] = new
      /\ \A q \in Requests : q # r => req'[q] = req[q]
  BY <1>1, <1>2, <1>3 DEF TypeOK
<1>5. HandlerOK(r)'
  BY <1>1, <1>2, <1>3, <1>4 DEF HandlerOK, At, CallbackPCs, idpVars, t
<1>6. QED
  BY <1>2, <1>3, <1>4, <1>5, LocalStep

(* exchange_obo_code reads the verifier. *)
LEMMA ReadVerifierStep ==
  ASSUME Inv, NEW r \in Requests, ReadVerifier(r)
  PROVE  Inv'
<1> DEFINE v == pkce[req[r].thread]
           new == [req[r] EXCEPT !.pc = "cbdel", !.tok = v]
<1>1. TypeOK /\ HandlerOK(r) /\ At(r, "cbget")
  BY DEF Inv, HandlersOK, ReadVerifier
<1>2. req[r] \in Request /\ v \in Flows \cup {None}
  BY <1>1 DEF TypeOK, HandlerOK, At
<1>3. UNCHANGED <<storeVars, idpVars>> /\ req' = [req EXCEPT ![r] = new]
  BY Zenon DEF ReadVerifier
<1> HIDE DEF v
<1>4. new \in Request
  BY <1>2, SomePCs, Zenon DEF Request, Tokens
<1>5. new.pc = "cbdel" /\ new.thread = req[r].thread /\ new.flow = req[r].flow
  BY <1>2 DEF Request
<1>6. /\ req' \in [Requests -> Request]
      /\ req'[r] = new
      /\ \A q \in Requests : q # r => req'[q] = req[q]
  BY <1>1, <1>3, <1>4 DEF TypeOK
<1>7. HandlerOK(r)'
  BY <1>1, <1>3, <1>5, <1>6 DEF HandlerOK, At, CallbackPCs, idpVars
<1>8. QED
  BY <1>3, <1>5, <1>6, <1>7, LocalStep

(* It deletes the verifier before it redeems the code. *)
LEMMA DeleteVerifierStep ==
  ASSUME Inv, NEW r \in Requests, DeleteVerifier(r)
  PROVE  Inv'
<1>1. TypeOK /\ HandlerOK(r) /\ At(r, "cbdel") /\ "cbpost" \in PCs /\ Goto(r, "cbpost")
  BY DEF Inv, HandlersOK, DeleteVerifier, PCs
<1>2. req[r].thread \in Threads /\ req[r].flow \in Flows
  BY <1>1 DEF HandlerOK, At, CallbackPCs
<1>3. /\ req' \in [Requests -> Request]
      /\ req'[r].pc = "cbpost"
      /\ req'[r].thread = req[r].thread /\ req'[r].flow = req[r].flow
      /\ \A q \in Requests : q # r => req'[q] = req[q]
  BY <1>1, GotoFacts DEF TypeOK
<1>4. pkce'[req[r].thread] = None
  BY <1>1, <1>2 DEF TypeOK, DeleteVerifier
<1>5. HandlerOK(r)'
  BY <1>1, <1>2, <1>3, <1>4, NoneAssumption
  DEF HandlerOK, At, CallbackPCs, DeleteVerifier, idpVars
<1>6. QED
  BY <1>2, <1>3, <1>5, WritingStep, Zenon DEF DeleteVerifier, idpVars

(* WSO2 IS redeems the code: no store holds its verifier any more. *)
LEMMA RedeemCodeStep ==
  ASSUME Inv, NEW r \in Requests, NEW heard \in BOOLEAN, RedeemCode(r, heard)
  PROVE  Inv'
<1> DEFINE f == req[r].flow
<1>1. /\ TypeOK /\ HandlerOK(r) /\ At(r, "cbpost") /\ f \in Flows /\ status[f] = "consented"
      /\ req[r].thread \in Threads /\ auth[f].thread = req[r].thread
      /\ pkce[req[r].thread] # f
  BY DEF Inv, HandlersOK, HandlerOK, At, CallbackPCs, RedeemCode
<1>2. /\ status' = [status EXCEPT ![f] = "redeemed"]
      /\ status'[f] = "redeemed"
      /\ \A g \in Flows : g # f => status'[g] = status[g]
      /\ status' \in [Flows -> {"unused", "opening", "started", "consented", "redeemed"}]
  BY <1>1 DEF TypeOK, RedeemCode
<1>3. UNCHANGED <<storeVars, auth, cookie>> /\ "cbstore" \in PCs
  BY DEF RedeemCode, PCs
<1>4. /\ req' \in [Requests -> Request]
      /\ \A q \in Requests : q # r => req'[q] = req[q]
      /\ \/ req'[r] = Idle
         \/ /\ req'[r].pc = "cbstore"
            /\ req'[r].thread = req[r].thread /\ req'[r].flow = f
  <2>1. CASE heard
    BY <1>1, <1>3, <2>1, GotoFacts DEF TypeOK, RedeemCode
  <2>2. CASE ~heard
    BY <1>1, <2>2, FinishFacts DEF TypeOK, RedeemCode
  <2>3. QED
    BY <2>1, <2>2
<1> HIDE DEF f
<1>5. TypeOK'
  BY <1>1, <1>2, <1>3, <1>4 DEF TypeOK, storeVars
<1>6. HandlersOK'
  <2>1. HandlerOK(r)'
    <3>1. CASE req'[r] = Idle
      BY <3>1, HandlerIdle
    <3>2. CASE req'[r].pc = "cbstore"
      BY <1>1, <1>2, <1>3, <1>4, <3>2 DEF HandlerOK, At, CallbackPCs, Idle
    <3>3. QED
      BY <1>4, <3>1, <3>2
  <2>2. ASSUME NEW q \in Requests, q # r
        PROVE  HandlerOK(q)'
    <3>1. HandlerOK(q) /\ req'[q] = req[q] /\ (At(q, "pkce") => req[q].flow # f)
      BY <1>1, <1>4, <2>2 DEF Inv, HandlersOK, HandlerOK
    <3>2. QED
      BY <1>1, <1>2, <1>3, <3>1, HandlerFlowFrame, Zenon DEF storeVars
  <2>3. QED
    BY <2>1, <2>2 DEF HandlersOK
<1>7. OpeningsDistinct'
  BY <1>4 DEF Inv, OpeningsDistinct, At, Idle
<1>8. StoredTokensOK'
  BY <1>1, <1>2, <1>3 DEF Inv, StoredTokensOK, Delegated, storeVars
<1>9. StoredVerifiersOK'
  BY <1>1, <1>2, <1>3 DEF Inv, TypeOK, StoredVerifiersOK, storeVars
<1>10. OpenedFlowsOK'
  BY <1>1, <1>2, <1>3 DEF Inv, OpenedFlowsOK
<1>11. AuthorizedByConsent'
  BY <1>1, <1>2, <1>3 DEF Inv, AuthorizedByConsent, Delegated, storeVars
<1>12. QED
  BY <1>5, <1>6, <1>7, <1>8, <1>9, <1>10, <1>11 DEF Inv

(* The token it got is stored under the thread it was delegated for. *)
LEMMA StoreOboTokenStep ==
  ASSUME Inv, NEW r \in Requests, StoreOboToken(r)
  PROVE  Inv'
<1> DEFINE t == req[r].thread
           f == req[r].flow
<1>1. /\ TypeOK /\ HandlerOK(r) /\ At(r, "cbstore") /\ t \in Threads /\ f \in Flows
      /\ Delegated(f) /\ auth[f].thread = t
  BY DEF Inv, HandlersOK, HandlerOK, At, CallbackPCs, StoreOboToken, Delegated
<1>2. UNCHANGED <<flow, pending, creds, pkce, idpVars>> /\ "cbstate" \in PCs
  BY DEF StoreOboToken, PCs
<1>3. /\ req' \in [Requests -> Request]
      /\ req'[r].pc = "cbstate" /\ req'[r].thread = t /\ req'[r].flow = f
      /\ \A q \in Requests : q # r => req'[q] = req[q]
  BY <1>1, <1>2, GotoFacts DEF TypeOK, StoreOboToken
<1>4. /\ obo' \in [Threads -> Flows \cup {None}]
      /\ obo'[t] = f /\ \A u \in Threads : u # t => obo'[u] = obo[u]
  BY <1>1 DEF TypeOK, StoreOboToken
<1>5. TypeOK'
  BY <1>1, <1>2, <1>3, <1>4 DEF TypeOK, idpVars
<1>6. HandlersOK'
  <2>1. HandlerOK(r)'
    BY <1>1, <1>2, <1>3 DEF HandlerOK, At, CallbackPCs, idpVars, Delegated
  <2>2. QED
    BY <1>1, <1>2, <1>3, <2>1, HandlerFrame DEF Inv, HandlersOK, idpVars
<1>7. OpeningsDistinct'
  BY <1>3 DEF Inv, OpeningsDistinct, At
<1>8. StoredTokensOK'
  BY <1>1, <1>2, <1>4 DEF Inv, StoredTokensOK, Delegated, idpVars
<1>9. StoredVerifiersOK' /\ OpenedFlowsOK'
  BY <1>2 DEF Inv, StoredVerifiersOK, OpenedFlowsOK, idpVars
<1>10. AuthorizedByConsent'
  BY <1>2 DEF Inv, AuthorizedByConsent, Delegated, idpVars
<1>11. QED
  BY <1>5, <1>6, <1>7, <1>8, <1>9, <1>10 DEF Inv

(* The state becomes AUTHORIZED for the action that was consented to. *)
LEMMA CallbackDoneStep ==
  ASSUME Inv, NEW r \in Requests, CallbackDone(r)
  PROVE  Inv'
<1> DEFINE t == req[r].thread
           f == req[r].flow
           a == auth[f].action
<1>1. /\ TypeOK /\ HandlerOK(r) /\ At(r, "cbstate") /\ t \in Threads /\ f \in Flows
      /\ Delegated(f) /\ auth[f].thread = t /\ a \in Actions
  BY DEF Inv, HandlersOK, HandlerOK, At, CallbackPCs, CallbackDone, Delegated, OpenedFlowsOK
<1>2. UNCHANGED <<pending, obo, creds, pkce, status, auth>> /\ cookie' = None
  BY DEF CallbackDone
<1>3. /\ req' \in [Requests -> Request]
      /\ req'[r] = Idle
      /\ \A q \in Requests : q # r => req'[q] = req[q]
  BY <1>1, FinishFacts DEF TypeOK, CallbackDone
<1>4. /\ flow'[t] = AuthorizedState(a)
      /\ \A u \in Threads : u # t => flow'[u] = flow[u]
  BY <1>1 DEF TypeOK, CallbackDone
<1> HIDE DEF a
<1>5. \A b \in Actions : AuthorizedState(a) = AuthorizedState(b) => a = b
  BY <1>1, ActionsAssumption DEF AuthorizedState
<1>6. AuthorizedState(a) \in FlowState
  BY <1>1, ActionsAssumption DEF AuthorizedState, FlowState
<1>7. flow' \in [Threads -> FlowState]
  BY <1>1, <1>6 DEF TypeOK, CallbackDone, a
<1>8. TypeOK'
  BY <1>1, <1>2, <1>3, <1>7 DEF TypeOK
<1>9. HandlersOK'
  BY <1>1, <1>2, <1>3, HandlerIdle, HandlerFrame DEF Inv, HandlersOK
<1>10. OpeningsDistinct'
  BY <1>3 DEF Inv, OpeningsDistinct, At, Idle
<1>11. StoredTokensOK' /\ StoredVerifiersOK' /\ OpenedFlowsOK'
  BY <1>2 DEF Inv, StoredTokensOK, StoredVerifiersOK, OpenedFlowsOK, Delegated
<1>12. AuthorizedByConsent'
  <2>1. f \in Flows /\ status'[f] = "redeemed" /\ auth'[f].thread = t /\ auth'[f].action = a
    BY <1>1, <1>2 DEF Delegated, a
  <2>2. AuthorizedByConsent
    BY DEF Inv
  <2>3. QED
    BY <1>1, <1>2, <1>4, <1>5, <2>1, <2>2 DEF AuthorizedByConsent, Delegated
<1>13. QED
  BY <1>8, <1>9, <1>10, <1>11, <1>12 DEF Inv

-----------------------------------------------------------------------------
(* The invariant *)

(* The agent starts with empty stores and no handler running. *)
LEMMA InitInv == Init => Inv
<1> SUFFICES ASSUME Init PROVE Inv
  OBVIOUS
<1>1. TypeOK
  BY IdleType DEF Init, TypeOK, FlowState
<1>2. \A r \in Requests : req[r] = Idle
  BY DEF Init
<1>3. HandlersOK /\ OpeningsDistinct
  BY <1>2 DEF HandlersOK, HandlerOK, OpeningsDistinct, At, Idle, CallbackPCs
<1>4. StoredTokensOK /\ StoredVerifiersOK /\ OpenedFlowsOK
  BY DEF Init, StoredTokensOK, StoredVerifiersOK, OpenedFlowsOK
<1>5. \A a \in Actions : AuthorizedState(a) # "INITIAL"
  BY ActionsAssumption DEF AuthorizedState
<1>6. AuthorizedByConsent
  BY <1>5 DEF Init, AuthorizedByConsent
<1>7. QED
  BY <1>1, <1>3, <1>4, <1>6 DEF Inv

(* Every step of a handler keeps it. *)
LEMMA HandlerStepInv ==
  ASSUME Inv, NEW r \in Requests, HandlerStep(r)
  PROVE  Inv'
<1>1. CASE \E b \in BOOLEAN : FetchAgentToken(r, b) \/ ApiList(r, b) \/ RedeemCode(r, b)
  BY <1>1, FetchStep, ApiStep, RedeemCodeStep
<1>2. CASE ResumeAuthorized(r) \/ DispatchAuthorized(r) \/ Dispatch(r)
  BY <1>2, ResumeStep, DispatchAuthorizedStep, DispatchStep
<1>3. CASE \E op \in Ops, a \in Actions, arg \in Payload \cup {NoPending} :
              LlmToolCall(r, op, a, arg)
  BY <1>3, LlmToolCallStep
<1>4. CASE LlmAnswer(r) \/ RefuseTool(r) \/ ApiRefuseWrite(r) \/ ApiTimeout(r) \/ ExchangeFails(r)
  BY <1>4, EndingStep
<1>5. CASE CheckState(r) \/ CheckToken(r) \/ ListCheck(r) \/ ListState(r)
  BY <1>5, CheckStateStep, CheckTokenStep, ListCheckStep, ListStateStep
<1>6. CASE Preview(r) \/ SetPending(r)
  BY <1>6, PreviewStep
<1>7. CASE \/ FinalizeState(r) \/ FinalizePending(r) \/ FinalizeTokens(r)
           \/ ListClear(r) \/ ListPreview(r) \/ ListReset(r)
  BY <1>7, FinalizeStep
<1>8. CASE ApiWrite(r)
  <2>1. TRUE \in BOOLEAN
    OBVIOUS
  <2>2. QED
    BY <1>8, <2>1, ApiStep, Zenon
<1>9. CASE AuthorizeRedirect(r) \/ ClearState(r)
  BY <1>9, AuthorizeRedirectStep, ClearStateStep
<1>10. CASE ReadVerifier(r) \/ DeleteVerifier(r) \/ StoreOboToken(r) \/ CallbackDone(r)
  BY <1>10, ReadVerifierStep, DeleteVerifierStep, StoreOboTokenStep, CallbackDoneStep
<1>11. QED
  BY <1>1, <1>2, <1>3, <1>4, <1>5, <1>6, <1>7, <1>8, <1>9, <1>10 DEF HandlerStep, GeminiStep, StoreStep, HttpStep

(* So does every arrival. *)
LEMMA ArrivalInv ==
  ASSUME Inv, NEW r \in Requests, Arrival(r)
  PROVE  Inv'
<1>1. CASE \E t \in Threads : Clear(r, t)
  BY <1>1, ClearStep
<1>2. CASE \E t \in Threads, mode \in {"auth", "llm"}, c \in BOOLEAN : Chat(r, t, mode, c)
  BY <1>2, ChatStep
<1>3. CASE \E t \in Threads, op \in Ops, a \in Actions, arg \in Payload \cup {NoPending},
              tok \in Bearers : McpCall(r, t, op, a, arg, tok)
  BY <1>3, McpCallStep
<1>4. CASE \E t \in Threads, a \in Actions, f \in Flows : Authorize(r, t, a, f)
  BY <1>4, AuthorizeStep
<1>5. CASE \E f \in Flows : Callback(r, f)
  BY <1>5, CallbackStep
<1>6. QED
  BY <1>1, <1>2, <1>3, <1>4, <1>5 DEF Arrival

(* And whatever the user and the clocks do. *)
LEMMA EnvironmentInv ==
  ASSUME Inv, Environment
  PROVE  Inv'
<1>1. CASE StateExpires
  BY <1>1, ExpiryStep DEF StateExpires, storeVars
<1>2. CASE \E f \in Flows : UserConsents(f)
  BY <1>2, UserConsentsStep
<1>3. CASE \E t \in Threads : StateEntryExpires(t)
  BY <1>3, ExpiryStep DEF StateEntryExpires, idpVars
<1>4. CASE \E t \in Threads : OboTokenExpires(t) \/ VerifierExpires(t)
  BY <1>4, ExpiryStep DEF OboTokenExpires, VerifierExpires, idpVars
<1>5. QED
  BY <1>1, <1>2, <1>3, <1>4 DEF Environment

(* A step that changes nothing. *)
LEMMA StutterInv == Inv /\ UNCHANGED vars => Inv'
<1> SUFFICES ASSUME Inv, UNCHANGED vars PROVE Inv'
  OBVIOUS
<1>1. QED
  BY ExpiryStep DEF vars, storeVars, idpVars

(* Inv holds in every reachable state of the agent. *)
THEOREM Invariance == Spec => []Inv
<1>1. Inv /\ [Next]_vars => Inv'
  BY HandlerStepInv, ArrivalInv, EnvironmentInv, StutterInv DEF Next
<1>2. QED
  BY InitInv, <1>1, PTL DEF Spec

(* The stores and the handlers of the agent keep their types: in           *)
(* particular the tool loop of run_agent never runs past max_iterations.   *)
THEOREM TypeCorrect == Spec => []TypeOK
<1>1. Inv => TypeOK
  BY DEF Inv
<1>2. QED
  BY <1>1, Invariance, PTL

(* Whatever interleaving of chats, previews, callbacks, clears and MCP     *)
(* clients, the agent calls the Business API only with a token its user    *)
(* delegated for that thread and for what is done.                         *)
THEOREM DelegatedCallsAlways == Spec => []DelegatedCalls
<1>1. Inv => DelegatedCalls
  BY DEF Inv, HandlersOK, HandlerOK, DelegatedCalls
<1>2. QED
  BY <1>1, Invariance, PTL

(* An AUTHORIZED state is always the result of a completed consent.        *)
THEOREM AuthorizedByConsentAlways == Spec => []AuthorizedByConsent
<1>1. Inv => AuthorizedByConsent
  BY DEF Inv
<1>2. QED
  BY <1>1, Invariance, PTL

(* The verifier of a redeemed code is in no store.                         *)
THEOREM RedeemedVerifierGoneAlways == Spec => []RedeemedVerifierGone
<1>1. Inv => RedeemedVerifierGone
  BY NoneAssumption DEF Inv, StoredVerifiersOK, RedeemedVerifierGone
<1>2. QED
  BY <1>1, Invariance, PTL

-----------------------------------------------------------------------------
(* The refinement of Delegation *)

(* A step of the agent is a step of Delegation, or does not show in it. *)
Simulated == Consents!Next \/ UNCHANGED <<Life, auth, Calls>>

(* The steps of a handler that show: it calls the API or holds a new token. *)
Showing == {"post", "ok", "get", "cbstore"}

(* What decides a grant's life. *)
LEMMA LifeSame ==
  ASSUME NEW f \in Flows, status'[f] = status[f], auth'[f] = auth[f],
         BeingStored(f)' <=> BeingStored(f),
         obo'[auth[f].thread] = f <=> obo[auth[f].thread] = f
  PROVE  Life'[f] = Life[f]
<1>1. LifeOf(f)' = LifeOf(f)
  BY DEF LifeOf
<1>2. QED
  BY <1>1 DEF Life

(* The statuses and the lives they stand for. *)
LEMMA LifeCases ==
  ASSUME TypeOK, NEW f \in Flows
  PROVE  /\ status[f] = "unused" => Life[f] = "none"
         /\ status[f] \in {"opening", "started"} => Life[f] = "asked"
         /\ status[f] = "consented" => Life[f] = "given"
         /\ status[f] = "redeemed" /\ BeingStored(f) => Life[f] = "due"
         /\ status[f] = "redeemed" /\ ~BeingStored(f) =>
               Life[f] = IF obo[auth[f].thread] = f THEN "live" ELSE "spent"
BY DEF TypeOK, Life, LifeOf

(* The same of the next state. *)
LEMMA LifeCasesNext ==
  ASSUME TypeOK', NEW f \in Flows
  PROVE  /\ status'[f] = "unused" => Life'[f] = "none"
         /\ status'[f] \in {"opening", "started"} => Life'[f] = "asked"
         /\ status'[f] = "consented" => Life'[f] = "given"
         /\ status'[f] = "redeemed" /\ BeingStored(f)' => Life'[f] = "due"
         /\ status'[f] = "redeemed" /\ ~BeingStored(f)' =>
               Life'[f] = IF obo'[auth'[f].thread] = f THEN "live" ELSE "spent"
BY DEF TypeOK, Life, LifeOf

(* A live grant is one whose token its thread holds. *)
LEMMA LiveIs ==
  ASSUME Inv, NEW f \in Flows
  PROVE  Life[f] = "live" <=> /\ status[f] = "redeemed" /\ ~BeingStored(f)
                              /\ obo[auth[f].thread] = f
<1>1. TypeOK /\ status[f] \in {"unused", "opening", "started", "consented", "redeemed"}
  BY DEF Inv, TypeOK
<1>2. QED
  BY <1>1, LifeCases

(* Who is storing a token, after a step that moves no one to or from there. *)
LEMMA StoringSame ==
  ASSUME NEW r \in Requests, \A q \in Requests : q # r => req'[q] = req[q],
         ~At(r, "cbstore"), ~At(r, "cbstore")'
  PROVE  \A f \in Flows : BeingStored(f)' <=> BeingStored(f)
BY DEF BeingStored, At

(* The calls after a step of handler r. *)
LEMMA CallsMove ==
  ASSUME NEW r \in Requests, \A q \in Requests : q # r => req'[q] = req[q]
  PROVE  Calls' = [Calls EXCEPT ![r] = CallOf(r)']
<1>1. \A q \in Requests : q # r => CallOf(q)' = CallOf(q)
  BY DEF CallOf, Calling
<1>2. QED
  BY <1>1 DEF Calls

(* A step of a handler that makes no call, before or after. *)
LEMMA CallsSame ==
  ASSUME NEW r \in Requests, \A q \in Requests : q # r => req'[q] = req[q],
         ~Calling(r), ~Calling(r)'
  PROVE  Calls' = Calls
<1>1. CallOf(r)' = CallOf(r)
  BY DEF CallOf
<1>2. QED
  BY <1>1, CallsMove DEF Calls

(* The lives of the grants when the store drops a thread's token. *)
LEMMA LifeWithdrawn ==
  ASSUME Inv, NEW t \in Threads, obo' = [obo EXCEPT ![t] = None], UNCHANGED <<status, auth>>,
         \A f \in Flows : BeingStored(f)' <=> BeingStored(f)
  PROVE  Life' = Consents!Withdrawn(t)
<1> SUFFICES ASSUME NEW f \in Flows
             PROVE  Life'[f] = IF Life[f] = "live" /\ auth[f].thread = t THEN "spent" ELSE Life[f]
  BY DEF Consents!Withdrawn, Life
<1>1. TypeOK /\ f # None
  BY NoneAssumption DEF Inv
<1>2. status[f] = "redeemed" => auth[f].thread \in Threads
  BY DEF Inv, OpenedFlowsOK
<1>3. CASE Life[f] = "live" /\ auth[f].thread = t
  <2>1. status[f] = "redeemed" /\ ~BeingStored(f) /\ obo'[auth[f].thread] # f
    BY <1>1, <1>3, LiveIs DEF TypeOK
  <2>2. QED
    BY <1>3, <2>1 DEF Life, LifeOf
<1>4. CASE ~(Life[f] = "live" /\ auth[f].thread = t)
  <2>1. CASE status[f] = "redeemed" /\ ~BeingStored(f)
    <3>1. obo'[auth[f].thread] = f <=> obo[auth[f].thread] = f
      BY <1>1, <1>2, <1>4, <2>1, LiveIs DEF TypeOK
    <3>2. QED
      BY <1>4, <3>1, LifeSame
  <2>2. CASE ~(status[f] = "redeemed" /\ ~BeingStored(f))
    BY <1>1, <1>4, <2>2 DEF Life, LifeOf, TypeOK
  <2>3. QED
    BY <2>1, <2>2
<1>5. QED
  BY <1>3, <1>4

(* No token comes to the store and none is about to: StoringOnce is kept. *)
LEMMA StoringFrame ==
  ASSUME StoringOnce, TypeOK, TypeOK', HandlersOK,
         \A q \in Requests : At(q, "cbstore")' => At(q, "cbstore") /\ req'[q].flow = req[q].flow,
         \A t \in Threads : obo'[t] \in {obo[t], None}
  PROVE  StoringOnce'
<1>1. ASSUME NEW q \in Requests, NEW t \in Threads, At(q, "cbstore")'
      PROVE  obo'[t] # req'[q].flow
  <2>1. At(q, "cbstore") /\ req'[q].flow = req[q].flow /\ HandlerOK(q)
    BY <1>1 DEF HandlersOK
  <2>2. req[q].flow \in Flows
    BY <2>1 DEF HandlerOK, At, CallbackPCs
  <2>3. QED
    BY <2>1, <2>2, NoneAssumption DEF StoringOnce
<1>2. ASSUME NEW p \in Requests, NEW q \in Requests, At(p, "cbstore")', At(q, "cbstore")',
             req'[p].flow = req'[q].flow
      PROVE  p = q
  BY <1>2 DEF StoringOnce
<1>3. QED
  BY <1>1, <1>2 DEF StoringOnce

(* A step of a handler that neither calls nor stores a token shows at most *)
(* as the withdrawal of what a thread holds.                               *)
LEMMA QuietShows ==
  ASSUME Inv, Inv', StoringOnce, NEW r \in Requests,
         \A q \in Requests : q # r => req'[q] = req[q],
         req[r].pc \notin Showing, req'[r].pc \notin Showing, UNCHANGED <<status, auth>>,
         obo' = obo \/ \E t \in Threads : obo' = [obo EXCEPT ![t] = None]
  PROVE  Simulated /\ StoringOnce'
<1>1. Calls' = Calls
  BY CallsSame DEF Showing, Calling
<1>2. \A f \in Flows : BeingStored(f)' <=> BeingStored(f)
  BY StoringSame DEF Showing, At
<1>3. StoringOnce'
  BY StoringFrame DEF Inv, TypeOK, Showing, At
<1>4. CASE obo' = obo
  <2>1. Life' = Life
    BY <1>2, <1>4, LifeSame DEF Life
  <2>2. QED
    BY <1>1, <1>3, <2>1 DEF Simulated
<1>5. ASSUME NEW t \in Threads, obo' = [obo EXCEPT ![t] = None] PROVE Simulated
  BY <1>1, <1>2, <1>5, LifeWithdrawn DEF Simulated, Consents!Next, Consents!Withdraw
<1>6. QED
  BY <1>3, <1>4, <1>5

(* Expiries and whatever else leaves the handlers alone. *)
LEMMA ExpiryShows ==
  ASSUME Inv, Inv', StoringOnce, UNCHANGED <<req, status, auth>>,
         obo' = obo \/ \E t \in Threads : obo' = [obo EXCEPT ![t] = None]
  PROVE  Simulated /\ StoringOnce'
<1>1. Calls' = Calls
  BY DEF Calls, CallOf, Calling
<1>2. \A f \in Flows : BeingStored(f)' <=> BeingStored(f)
  BY DEF BeingStored, At
<1>3. StoringOnce'
  BY StoringFrame DEF Inv, TypeOK, At
<1>4. CASE obo' = obo
  <2>1. Life' = Life
    BY <1>2, <1>4, LifeSame DEF Life
  <2>2. QED
    BY <1>1, <1>3, <2>1 DEF Simulated
<1>5. ASSUME NEW t \in Threads, obo' = [obo EXCEPT ![t] = None] PROVE Simulated
  BY <1>1, <1>2, <1>5, LifeWithdrawn DEF Simulated, Consents!Next, Consents!Withdraw
<1>6. QED
  BY <1>3, <1>4, <1>5

(* The steps of a chat turn, a tool or a callback that touch no token. *)
LEMMA LocalShows ==
  ASSUME Inv, Inv', StoringOnce, NEW r \in Requests,
         \/ ResumeAuthorized(r) \/ DispatchAuthorized(r) \/ LlmAnswer(r)
         \/ \E op \in Ops, a \in Actions, arg \in Payload \cup {NoPending} :
               LlmToolCall(r, op, a, arg)
         \/ Dispatch(r) \/ (\E b \in BOOLEAN : FetchAgentToken(r, b)) \/ RefuseTool(r)
         \/ Preview(r) \/ SetPending(r) \/ CheckState(r)
         \/ FinalizePending(r) \/ ListPreview(r) \/ ListState(r) \/ ListReset(r)
         \/ ReadVerifier(r) \/ DeleteVerifier(r) \/ ExchangeFails(r) \/ CallbackDone(r)
         \/ ClearState(r)
  PROVE  Simulated /\ StoringOnce'
<1>1. req \in [Requests -> Request] /\ req[r] \in Request
  BY DEF Inv, TypeOK
<1>2. req[r].pc \notin Showing
  BY DEF ResumeAuthorized, DispatchAuthorized, LlmAnswer, LlmToolCall, Dispatch, FetchAgentToken,
         RefuseTool, Preview, SetPending, CheckState, FinalizePending, ListPreview, ListState,
         ListReset, ReadVerifier, DeleteVerifier, ExchangeFails, CallbackDone, ClearState,
         At, Showing
<1>3. UNCHANGED <<status, auth, obo>>
  BY DEF ResumeAuthorized, DispatchAuthorized, LlmAnswer, LlmToolCall, Dispatch, FetchAgentToken,
         RefuseTool, Preview, SetPending, CheckState, FinalizePending, ListPreview, ListState,
         ListReset, ReadVerifier, DeleteVerifier, ExchangeFails, CallbackDone, ClearState,
         storeVars, idpVars
<1>4. CASE \/ Finish(r) \/ ToolDone(r)
           \/ \E pc \in {"setpending", "token", "fintokens", "listreset", "cbpost"} : Goto(r, pc)
  <2>1. /\ \A q \in Requests : q # r => req'[q] = req[q]
        /\ req'[r].pc \notin Showing
    BY <1>1, <1>4, FinishFacts, ToolDoneFacts, GotoFacts DEF Idle, Showing, PCs
  <2>2. QED
    BY <1>2, <1>3, <2>1, QuietShows
<1>5. ASSUME \A q \in Requests : q # r => req'[q] = req[q], req'[r].pc \notin Showing
      PROVE  Simulated /\ StoringOnce'
  BY <1>1, <1>2, <1>3, <1>5, QuietShows
<1>6. CASE \E a \in Actions : req' = [req EXCEPT ![r].pc = "pending", ![r].act = a]
  BY <1>1, <1>5, <1>6 DEF Request, Showing
<1>7. CASE DispatchAuthorized(r) /\ ~Finish(r)
  BY <1>1, <1>5, <1>7 DEF Request, Showing, DispatchAuthorized
<1>8. CASE \E op \in Ops, a \in Actions, arg \in Payload \cup {NoPending} :
             LlmToolCall(r, op, a, arg)
  <2>1. PICK op \in Ops, a \in Actions, arg \in Payload \cup {NoPending} :
          LlmToolCall(r, op, a, arg)
    BY <1>8
  <2> DEFINE new == [req[r] EXCEPT !.pc = "dispatch", !.op = op, !.act = a, !.arg = arg,
                                   !.left = req[r].left - 1]
  <2>2. req' = [req EXCEPT ![r] = new]
    BY <2>1, Zenon DEF LlmToolCall
  <2>3. new.pc = "dispatch"
    BY <1>1 DEF Request
  <2> HIDE DEF new
  <2>4. QED
    BY <1>1, <1>5, <2>2, <2>3 DEF Showing
<1>9. CASE Dispatch(r) \/ ReadVerifier(r)
  BY <1>1, <1>5, <1>9 DEF Request, Showing, Dispatch, ReadVerifier
<1>10. CASE req' = [req EXCEPT ![r].pc = "call", ![r].tok = AgentTok]
  BY <1>1, <1>5, <1>10 DEF Request, Showing
<1>11. QED
  BY <1>4, <1>6, <1>7, <1>8, <1>9, <1>10
  DEF ResumeAuthorized, LlmAnswer, FetchAgentToken, RefuseTool, Preview, SetPending, CheckState,
      FinalizePending, ListPreview, ListState, ListReset, DeleteVerifier, ExchangeFails,
      CallbackDone, ClearState

(* The steps that drop a thread's token. *)
LEMMA ClearingShows ==
  ASSUME Inv, Inv', StoringOnce, NEW r \in Requests, FinalizeTokens(r) \/ ListClear(r)
  PROVE  Simulated /\ StoringOnce'
<1>1. req \in [Requests -> Request] /\ ~At(r, "idle") /\ HandlerOK(r)
  BY DEF Inv, TypeOK, FinalizeTokens, ListClear, At, HandlersOK
<1>2. /\ \A q \in Requests : q # r => req'[q] = req[q]
      /\ req[r].pc \notin Showing /\ req'[r].pc \notin Showing
  BY <1>1, ToolDoneFacts, GotoFacts DEF FinalizeTokens, ListClear, At, Showing, PCs
<1>3. req[r].thread \in Threads
  BY <1>1 DEF HandlerOK
<1>4. QED
  BY <1>2, <1>3, QuietShows DEF FinalizeTokens, ListClear, ClearOboTokens, idpVars

(* The requests that arrive, but for /authorize. *)
LEMMA ArrivalShows ==
  ASSUME Inv, Inv', StoringOnce, NEW r \in Requests,
         \/ \E t \in Threads : Clear(r, t)
         \/ \E t \in Threads, mode \in {"auth", "llm"}, c \in BOOLEAN : Chat(r, t, mode, c)
         \/ \E t \in Threads, op \in Ops, a \in Actions, arg \in Payload \cup {NoPending},
               tok \in Bearers : McpCall(r, t, op, a, arg, tok)
         \/ \E f \in Flows : Callback(r, f)
  PROVE  Simulated /\ StoringOnce'
<1>1. req \in [Requests -> Request]
  BY DEF Inv, TypeOK
<1>2. /\ req[r].pc \notin Showing /\ UNCHANGED <<status, auth>>
      /\ obo' = obo \/ \E t \in Threads : obo' = [obo EXCEPT ![t] = None]
  BY DEF Clear, Chat, McpCall, Callback, At, Showing, storeVars, idpVars, ClearOboTokens
<1>3. /\ \A q \in Requests : q # r => req'[q] = req[q]
      /\ req'[r].pc \in {"clear", "run", "call", "cbget"}
  <2>1. CASE \E t \in Threads : Clear(r, t)
    BY <1>1, <2>1 DEF Clear, Idle
  <2>2. CASE \E t \in Threads, mode \in {"auth", "llm"}, c \in BOOLEAN : Chat(r, t, mode, c)
    BY <1>1, <2>2 DEF Chat, Idle
  <2>3. CASE \E t \in Threads, op \in Ops, a \in Actions, arg \in Payload \cup {NoPending},
               tok \in Bearers : McpCall(r, t, op, a, arg, tok)
    BY <1>1, <2>3 DEF McpCall, Idle
  <2>4. CASE \E f \in Flows : Callback(r, f)
    <3>1. PICK f \in Flows : Callback(r, f)
      BY <2>4
    <3> DEFINE new == [Idle EXCEPT !.pc = "cbget", !.mode = "oauth",
                                   !.thread = auth[f].thread, !.flow = f]
    <3>2. req' = [req EXCEPT ![r] = new] /\ new.pc = "cbget"
      BY <3>1 DEF Callback, Idle
    <3> HIDE DEF new
    <3>3. QED
      BY <1>1, <3>2
  <2>5. QED
    BY <2>1, <2>2, <2>3, <2>4
<1>4. QED
  BY <1>2, <1>3, QuietShows DEF Showing

(* The last check before a write, and that of list_meetings, let a call    *)
(* begin only while the thread holds the token.                            *)
LEMMA BeginShows ==
  ASSUME Inv, Inv', StoringOnce, NEW r \in Requests, CheckToken(r) \/ ListCheck(r)
  PROVE  Simulated /\ StoringOnce'
<1>1. /\ req \in [Requests -> Request] /\ UNCHANGED <<storeVars, idpVars>>
      /\ HandlerOK(r) /\ req[r].pc \in {"call", "token"}
  BY DEF Inv, TypeOK, HandlersOK, CheckToken, ListCheck, At
<1>2. CASE ToolDone(r) \/ Goto(r, "listclear")
  <2>1. /\ \A q \in Requests : q # r => req'[q] = req[q]
        /\ req[r].pc \notin Showing /\ req'[r].pc \notin Showing
    BY <1>1, <1>2, ToolDoneFacts, GotoFacts DEF Showing, PCs
  <2>2. QED
    BY <1>1, <2>1, QuietShows DEF storeVars, idpVars
<1>3. CASE ~(ToolDone(r) \/ Goto(r, "listclear"))
  <2> DEFINE t == req[r].thread
             g == req[r].tok
             a == req[r].act
  <2>1. obo[t] # None /\ obo[t] = g /\ (Goto(r, "post") \/ Goto(r, "get"))
    BY <1>3 DEF CheckToken, ListCheck
  <2>2. t \in Threads /\ g \in Flows /\ Delegated(g) /\ auth[g].thread = t
    BY <1>1, <2>1 DEF Inv, HandlerOK, At, StoredTokensOK, Delegated
  <2>3. a \in Actions
    BY <1>1 DEF HandlerOK
  <2>4. /\ \A q \in Requests : q # r => req'[q] = req[q]
        /\ req'[r].pc \in {"post", "get"} /\ req'[r].thread = t
        /\ req'[r].tok = g /\ req'[r].act = a
    BY <1>1, <2>1, GotoFacts DEF PCs
  <2>5. a \in AgentScopes(g)
    <3>1. HandlerOK(r)' /\ auth' = auth
      BY <1>1 DEF Inv, HandlersOK, idpVars
    <3>2. QED
      BY <2>4, <3>1 DEF HandlerOK, AgentScopes
  <2>6. a \in Consents!Covered(auth[g].action)
    BY <2>2, <2>5, NoneAssumption DEF AgentScopes, Consents!Covered
  <2>7. Life[g] = "live"
    BY <2>1, <2>2, LiveIs DEF BeingStored, StoringOnce, Delegated
  <2>8. Life' = Life
    <3>1. \A f \in Flows : BeingStored(f)' <=> BeingStored(f)
      BY <1>1, <2>4, StoringSame DEF At
    <3>2. QED
      BY <1>1, <3>1, LifeSame DEF Life, storeVars, idpVars
  <2>9. StoringOnce'
    BY <1>1, <2>4, StoringFrame DEF Inv, TypeOK, At, storeVars
  <2>10. CallOf(r)' = [grant |-> g, thread |-> auth[g].thread, act |-> a]
    BY <2>2, <2>4 DEF CallOf, Calling
  <2>11. Calls[r] = Consents!NoCall
    BY <1>1 DEF Calls, CallOf, Calling, Consents!NoCall
  <2> HIDE DEF g, a, t
  <2>12. Calls' = [Calls EXCEPT ![r] = [grant |-> g, thread |-> auth[g].thread, act |-> a]]
    BY <2>4, <2>10, CallsMove
  <2>13. Consents!Begin(r, g, a)
    BY <1>1, <2>6, <2>7, <2>8, <2>11, <2>12 DEF Consents!Begin, idpVars
  <2>14. QED
    BY <2>2, <2>3, <2>9, <2>13 DEF Simulated, Consents!Next
<1>4. QED
  BY <1>2, <1>3

(* The answer of a call, or its loss, ends it; a committed write is still  *)
(* the same call until its answer is read.                                 *)
LEMMA ReturnShows ==
  ASSUME Inv, Inv', StoringOnce, NEW r \in Requests,
         \/ ApiWrite(r) \/ ApiRefuseWrite(r) \/ ApiTimeout(r) \/ FinalizeState(r)
         \/ \E ok \in BOOLEAN : ApiList(r, ok)
  PROVE  Simulated /\ StoringOnce'
<1>1. /\ req \in [Requests -> Request] /\ UNCHANGED <<obo, status, auth>>
      /\ HandlerOK(r) /\ req[r].pc \in {"post", "ok", "get"}
  BY DEF Inv, TypeOK, HandlersOK, ApiWrite, ApiRefuseWrite, ApiTimeout, FinalizeState, ApiList,
         At, storeVars, idpVars
<1>2. \/ Finish(r) \/ ToolDone(r)
      \/ \E pc \in {"finpending", "liststate", "listclear"} : Goto(r, pc)
      \/ Goto(r, "ok")
  BY DEF ApiWrite, ApiRefuseWrite, ApiTimeout, FinalizeState, ApiList
<1>3. /\ \A q \in Requests : q # r => req'[q] = req[q]
      /\ \/ ~Calling(r)'
         \/ /\ Calling(r)' /\ req'[r].thread = req[r].thread
            /\ req'[r].tok = req[r].tok /\ req'[r].act = req[r].act
      /\ ~At(r, "cbstore") /\ ~At(r, "cbstore")'
  BY <1>1, <1>2, FinishFacts, ToolDoneFacts, GotoFacts DEF Idle, PCs, Calling, At
<1>4. StoringOnce'
  BY <1>1, <1>3, StoringFrame DEF Inv, TypeOK, At
<1>5. Life' = Life
  <2>1. \A f \in Flows : BeingStored(f)' <=> BeingStored(f)
    BY <1>3, StoringSame
  <2>2. QED
    BY <1>1, <2>1, LifeSame DEF Life
<1>6. CASE Calling(r)'
  <2>1. CallOf(r)' = CallOf(r)
    BY <1>1, <1>3, <1>6 DEF CallOf, Calling
  <2>2. Calls' = Calls
    BY <1>3, <2>1, CallsMove DEF Calls
  <2>3. QED
    BY <1>1, <1>4, <1>5, <2>2 DEF Simulated
<1>7. CASE ~Calling(r)'
  <2>1. CallOf(r)' = Consents!NoCall
    BY <1>7 DEF CallOf, Consents!NoCall
  <2>2. Calls[r] # Consents!NoCall
    <3>1. Calls[r].grant = req[r].tok /\ req[r].tok \in Flows
      BY <1>1 DEF Calls, CallOf, Calling, HandlerOK, Delegated
    <3>2. QED
      BY <3>1, NoneAssumption DEF Consents!NoCall
  <2>3. Consents!Return(r)
    BY <1>1, <1>3, <1>5, <2>1, <2>2, CallsMove DEF Consents!Return
  <2>4. QED
    BY <1>4, <2>3 DEF Simulated, Consents!Next
<1>8. QED
  BY <1>6, <1>7

(* GET /authorize asks for a new grant and gives up the thread's old one. *)
LEMMA AuthorizeShows ==
  ASSUME Inv, Inv', StoringOnce, NEW r \in Requests, NEW t \in Threads, NEW a \in Actions,
         NEW f \in Flows, Authorize(r, t, a, f)
  PROVE  Simulated /\ StoringOnce'
<1> DEFINE new == [Idle EXCEPT !.pc = "pkce", !.mode = "oauth", !.thread = t, !.flow = f]
<1>1. TypeOK /\ TypeOK' /\ HandlersOK /\ status[f] = "unused"
  BY DEF Inv, Authorize
<1>2. req' = [req EXCEPT ![r] = new] /\ new.pc = "pkce"
  BY DEF Authorize, Idle
<1> HIDE DEF new
<1>3. /\ \A q \in Requests : q # r => req'[q] = req[q]
      /\ ~Calling(r) /\ ~Calling(r)' /\ ~At(r, "cbstore") /\ ~At(r, "cbstore")'
  BY <1>1, <1>2 DEF TypeOK, Authorize, At, Calling
<1>4. Calls' = Calls
  BY <1>3, CallsSame
<1>5. \A g \in Flows : BeingStored(g)' <=> BeingStored(g)
  BY <1>3, StoringSame
<1>6. obo' = [obo EXCEPT ![t] = None]
  BY DEF Authorize, ClearOboTokens
<1>7. /\ status'[f] = "opening"
      /\ \A g \in Flows : g # f => status'[g] = status[g] /\ auth'[g] = auth[g]
  BY <1>1 DEF TypeOK, Authorize
<1>8. StoringOnce'
  BY <1>1, <1>3, <1>6, StoringFrame DEF TypeOK, At
<1>9. Life[f] = "none" /\ Life'[f] = "asked"
  BY <1>1, <1>7, LifeCases, LifeCasesNext
<1>10. ASSUME NEW g \in Flows, g # f
       PROVE  Life'[g] = IF Life[g] = "live" /\ auth[g].thread = t THEN "spent" ELSE Life[g]
  <2>1. /\ status'[g] = status[g] /\ auth'[g] = auth[g]
        /\ BeingStored(g)' <=> BeingStored(g)
    BY <1>5, <1>7, <1>10
  <2>2. status[g] = "redeemed" => auth[g].thread \in Threads
    BY DEF Inv, OpenedFlowsOK
  <2>3. g # None
    BY NoneAssumption
  <2>4. CASE status[g] = "redeemed" /\ ~BeingStored(g)
    <3>1. obo'[auth[g].thread] = g <=> obo[auth[g].thread] = g /\ auth[g].thread # t
      BY <1>1, <1>6, <2>2, <2>3, <2>4 DEF TypeOK
    <3>2. QED
      BY <1>1, <2>1, <2>4, <3>1, LifeCases, LifeCasesNext
  <2>5. CASE ~(status[g] = "redeemed" /\ ~BeingStored(g))
    <3>1. Life[g] # "live"
      BY <2>5, LiveIs
    <3>2. status[g] \in {"unused", "opening", "started", "consented", "redeemed"}
      BY <1>1 DEF TypeOK
    <3>3. QED
      BY <1>1, <2>1, <2>5, <3>1, <3>2, LifeCases, LifeCasesNext
  <2>6. QED
    BY <2>4, <2>5
<1>11. Life' = [Consents!Withdrawn(t) EXCEPT ![f] = "asked"]
  BY <1>9, <1>10 DEF Consents!Withdrawn, Life
<1>12. Consents!Ask(f, t, a)
  BY <1>4, <1>9, <1>11 DEF Consents!Ask, Authorize
<1>13. QED
  BY <1>8, <1>12 DEF Simulated, Consents!Next

(* One flow's status moves on, and nothing else about grants: so does one  *)
(* life.                                                                   *)
LEMMA LifeMoves ==
  ASSUME NEW f \in Flows, NEW s, TypeOK, status' = [status EXCEPT ![f] = s],
         UNCHANGED <<obo, auth>>,
         \A g \in Flows : g # f => (BeingStored(g)' <=> BeingStored(g))
  PROVE  Life' = [Life EXCEPT ![f] = Life'[f]]
<1>1. ASSUME NEW g \in Flows, g # f PROVE Life'[g] = Life[g]
  <2>1. status'[g] = status[g]
    BY <1>1 DEF TypeOK
  <2>2. QED
    BY <1>1, <2>1, LifeSame
<1>2. QED
  BY <1>1 DEF Life

(* The redirect does not show: the grant is still asked for. *)
LEMMA AuthorizeRedirectShows ==
  ASSUME Inv, Inv', StoringOnce, NEW r \in Requests, AuthorizeRedirect(r)
  PROVE  Simulated /\ StoringOnce'
<1> DEFINE f == req[r].flow
<1>1. TypeOK /\ TypeOK' /\ HandlersOK /\ HandlerOK(r)
  BY DEF Inv, HandlersOK
<1>2. f \in Flows /\ status[f] = "opening"
  BY <1>1 DEF HandlerOK, AuthorizeRedirect
<1>3. /\ \A q \in Requests : q # r => req'[q] = req[q]
      /\ ~Calling(r) /\ ~Calling(r)' /\ ~At(r, "cbstore") /\ ~At(r, "cbstore")'
  BY <1>1, FinishFacts DEF TypeOK, AuthorizeRedirect, At, Calling, Idle
<1>4. \A g \in Flows : BeingStored(g)' <=> BeingStored(g)
  BY <1>3, StoringSame
<1>5. status' = [status EXCEPT ![f] = "started"] /\ UNCHANGED <<obo, auth>>
  BY DEF AuthorizeRedirect
<1>6. status'[f] = "started"
  BY <1>1, <1>2, <1>5 DEF TypeOK
<1> HIDE DEF f
<1>7. Life[f] = "asked" /\ Life'[f] = "asked"
  BY <1>1, <1>2, <1>6, LifeCases, LifeCasesNext
<1>8. Life' = Life
  BY <1>1, <1>2, <1>4, <1>5, <1>7, LifeMoves DEF Life
<1>9. StoringOnce'
  BY <1>1, <1>3, <1>5, StoringFrame DEF TypeOK, At
<1>10. QED
  BY <1>3, <1>5, <1>8, <1>9, CallsSame DEF Simulated

(* The user's consent gives the grant. *)
LEMMA UserConsentsShows ==
  ASSUME Inv, Inv', StoringOnce, NEW f \in Flows, UserConsents(f)
  PROVE  Simulated /\ StoringOnce'
<1>1. TypeOK /\ TypeOK' /\ HandlersOK /\ status[f] = "started"
  BY DEF Inv, UserConsents
<1>2. /\ status' = [status EXCEPT ![f] = "consented"] /\ UNCHANGED <<req, obo, auth>>
      /\ status'[f] = "consented"
  BY <1>1 DEF UserConsents, storeVars, TypeOK
<1>3. \A g \in Flows : BeingStored(g)' <=> BeingStored(g)
  BY <1>2 DEF BeingStored, At
<1>4. Life[f] = "asked" /\ Life'[f] = "given"
  BY <1>1, <1>2, LifeCases, LifeCasesNext
<1>5. Life' = [Life EXCEPT ![f] = "given"]
  BY <1>1, <1>2, <1>3, <1>4, LifeMoves
<1>6. Calls' = Calls
  BY <1>2 DEF Calls, CallOf, Calling
<1>7. StoringOnce'
  BY <1>1, <1>2, StoringFrame DEF TypeOK, At
<1>8. Consents!Give(f)
  BY <1>2, <1>4, <1>5, <1>6 DEF Consents!Give
<1>9. QED
  BY <1>7, <1>8 DEF Simulated, Consents!Next

(* The token endpoint hands the token out, once, or it is lost on the way. *)
LEMMA RedeemShows ==
  ASSUME Inv, Inv', StoringOnce, NEW r \in Requests, NEW heard \in BOOLEAN,
         RedeemCode(r, heard)
  PROVE  Simulated /\ StoringOnce'
<1> DEFINE f == req[r].flow
<1>1. TypeOK /\ TypeOK' /\ HandlersOK /\ HandlerOK(r) /\ At(r, "cbpost")
  BY DEF Inv, HandlersOK, RedeemCode
<1>2. f \in Flows /\ status[f] = "consented" /\ auth[f].thread \in Threads
  BY <1>1 DEF HandlerOK, At, CallbackPCs, RedeemCode, Inv, OpenedFlowsOK
<1>3. status' = [status EXCEPT ![f] = "redeemed"] /\ UNCHANGED <<obo, auth>>
  BY DEF RedeemCode, storeVars
<1>4. status'[f] = "redeemed"
  BY <1>1, <1>2, <1>3 DEF TypeOK
<1>5. /\ \A q \in Requests : q # r => req'[q] = req[q]
      /\ ~Calling(r) /\ ~Calling(r)' /\ ~At(r, "cbstore")
      /\ \/ At(r, "cbstore")' /\ req'[r].flow = f
         \/ ~At(r, "cbstore")'
  BY <1>1, FinishFacts, GotoFacts DEF TypeOK, RedeemCode, At, Calling, Idle, PCs
<1>6. \A q \in Requests : At(q, "cbstore") => req[q].flow # f
  BY <1>1, <1>2 DEF HandlersOK, HandlerOK, At
<1>7. \A t \in Threads : obo[t] # f
  BY <1>2, NoneAssumption DEF Inv, StoredTokensOK, Delegated
<1> HIDE DEF f
<1>8. \A g \in Flows : g # f => (BeingStored(g)' <=> BeingStored(g))
  BY <1>5 DEF BeingStored, At
<1>9. Life[f] = "given"
  BY <1>1, <1>2, LifeCases
<1>10. Life'[f] \in {"due", "spent"}
  BY <1>1, <1>2, <1>3, <1>4, <1>7, LifeCasesNext
<1>11. Life' = [Life EXCEPT ![f] = Life'[f]]
  BY <1>1, <1>2, <1>3, <1>8, LifeMoves
<1>12. Calls' = Calls
  BY <1>5, CallsSame
<1>13. StoringOnce'
  <2>1. ASSUME NEW q \in Requests, NEW t \in Threads, At(q, "cbstore")'
        PROVE  obo'[t] # req'[q].flow
    BY <1>3, <1>5, <1>7, <2>1 DEF StoringOnce, At
  <2>2. ASSUME NEW p \in Requests, NEW q \in Requests, At(p, "cbstore")', At(q, "cbstore")',
               req'[p].flow = req'[q].flow
        PROVE  p = q
    BY <1>5, <1>6, <2>2 DEF StoringOnce, At
  <2>3. QED
    BY <2>1, <2>2 DEF StoringOnce
<1>14. Consents!Collect(f)
  BY <1>3, <1>9, <1>10, <1>11, <1>12 DEF Consents!Collect
<1>15. QED
  BY <1>2, <1>13, <1>14 DEF Simulated, Consents!Next

(* _store_obo_token installs the grant in the place of the thread's old one. *)
LEMMA StoreShows ==
  ASSUME Inv, Inv', StoringOnce, NEW r \in Requests, StoreOboToken(r)
  PROVE  Simulated /\ StoringOnce'
<1>1. TypeOK /\ TypeOK' /\ HandlersOK /\ HandlerOK(r) /\ At(r, "cbstore")
  BY DEF Inv, HandlersOK, StoreOboToken
<1> PICK f \in Flows, t \in Threads : f = req[r].flow /\ t = req[r].thread
  BY <1>1 DEF HandlerOK, At, CallbackPCs
<1>2. /\ status[f] = "redeemed" /\ auth[f].thread = t
      /\ UNCHANGED <<status, auth>> /\ obo' = [obo EXCEPT ![t] = f]
  BY <1>1 DEF HandlerOK, At, CallbackPCs, StoreOboToken, idpVars
<1>3. /\ \A q \in Requests : q # r => req'[q] = req[q]
      /\ ~Calling(r) /\ ~Calling(r)' /\ ~At(r, "cbstore")'
  BY <1>1, GotoFacts DEF TypeOK, StoreOboToken, At, Calling, PCs
<1>4. \A q \in Requests : At(q, "cbstore") /\ req[q].flow = f => q = r
  BY <1>1 DEF StoringOnce
<1>5. At(r, "cbstore") /\ req[r].flow = f
  BY <1>1
<1>6. BeingStored(f) /\ ~BeingStored(f)'
  BY <1>3, <1>4, <1>5 DEF BeingStored, At
<1>7. \A g \in Flows : g # f => (BeingStored(g)' <=> BeingStored(g))
  BY <1>3, <1>5 DEF BeingStored, At
<1>8. obo'[t] = f /\ \A u \in Threads : u # t => obo'[u] = obo[u]
  <2>1. obo \in [Threads -> Flows \cup {None}]
    BY <1>1 DEF TypeOK
  <2>2. QED
    BY <1>2, <2>1
<1>9. Life[f] = "due" /\ Life'[f] = "live"
  BY <1>1, <1>2, <1>6, <1>8, LifeCases, LifeCasesNext
<1>10. ASSUME NEW g \in Flows, g # f
       PROVE  Life'[g] = IF Life[g] = "live" /\ auth[g].thread = t THEN "spent" ELSE Life[g]
  <2>1. status[g] = "redeemed" => auth[g].thread \in Threads
    BY DEF Inv, OpenedFlowsOK
  <2>2. CASE status[g] = "redeemed" /\ ~BeingStored(g)
    <3>1. obo'[auth[g].thread] = g <=> obo[auth[g].thread] = g /\ auth[g].thread # t
      BY <1>8, <1>10, <2>1, <2>2
    <3>2. QED
      BY <1>1, <1>2, <1>7, <1>10, <2>2, <3>1, LifeCases, LifeCasesNext
  <2>3. CASE ~(status[g] = "redeemed" /\ ~BeingStored(g))
    <3>1. Life[g] # "live"
      BY <2>3, LiveIs
    <3>2. status[g] \in {"unused", "opening", "started", "consented", "redeemed"}
      BY <1>1 DEF TypeOK
    <3>3. QED
      BY <1>1, <1>2, <1>7, <1>10, <2>3, <3>1, <3>2, LifeCases, LifeCasesNext
  <2>4. QED
    BY <2>2, <2>3
<1>11. Life' = [Consents!Withdrawn(auth[f].thread) EXCEPT ![f] = "live"]
  BY <1>2, <1>9, <1>10 DEF Consents!Withdrawn, Life
<1>12. Calls' = Calls
  BY <1>3, CallsSame
<1>13. StoringOnce'
  <2>1. ASSUME NEW q \in Requests, NEW u \in Threads, At(q, "cbstore")'
        PROVE  obo'[u] # req'[q].flow
    <3>1. q # r /\ req'[q] = req[q] /\ At(q, "cbstore")
      BY <1>3, <2>1 DEF At
    <3>2. req[q].flow # f /\ obo[u] # req[q].flow
      BY <1>4, <3>1 DEF StoringOnce
    <3>3. QED
      BY <1>8, <3>1, <3>2
  <2>2. ASSUME NEW p \in Requests, NEW q \in Requests, At(p, "cbstore")', At(q, "cbstore")',
               req'[p].flow = req'[q].flow
        PROVE  p = q
    BY <1>3, <2>2 DEF StoringOnce, At
  <2>3. QED
    BY <2>1, <2>2 DEF StoringOnce
<1>14. Consents!Install(f)
  BY <1>2, <1>9, <1>11, <1>12 DEF Consents!Install
<1>15. QED
  BY <1>2, <1>13, <1>14 DEF Simulated, Consents!Next

(* Every step of the agent is a step of Delegation or does not show in it,  *)
(* and a token is stored once.                                             *)
LEMMA StepShows ==
  ASSUME Inv, Inv', StoringOnce, [Next]_vars
  PROVE  Simulated /\ StoringOnce'
<1>1. ASSUME NEW r \in Requests, HandlerStep(r) PROVE Simulated /\ StoringOnce'
  <2>1. CASE \/ ResumeAuthorized(r) \/ DispatchAuthorized(r) \/ LlmAnswer(r)
             \/ \E op \in Ops, a \in Actions, arg \in Payload \cup {NoPending} :
                   LlmToolCall(r, op, a, arg)
             \/ Dispatch(r) \/ (\E b \in BOOLEAN : FetchAgentToken(r, b)) \/ RefuseTool(r)
             \/ Preview(r) \/ SetPending(r) \/ CheckState(r)
             \/ FinalizePending(r) \/ ListPreview(r) \/ ListState(r) \/ ListReset(r)
             \/ ReadVerifier(r) \/ DeleteVerifier(r) \/ ExchangeFails(r) \/ CallbackDone(r)
             \/ ClearState(r)
    BY <2>1, LocalShows
  <2>2. CASE FinalizeTokens(r) \/ ListClear(r)
    BY <2>2, ClearingShows
  <2>3. CASE CheckToken(r) \/ ListCheck(r)
    BY <2>3, BeginShows
  <2>4. CASE \/ ApiWrite(r) \/ ApiRefuseWrite(r) \/ ApiTimeout(r) \/ FinalizeState(r)
             \/ \E ok \in BOOLEAN : ApiList(r, ok)
    BY <2>4, ReturnShows
  <2>5. CASE AuthorizeRedirect(r)
    BY <2>5, AuthorizeRedirectShows
  <2>6. CASE \E b \in BOOLEAN : RedeemCode(r, b)
    BY <2>6, RedeemShows
  <2>7. CASE StoreOboToken(r)
    BY <2>7, StoreShows
  <2>8. QED
    BY <1>1, <2>1, <2>2, <2>3, <2>4, <2>5, <2>6, <2>7 DEF HandlerStep, GeminiStep, StoreStep, HttpStep
<1>2. ASSUME NEW r \in Requests, Arrival(r) PROVE Simulated /\ StoringOnce'
  <2>1. CASE \E t \in Threads, a \in Actions, f \in Flows : Authorize(r, t, a, f)
    BY <2>1, AuthorizeShows
  <2>2. CASE ~\E t \in Threads, a \in Actions, f \in Flows : Authorize(r, t, a, f)
    BY <1>2, <2>2, ArrivalShows DEF Arrival
  <2>3. QED
    BY <2>1, <2>2
<1>3. CASE Environment \/ UNCHANGED vars
  <2>1. CASE \E f \in Flows : UserConsents(f)
    BY <2>1, UserConsentsShows
  <2>2. CASE ~\E f \in Flows : UserConsents(f)
    <3>1. /\ UNCHANGED <<req, status, auth>>
          /\ obo' = obo \/ \E t \in Threads : obo' = [obo EXCEPT ![t] = None]
      BY <1>3, <2>2 DEF Environment, StateExpires, StateEntryExpires, OboTokenExpires,
                        VerifierExpires, vars, storeVars, idpVars
    <3>2. QED
      BY <3>1, ExpiryShows
  <2>3. QED
    BY <2>1, <2>2
<1>4. QED
  BY <1>1, <1>2, <1>3 DEF Next

(* The first state of the agent is the first state of Delegation. *)
LEMMA InitShows == Init => Consents!Init /\ StoringOnce
<1> SUFFICES ASSUME Init PROVE Consents!Init /\ StoringOnce
  OBVIOUS
<1>1. \A r \in Requests : req[r].pc = "idle"
  BY DEF Init, Idle
<1>2. StoringOnce
  BY <1>1 DEF StoringOnce, At
<1>3. ASSUME NEW f \in Flows PROVE LifeOf(f) = "none"
  BY DEF Init, LifeOf
<1>4. ASSUME NEW r \in Requests PROVE CallOf(r) = Consents!NoCall
  BY <1>1 DEF CallOf, Calling, Consents!NoCall
<1>5. QED
  BY <1>2, <1>3, <1>4 DEF Consents!Init, Init, Life, Calls

(* A token is on its way to the store once, and not while it is there.     *)
THEOREM StoringOnceAlways == Spec => []StoringOnce
<1>1. Inv /\ Inv' /\ StoringOnce /\ [Next]_vars => StoringOnce'
  BY StepShows
<1>2. QED
  BY <1>1, InitShows, Invariance, PTL DEF Spec

(* For every number of threads, handlers and consents, every set of actions *)
(* and every token in the hands of MCP clients, the agent implements        *)
(* Delegation: its store and its handlers spend each consent once, and only *)
(* while the thread holds it.                                              *)
THEOREM ConsentRefinement == Spec => ConsentSpec
<1>1. Inv /\ Inv' /\ StoringOnce /\ [Next]_vars => [Consents!Next]_(Consents!vars)
  BY StepShows DEF Simulated, Consents!vars
<1>2. QED
  BY <1>1, InitShows, Invariance, StoringOnceAlways, PTL DEF Spec, ConsentSpec, Consents!Spec

(* A spent grant stays spent. *)
LEMMA SpentStep ==
  ASSUME Simulated, NEW f \in Flows, Life[f] = "spent"
  PROVE  Life'[f] = "spent"
<1>1. Life \in [Flows -> {LifeOf(g) : g \in Flows}]
  BY DEF Life
<1>2. CASE Life' = Life
  BY <1>2
<1>3. CASE Consents!Next
  BY <1>1, <1>3 DEF Consents!Next, Consents!Ask, Consents!Give, Consents!Collect,
                    Consents!Install, Consents!Withdraw, Consents!Begin, Consents!Return,
                    Consents!Withdrawn
<1>4. QED
  BY <1>2, <1>3 DEF Simulated

(* A delegated token that was lost, cleared, replaced or used up is never  *)
(* in the store again: no repeated /callback brings it back.               *)
THEOREM SpentForGood ==
  Spec => [][\A f \in Flows : Life[f] = "spent" => Life'[f] = "spent"]_vars
<1>1. Inv /\ Inv' /\ StoringOnce /\ [Next]_vars =>
        [\A f \in Flows : Life[f] = "spent" => Life'[f] = "spent"]_vars
  BY StepShows, SpentStep
<1>2. QED
  BY <1>1, Invariance, StoringOnceAlways, PTL DEF Spec
=============================================================================

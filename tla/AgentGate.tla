------------------------------ MODULE AgentGate ------------------------------
(***************************************************************************)
(* What a request meets before a handler of the agent runs: the rate       *)
(* limit, then, on the routes for services, the check of the service token *)
(* against a cached copy of WSO2 IS's signing keys that outlives its TTL   *)
(* while WSO2 IS is unreachable, and, on /mcp/sse, the pool of streams.    *)
(*                                                                         *)
(* FastAPI resolves the dependencies of a route in order; the token check  *)
(* is synchronous and runs on a thread pool, so key fetches overlap.       *)
(***************************************************************************)
EXTENDS Naturals, FiniteSets

CONSTANTS
    Requests,     \* requests in progress at once
    Clients,      \* client identities
    Routes,       \* "chat" stands for /chat and /chat/stream, "state" for the other
                  \* service routes (/state, /agent-token, /clear), "sse" for /mcp/sse
    Limit,        \* Limit[b]: hits a bucket takes per window
    MaxStreams,   \* MAX_MCP_SSE_STREAMS
    TTL,          \* JWKSCache.TTL_SECONDS, in ticks
    Latency,      \* longest key fetch (_JWKS_FETCH_TIMEOUT_SECONDS), in ticks
    MaxClock,     \* bound on time
    None

ASSUME RequestsAssumption == IsFiniteSet(Requests)
ASSUME RoutesAssumption == Routes \subseteq {"chat", "state", "sse"}
ASSUME LimitAssumption == Limit \in [{"CHAT_LIMIT", "DEFAULT_LIMIT"} -> Nat]
ASSUME StreamsAssumption == MaxStreams \in Nat
ASSUME TimeAssumption == TTL \in Nat \ {0} /\ Latency \in Nat /\ MaxClock \in Nat
ASSUME NoneAssumption == None \notin Clients

VARIABLES
    clock,
    signing,    \* the key WSO2 IS signs with and publishes
    rotated,    \* history: when key 1 was withdrawn
    hits,       \* hits[b][c]: hits of client c in the current window of bucket b
    checked,    \* history, checked[b][c]: tokens looked at of requests admitted in it
    jwks,       \* JWKSCache: the key it holds, 0 for none, and its time
    streams,    \* _mcp_sse_streams
    req         \* req[r]: the request in progress

worldVars == <<clock, signing, rotated>>
limiterVars == <<hits, checked>>
vars == <<worldVars, limiterVars, jwks, streams, req>>

-----------------------------------------------------------------------------
(* The limits of common/rate_limit.py and the one each route takes. *)
Buckets == {"CHAT_LIMIT", "DEFAULT_LIMIT"}
Bucket(route) == IF route = "chat" THEN "CHAT_LIMIT" ELSE "DEFAULT_LIMIT"

(* A bearer token: none, or one signed by key 1 or by key 2, which WSO2 IS *)
(* publishes only after a rotation: until then no key verifies it.         *)
Keys == {1, 2}
Tokens == Keys \cup {None}
Times == 0..MaxClock

Pcs == {"idle", "gate", "auth", "fetch", "fetched", "verify", "handler", "slot", "open", "full"}

NoReq == [pc |-> "idle", route |-> "chat", client |-> None, tok |-> None, key |-> 0,
          failed |-> FALSE, since |-> 0, current |-> FALSE]

RequestStates ==
    [pc : Pcs, route : Routes \cup {"chat"}, client : Clients \cup {None}, tok : Tokens,
     key : Keys \cup {0}, failed : BOOLEAN, since : Times, current : BOOLEAN]

TypeOK ==
    /\ clock \in Times /\ signing \in Keys /\ rotated \in Times
    /\ hits \in [Buckets -> [Clients -> Nat]]
    /\ \A b \in Buckets, c \in Clients : hits[b][c] <= Limit[b] + 1
    /\ checked \in [Buckets -> [Clients -> Nat]]
    /\ jwks \in [key : Keys \cup {0}, at : Times]
    /\ streams \in 0..MaxStreams
    /\ req \in [Requests -> RequestStates]

Init ==
    /\ clock = 0 /\ signing = 1 /\ rotated = 0
    /\ hits = [b \in Buckets |-> [c \in Clients |-> 0]]
    /\ checked = [b \in Buckets |-> [c \in Clients |-> 0]]
    /\ jwks = [key |-> 0, at |-> 0]
    /\ streams = 0
    /\ req = [r \in Requests |-> NoReq]

At(r, pc) == req[r].pc = pc
Goto(r, pc) == req' = [req EXCEPT ![r].pc = pc]
Respond(r) == req' = [req EXCEPT ![r] = NoReq]

-----------------------------------------------------------------------------
Arrive(r, route, c, tok) ==
    /\ At(r, "idle")
    /\ route = "sse" => tok = None   \* taken along for the tools, not checked here
    /\ req' = [req EXCEPT ![r] = [NoReq EXCEPT !.pc = "gate", !.route = route,
                                               !.client = c, !.tok = tok]]
    /\ UNCHANGED <<worldVars, limiterVars, jwks, streams>>

Admitted(r) ==
    req' = [req EXCEPT ![r].pc = IF req[r].route = "sse" THEN "slot" ELSE "auth",
                       ![r].current = req[r].route # "sse"]

(* As if the limit only counted requests whose token had been checked. *)
RateLimitLate(r) ==
    /\ At(r, "gate")
    /\ Admitted(r)
    /\ UNCHANGED <<worldVars, limiterVars, jwks, streams>>

(* rate_limit_dependency: one hit of the bucket, refused hits included. *)
RateLimit(r) ==
    LET b == Bucket(req[r].route)
        c == req[r].client
    IN  /\ At(r, "gate")
        /\ IF hits[b][c] < Limit[b] THEN Admitted(r) ELSE Respond(r)
        /\ hits' = [hits EXCEPT ![b][c] = IF @ > Limit[b] THEN @ ELSE @ + 1]
        /\ UNCHANGED <<worldVars, checked, jwks, streams>>

(* The storage of the limits is Redis and unreachable: hit raises, a 500. *)
LimiterDown(r) ==
    /\ At(r, "gate")
    /\ Respond(r)
    /\ UNCHANGED <<worldVars, limiterVars, jwks, streams>>

(* A window of the fixed-window limiter ends. *)
WindowEnds(b, c) ==
    /\ hits[b][c] > 0
    /\ hits' = [hits EXCEPT ![b][c] = 0]
    /\ checked' = [checked EXCEPT ![b][c] = 0]
    /\ req' = [r \in Requests |->
                  IF Bucket(req[r].route) = b /\ req[r].client = c
                  THEN [req[r] EXCEPT !.current = FALSE] ELSE req[r]]
    /\ UNCHANGED <<worldVars, jwks, streams>>

-----------------------------------------------------------------------------
(* require_service_auth and the agent's get_jwks *)

NoToken(r) ==
    /\ At(r, "auth") /\ req[r].tok = None
    /\ Respond(r)
    /\ UNCHANGED <<worldVars, limiterVars, jwks, streams>>

LookAt(r) ==
    checked' = IF req[r].current
               THEN [checked EXCEPT ![Bucket(req[r].route)][req[r].client] = @ + 1] ELSE checked

Fresh == jwks.key # 0 /\ clock - jwks.at < TTL

(* As if the TTL were not asked. *)
GetJwksNoTTL(r) ==
    /\ At(r, "auth") /\ req[r].tok # None
    /\ LookAt(r)
    /\ req' = IF jwks.key # 0
              THEN [req EXCEPT ![r].pc = "verify", ![r].current = FALSE, ![r].since = clock,
                               ![r].key = jwks.key]
              ELSE [req EXCEPT ![r].pc = "fetch", ![r].current = FALSE, ![r].since = clock]
    /\ UNCHANGED <<worldVars, hits, jwks, streams>>

GetJwks(r) ==
    /\ At(r, "auth") /\ req[r].tok # None
    /\ LookAt(r)
    /\ req' = IF Fresh
              THEN [req EXCEPT ![r].pc = "verify", ![r].current = FALSE, ![r].since = clock,
                               ![r].key = jwks.key]
              ELSE [req EXCEPT ![r].pc = "fetch", ![r].current = FALSE, ![r].since = clock]
    /\ UNCHANGED <<worldVars, hits, jwks, streams>>

JwksAnswer(r) ==
    /\ At(r, "fetch")
    /\ req' = [req EXCEPT ![r].pc = "fetched", ![r].key = signing]
    /\ UNCHANGED <<worldVars, limiterVars, jwks, streams>>

JwksSet(r) ==
    /\ At(r, "fetched")
    /\ jwks' = [key |-> req[r].key, at |-> clock]
    /\ Goto(r, "verify")
    /\ UNCHANGED <<worldVars, limiterVars, streams>>

(* The fetch fails: the stale copy, or a RuntimeError without one. *)
JwksFails(r) ==
    /\ At(r, "fetch")
    /\ IF jwks.key # 0
       THEN req' = [req EXCEPT ![r].pc = "verify", ![r].key = jwks.key, ![r].failed = TRUE]
       ELSE Respond(r)
    /\ UNCHANGED <<worldVars, limiterVars, jwks, streams>>

(* Signature, audience, issuer, scope: the handler runs, or 401 or 403. *)
Verify(r) ==
    /\ At(r, "verify")
    /\ IF req[r].tok = req[r].key THEN Goto(r, "handler") ELSE Respond(r)
    /\ UNCHANGED <<worldVars, limiterVars, jwks, streams>>

Handled(r) ==
    /\ At(r, "handler")
    /\ Respond(r)
    /\ UNCHANGED <<worldVars, limiterVars, jwks, streams>>

-----------------------------------------------------------------------------
(* /mcp/sse: _mcp_sse_slot around the stream *)

(* As if the limit were passed by one. *)
TakeSlotOff(r) ==
    /\ At(r, "slot")
    /\ IF streams > MaxStreams
       THEN Goto(r, "full") /\ streams' = streams
       ELSE Goto(r, "open") /\ streams' = streams + 1
    /\ UNCHANGED <<worldVars, limiterVars, jwks>>

TakeSlot(r) ==
    /\ At(r, "slot")
    /\ IF streams >= MaxStreams
       THEN Goto(r, "full") /\ streams' = streams
       ELSE Goto(r, "open") /\ streams' = streams + 1
    /\ UNCHANGED <<worldVars, limiterVars, jwks>>

TooMany(r) ==
    /\ At(r, "full")
    /\ Respond(r)
    /\ UNCHANGED <<worldVars, limiterVars, jwks, streams>>

(* As if an error of the stream left the slot taken. *)
CloseStreamLeaks(r) ==
    /\ At(r, "open")
    /\ \E n \in {streams, streams - 1} : streams' = n
    /\ Respond(r)
    /\ UNCHANGED <<worldVars, limiterVars, jwks>>

(* The client leaves, the transport fails or the server stops: finally. *)
CloseStream(r) ==
    /\ At(r, "open")
    /\ streams' = streams - 1
    /\ Respond(r)
    /\ UNCHANGED <<worldVars, limiterVars, jwks>>

-----------------------------------------------------------------------------
(* A fetch is answered, and its answer stored, within Latency. *)
Tick ==
    /\ clock < MaxClock
    /\ \A r \in Requests : At(r, "fetch") \/ At(r, "fetched") => clock < req[r].since + Latency
    /\ \A r \in Requests : ~At(r, "verify")
    /\ clock' = clock + 1
    /\ UNCHANGED <<signing, rotated, limiterVars, jwks, streams, req>>

RotateKeys ==
    /\ signing = 1
    /\ signing' = 2 /\ rotated' = clock
    /\ UNCHANGED <<clock, limiterVars, jwks, streams, req>>

RequestStep(r) ==
    \/ RateLimit(r) \/ LimiterDown(r)
    \/ NoToken(r) \/ GetJwks(r) \/ JwksAnswer(r) \/ JwksSet(r) \/ JwksFails(r)
    \/ Verify(r) \/ Handled(r)
    \/ TakeSlot(r) \/ TooMany(r) \/ CloseStream(r)

Next ==
    \/ \E r \in Requests :
          \/ \E route \in Routes, c \in Clients, tok \in Tokens : Arrive(r, route, c, tok)
          \/ RequestStep(r)
    \/ \E b \in Buckets, c \in Clients : WindowEnds(b, c)
    \/ Tick \/ RotateKeys

Spec == Init /\ [][Next]_vars

-----------------------------------------------------------------------------
(* Requests with any token at all cost signature checks only at the rate   *)
(* the limit allows: of the requests that arrive in one window no more     *)
(* than the limit ever have their token looked at, since the limit comes   *)
(* before the check and counts what the check will refuse.                 *)
ChecksThrottled ==
    \A b \in Buckets, c \in Clients : checked[b][c] <= Limit[b]

(* A withdrawn key opens a service route only for the TTL and one fetch    *)
(* after its withdrawal, however fetches overlap and an older answer       *)
(* replaces a newer one; later only for a request whose own fetch failed.  *)
WithdrawnKeysNeedOutage ==
    \A r \in Requests :
        At(r, "handler") /\ req[r].tok # signing /\ ~req[r].failed
            => req[r].since < rotated + TTL + Latency

Status == [r \in Requests |-> CASE At(r, "open") -> "in"
                                [] At(r, "full") -> "refused"
                                [] OTHER -> "out"]

Slots == INSTANCE Semaphore WITH Processes <- Requests, Capacity <- MaxStreams, status <- Status

(* The stream counter is a semaphore: never more than MaxStreams streams,  *)
(* and a 503 only while that many are open, so no way out of a stream      *)
(* leaks a slot.                                                           *)
SlotsSpec == Slots!Spec
-----------------------------------------------------------------------------
(* The inductive invariant behind the properties.                          *)

Open == {r \in Requests : At(r, "open")}

(* The requests admitted in the current window whose token is not yet      *)
(* looked at: every one of them, and every one looked at, was a hit.       *)
Waiting(b, c) == {r \in Requests : /\ req[r].current
                                   /\ Bucket(req[r].route) = b /\ req[r].client = c}

Throttle(b, c) ==
    /\ checked[b][c] + Cardinality(Waiting(b, c)) <= hits[b][c]
    /\ checked[b][c] + Cardinality(Waiting(b, c)) <= Limit[b]

(* Whose a request is, and how old the key can be that it is about to use. *)
RequestOK(r) ==
    /\ req[r].client = None => At(r, "idle")
    /\ req[r].since <= clock
    /\ At(r, "fetch") \/ At(r, "fetched") => clock <= req[r].since + Latency
    /\ At(r, "fetched") => req[r].key # 0
    /\ At(r, "fetched") /\ req[r].key # signing => req[r].since <= rotated
    /\ At(r, "verify") => req[r].key # 0
    /\ At(r, "verify") /\ req[r].key # signing /\ ~req[r].failed
          => req[r].since < rotated + TTL + Latency
    /\ At(r, "handler") /\ req[r].tok # signing /\ ~req[r].failed
          => req[r].since < rotated + TTL + Latency
    /\ signing = 1 => req[r].key # 2

CacheAge ==
    /\ jwks.at <= clock
    /\ jwks.key # 0 /\ jwks.key # signing => jwks.at <= rotated + Latency
    /\ signing = 1 => jwks.key # 2

Inv ==
    /\ TypeOK
    /\ streams = Cardinality(Open)
    /\ \A b \in Buckets, c \in Clients : Throttle(b, c)
    /\ CacheAge
    /\ \A r \in Requests : RequestOK(r)
=============================================================================

--------------------------- MODULE AgentGateProofs ---------------------------
(***************************************************************************)
(* Proofs about AgentGate, for any number of requests, clients and streams *)
(* and any limits and times: signature checks stay within the rate limit,  *)
(* a withdrawn key is accepted only for the TTL and one fetch unless a     *)
(* fetch failed, and the stream counter implements a semaphore.            *)
(***************************************************************************)
EXTENDS AgentGate, FiniteSetTheorems, TLAPS

(* A part of the requests is finite, and no larger than a whole it is in.  *)
LEMMA Counted ==
  ASSUME NEW S \in SUBSET Requests, NEW T \in SUBSET S
  PROVE  Cardinality(S) \in Nat /\ Cardinality(T) \in Nat /\ Cardinality(T) <= Cardinality(S)
<1>1. IsFiniteSet(S)
  BY RequestsAssumption, FS_Subset
<1>2. QED
  BY <1>1, FS_Subset, FS_CardinalityType

(* One request more or less changes the count by one. *)
LEMMA CountedOne ==
  ASSUME NEW S \in SUBSET Requests, NEW r \in Requests, r \notin S
  PROVE  Cardinality(S) \in Nat /\ Cardinality(S \cup {r}) = Cardinality(S) + 1
<1>1. IsFiniteSet(S)
  BY RequestsAssumption, FS_Subset
<1>2. QED
  BY <1>1, FS_AddElement, FS_CardinalityType

LEMMA NoReqOK == NoReq \in RequestStates /\ NoReq.pc = "idle" /\ ~NoReq.current
  BY TimeAssumption DEF NoReq, RequestStates, Pcs, Tokens, Keys, Times

(* An action replaces the state of one request. *)
LEMMA OneRequest ==
  ASSUME TypeOK, NEW r \in Requests, NEW q \in RequestStates, req' = [req EXCEPT ![r] = q]
  PROVE  /\ req' \in [Requests -> RequestStates] /\ req'[r] = q
         /\ \A z \in Requests \ {r} : req'[z] = req[z]
  BY DEF TypeOK

-----------------------------------------------------------------------------
(* The parts of the invariant that are about all requests, when one of     *)
(* them moves.                                                             *)

LEMMA SameStreams ==
  ASSUME TypeOK, NEW r \in Requests, \A z \in Requests \ {r} : req'[z] = req[z],
         ~At(r, "open"), ~At(r, "open")', streams' = streams, streams = Cardinality(Open)
  PROVE  (streams = Cardinality(Open))'
<1>1. Open' = Open
  BY DEF Open, At
<1>2. QED
  BY <1>1

LEMMA SameThrottle ==
  ASSUME TypeOK, TypeOK', NEW r \in Requests, \A z \in Requests \ {r} : req'[z] = req[z],
         req'[r].current =>
            req[r].current /\ req'[r].route = req[r].route /\ req'[r].client = req[r].client,
         UNCHANGED limiterVars, NEW b \in Buckets, NEW c \in Clients, Throttle(b, c)
  PROVE  Throttle(b, c)'
<1>1. Waiting(b, c) \in SUBSET Requests /\ Waiting(b, c)' \in SUBSET Waiting(b, c)
  BY DEF Waiting
<1>2. /\ Cardinality(Waiting(b, c)) \in Nat /\ Cardinality(Waiting(b, c)') \in Nat
      /\ Cardinality(Waiting(b, c)') <= Cardinality(Waiting(b, c))
  BY <1>1, Counted
<1>3. checked[b][c] \in Nat /\ hits[b][c] \in Nat /\ Limit[b] \in Nat
  BY LimitAssumption DEF TypeOK, Buckets
<1>4. QED
  BY <1>2, <1>3 DEF Throttle, limiterVars

LEMMA SameAges ==
  ASSUME TypeOK, NEW r \in Requests, \A z \in Requests \ {r} : req'[z] = req[z],
         UNCHANGED worldVars, \A z \in Requests : RequestOK(z), RequestOK(r)'
  PROVE  \A z \in Requests : RequestOK(z)'
<1>1. ASSUME NEW z \in Requests, z # r PROVE RequestOK(z)'
  <2>1. RequestOK(z) /\ req'[z] = req[z] /\ UNCHANGED worldVars
    BY <1>1
  <2>2. QED
    BY <2>1 DEF RequestOK, At, worldVars
<1>2. QED
  BY <1>1

(* A request moves that neither takes nor leaves a slot and is not counted *)
(* by the limit.                                                           *)
LEMMA RequestMoves ==
  ASSUME Inv, TypeOK', NEW r \in Requests, \A z \in Requests \ {r} : req'[z] = req[z],
         ~At(r, "open"), ~At(r, "open")',
         req'[r].current =>
            req[r].current /\ req'[r].route = req[r].route /\ req'[r].client = req[r].client,
         UNCHANGED <<worldVars, limiterVars, streams>>, CacheAge', RequestOK(r)'
  PROVE  Inv'
<1>1. (streams = Cardinality(Open))'
  BY SameStreams DEF Inv
<1>2. \A b \in Buckets, c \in Clients : Throttle(b, c)'
  BY SameThrottle DEF Inv
<1>3. \A z \in Requests : RequestOK(z)'
  BY SameAges DEF Inv
<1>4. QED
  BY <1>1, <1>2, <1>3 DEF Inv

(* A response leaves a request that counts for nothing. *)
LEMMA RespondMoves ==
  ASSUME Inv, NEW r \in Requests, ~At(r, "open"), Respond(r),
         UNCHANGED <<worldVars, limiterVars, jwks, streams>>
  PROVE  Inv'
<1>1. /\ req' \in [Requests -> RequestStates] /\ req'[r] = NoReq
      /\ \A z \in Requests \ {r} : req'[z] = req[z]
  BY OneRequest, NoReqOK DEF Inv, Respond
<1>2. TypeOK'
  BY <1>1 DEF Inv, TypeOK, worldVars, limiterVars
<1>3. ~At(r, "open")' /\ ~req'[r].current
  BY <1>1, NoReqOK DEF At
<1>4. CacheAge'
  BY DEF Inv, CacheAge, worldVars
<1>5. RequestOK(r)'
  BY <1>1, <1>2, TimeAssumption DEF RequestOK, At, NoReq, TypeOK, Times
<1>6. QED
  BY <1>1, <1>2, <1>3, <1>4, <1>5, RequestMoves

LEMMA ArriveStep ==
  ASSUME Inv, NEW r \in Requests, NEW route \in Routes, NEW c \in Clients, NEW tok \in Tokens,
         Arrive(r, route, c, tok)
  PROVE  Inv'
<1> DEFINE q == [NoReq EXCEPT !.pc = "gate", !.route = route, !.client = c, !.tok = tok]
<1>1. q \in RequestStates /\ q.pc = "gate" /\ ~q.current /\ q.since = 0 /\ q.key = 0 /\ q.client # None
  BY NoReqOK, NoneAssumption DEF NoReq, RequestStates, Pcs
<1>2. req' = [req EXCEPT ![r] = q]
  BY DEF Arrive
<1> HIDE DEF q
<1>3. /\ req' \in [Requests -> RequestStates] /\ req'[r] = q
      /\ \A z \in Requests \ {r} : req'[z] = req[z]
  BY <1>1, <1>2, OneRequest DEF Inv
<1>4. TypeOK'
  BY <1>3 DEF Inv, TypeOK, Arrive, worldVars, limiterVars
<1>5. ~At(r, "open") /\ ~At(r, "open")' /\ ~req'[r].current
  BY <1>1, <1>3 DEF At, Arrive
<1>6. CacheAge'
  BY DEF Inv, CacheAge, Arrive, worldVars
<1>7. RequestOK(r)'
  BY <1>1, <1>3, <1>4 DEF RequestOK, At, TypeOK, Times
<1>8. QED
  BY <1>3, <1>4, <1>5, <1>6, <1>7, RequestMoves DEF Arrive

LEMMA LimiterDownStep ==
  ASSUME Inv, NEW r \in Requests, LimiterDown(r)
  PROVE  Inv'
  BY RespondMoves DEF LimiterDown, At

LEMMA NoTokenStep ==
  ASSUME Inv, NEW r \in Requests, NoToken(r)
  PROVE  Inv'
  BY RespondMoves DEF NoToken, At

LEMMA HandledStep ==
  ASSUME Inv, NEW r \in Requests, Handled(r)
  PROVE  Inv'
  BY RespondMoves DEF Handled, At

LEMMA TooManyStep ==
  ASSUME Inv, NEW r \in Requests, TooMany(r)
  PROVE  Inv'
  BY RespondMoves DEF TooMany, At

(* The state of a request after a step that sets some of its fields. *)
LEMMA OnePc ==
  ASSUME TypeOK, NEW r \in Requests, NEW pc \in Pcs, Goto(r, pc)
  PROVE  LET q == [req[r] EXCEPT !.pc = pc]
         IN  /\ q \in RequestStates /\ req' \in [Requests -> RequestStates] /\ req'[r] = q
             /\ \A z \in Requests \ {r} : req'[z] = req[z]
  BY DEF TypeOK, Goto, RequestStates

LEMMA JwksAnswerStep ==
  ASSUME Inv, NEW r \in Requests, JwksAnswer(r)
  PROVE  Inv'
<1> DEFINE q == [req[r] EXCEPT !.pc = "fetched", !.key = signing]
<1>1. /\ q \in RequestStates /\ q.pc = "fetched" /\ q.key = signing /\ q.since = req[r].since
      /\ q.current = req[r].current /\ q.route = req[r].route /\ q.client = req[r].client
  BY DEF Inv, TypeOK, RequestStates, Pcs
<1>2. req' = [req EXCEPT ![r] = q]
  BY DEF Inv, TypeOK, JwksAnswer
<1> HIDE DEF q
<1>3. /\ req' \in [Requests -> RequestStates] /\ req'[r] = q
      /\ \A z \in Requests \ {r} : req'[z] = req[z]
  BY <1>1, <1>2, OneRequest DEF Inv
<1>4. TypeOK'
  BY <1>3 DEF Inv, TypeOK, JwksAnswer, worldVars, limiterVars
<1>5. ~At(r, "open") /\ ~At(r, "open")'
  BY <1>1, <1>3 DEF At, JwksAnswer
<1>6. CacheAge'
  BY DEF Inv, CacheAge, JwksAnswer, worldVars
<1>7. RequestOK(r)'
  BY <1>1, <1>3, <1>4 DEF Inv, RequestOK, At, TypeOK, Keys, JwksAnswer, worldVars
<1>8. QED
  BY <1>1, <1>3, <1>4, <1>5, <1>6, <1>7, RequestMoves DEF JwksAnswer

(* The answer is cached with the time it is stored at: a key that was      *)
(* withdrawn since it was fetched is stored within Latency of that.        *)
LEMMA JwksSetStep ==
  ASSUME Inv, NEW r \in Requests, JwksSet(r)
  PROVE  Inv'
<1> DEFINE q == [req[r] EXCEPT !.pc = "verify"]
<1>1. "verify" \in Pcs /\ Goto(r, "verify")
  BY DEF Pcs, JwksSet
<1>2. /\ q \in RequestStates /\ req' \in [Requests -> RequestStates] /\ req'[r] = q
      /\ \A z \in Requests \ {r} : req'[z] = req[z]
  BY <1>1, OnePc DEF Inv
<1>3. /\ q.pc = "verify" /\ q.key = req[r].key /\ q.since = req[r].since
      /\ q.failed = req[r].failed
      /\ q.current = req[r].current /\ q.route = req[r].route /\ q.client = req[r].client
  BY DEF Inv, TypeOK, RequestStates
<1> HIDE DEF q
<1>4. TypeOK'
  BY <1>2 DEF Inv, TypeOK, JwksSet, worldVars, limiterVars, RequestStates
<1>5. ~At(r, "open") /\ ~At(r, "open")'
  BY <1>2, <1>3 DEF At, JwksSet
<1>6. RequestOK(r) /\ req[r].since \in Nat /\ clock \in Nat /\ rotated \in Nat
  BY DEF Inv, TypeOK, RequestStates, Times
<1>7. CacheAge'
  BY <1>6, TimeAssumption DEF Inv, CacheAge, RequestOK, At, JwksSet, worldVars
<1>8. RequestOK(r)'
  BY <1>2, <1>3, <1>6, TimeAssumption DEF RequestOK, At, JwksSet, worldVars
<1>9. QED
  BY <1>2, <1>3, <1>4, <1>5, <1>7, <1>8, RequestMoves DEF JwksSet, limiterVars

(* A failed fetch takes the stale copy, and is remembered as failed. *)
LEMMA JwksFailsStep ==
  ASSUME Inv, NEW r \in Requests, JwksFails(r)
  PROVE  Inv'
<1>1. CASE Respond(r)
  BY <1>1, RespondMoves DEF JwksFails, At
<1>2. CASE jwks.key # 0 /\ req' = [req EXCEPT ![r].pc = "verify", ![r].key = jwks.key, ![r].failed = TRUE]
  <2> DEFINE q == [req[r] EXCEPT !.pc = "verify", !.key = jwks.key, !.failed = TRUE]
  <2>1. /\ q \in RequestStates /\ q.pc = "verify" /\ q.key = jwks.key /\ q.since = req[r].since
        /\ q.failed = TRUE
        /\ q.current = req[r].current /\ q.route = req[r].route /\ q.client = req[r].client
    BY DEF Inv, TypeOK, RequestStates, Pcs
  <2>2. req' = [req EXCEPT ![r] = q]
    BY <1>2 DEF Inv, TypeOK
  <2> HIDE DEF q
  <2>3. /\ req' \in [Requests -> RequestStates] /\ req'[r] = q
        /\ \A z \in Requests \ {r} : req'[z] = req[z]
    BY <2>1, <2>2, OneRequest DEF Inv
  <2>4. TypeOK'
    BY <2>3 DEF Inv, TypeOK, JwksFails, worldVars, limiterVars
  <2>5. ~At(r, "open") /\ ~At(r, "open")'
    BY <2>1, <2>3 DEF At, JwksFails
  <2>6. CacheAge'
    BY DEF Inv, CacheAge, JwksFails, worldVars
  <2>7. RequestOK(r)'
    BY <1>2, <2>1, <2>3 DEF Inv, RequestOK, CacheAge, At, JwksFails, worldVars
  <2>8. QED
    BY <2>1, <2>3, <2>4, <2>5, <2>6, <2>7, RequestMoves DEF JwksFails
<1>3. QED
  BY <1>1, <1>2 DEF JwksFails

(* Only the key the token is signed with opens the handler. *)
LEMMA VerifyStep ==
  ASSUME Inv, NEW r \in Requests, Verify(r)
  PROVE  Inv'
<1>1. CASE Respond(r)
  BY <1>1, RespondMoves DEF Verify, At
<1>2. CASE req[r].tok = req[r].key /\ Goto(r, "handler")
  <2> DEFINE q == [req[r] EXCEPT !.pc = "handler"]
  <2>1. /\ q \in RequestStates /\ req' \in [Requests -> RequestStates] /\ req'[r] = q
        /\ \A z \in Requests \ {r} : req'[z] = req[z]
    BY <1>2, OnePc DEF Inv, Pcs
  <2>2. /\ q.pc = "handler" /\ q.key = req[r].key /\ q.since = req[r].since
        /\ q.failed = req[r].failed /\ q.tok = req[r].tok
        /\ q.current = req[r].current /\ q.route = req[r].route /\ q.client = req[r].client
    BY DEF Inv, TypeOK, RequestStates
  <2> HIDE DEF q
  <2>3. TypeOK'
    BY <2>1 DEF Inv, TypeOK, Verify, worldVars, limiterVars
  <2>4. ~At(r, "open") /\ ~At(r, "open")'
    BY <2>1, <2>2 DEF At, Verify
  <2>5. CacheAge'
    BY DEF Inv, CacheAge, Verify, worldVars
  <2>6. RequestOK(r)'
    BY <1>2, <2>1, <2>2 DEF Inv, RequestOK, At, Verify, worldVars
  <2>7. QED
    BY <2>1, <2>2, <2>3, <2>4, <2>5, <2>6, RequestMoves DEF Verify
<1>3. QED
  BY <1>1, <1>2 DEF Verify

-----------------------------------------------------------------------------
(* A hit: an admitted request waits for the check of its token, and the    *)
(* hit that admitted it makes room for it below the limit.                 *)
LEMMA RateLimitStep ==
  ASSUME Inv, NEW r \in Requests, RateLimit(r)
  PROVE  Inv'
<1> DEFINE b == Bucket(req[r].route)
           c == req[r].client
           q == [req[r] EXCEPT !.pc = IF req[r].route = "sse" THEN "slot" ELSE "auth",
                               !.current = req[r].route # "sse"]
<1>1. TypeOK /\ At(r, "gate") /\ b \in Buckets
  BY DEF Inv, RateLimit, Bucket, Buckets
<1>2. c \in Clients /\ hits[b][c] \in Nat /\ Limit[b] \in Nat
  BY <1>1, LimitAssumption DEF Inv, RequestOK, At, TypeOK, RequestStates, Buckets
<1>3. \/ hits[b][c] < Limit[b] /\ req' = [req EXCEPT ![r] = q]
      \/ hits[b][c] >= Limit[b] /\ req' = [req EXCEPT ![r] = NoReq]
  <2>1. req' = [req EXCEPT ![r] = q] <=> Admitted(r)
    BY <1>1 DEF Admitted, TypeOK
  <2>2. IF hits[b][c] < Limit[b] THEN Admitted(r) ELSE Respond(r)
    BY DEF RateLimit
  <2> HIDE DEF q
  <2>3. QED
    BY <1>2, <2>1, <2>2 DEF Respond
<1>4. /\ q \in RequestStates /\ q.pc \in {"slot", "auth"} /\ q.since = req[r].since
      /\ q.key = req[r].key /\ q.route = req[r].route /\ q.client = req[r].client
  BY <1>1 DEF TypeOK, RequestStates, Pcs
<1>5. /\ req' \in [Requests -> RequestStates] /\ (req'[r] = q \/ req'[r] = NoReq)
      /\ \A z \in Requests \ {r} : req'[z] = req[z]
  BY <1>1, <1>3, <1>4, NoReqOK, OneRequest
<1>6. /\ hits' \in [Buckets -> [Clients -> Nat]]
      /\ \A x \in Buckets, y \in Clients :
            hits[x][y] <= hits'[x][y] /\ hits'[x][y] <= Limit[x] + 1
      /\ hits[b][c] < Limit[b] => hits'[b][c] = hits[b][c] + 1
  BY <1>1, <1>2, LimitAssumption DEF RateLimit, TypeOK, Buckets
<1>7. TypeOK'
  BY <1>5, <1>6 DEF Inv, TypeOK, RateLimit, worldVars
<1>8. (streams = Cardinality(Open))'
  <2>1. ~At(r, "open") /\ ~At(r, "open")'
    BY <1>1, <1>4, <1>5, NoReqOK DEF At
  <2>2. QED
    BY <1>1, <1>5, <2>1, SameStreams DEF Inv, RateLimit
<1>9. ASSUME NEW x \in Buckets, NEW y \in Clients PROVE Throttle(x, y)'
  <2> DEFINE W == Waiting(x, y)
  <2>1. W \in SUBSET Requests /\ Throttle(x, y)
    BY DEF Inv, Waiting
  <2>2. /\ checked'[x][y] = checked[x][y] /\ checked[x][y] \in Nat /\ hits[x][y] \in Nat
        /\ hits'[x][y] \in Nat /\ hits[x][y] <= hits'[x][y] /\ Limit[x] \in Nat
    BY <1>1, <1>6, LimitAssumption DEF RateLimit, TypeOK, Buckets
  <2>3. CASE W' \subseteq W
    BY <2>1, <2>2, <2>3, Counted DEF Throttle
  <2>4. CASE ~(W' \subseteq W)
    <3>1. /\ hits[b][c] < Limit[b] /\ req'[r] = q /\ x = b /\ y = c /\ r \notin W
          /\ W' \in SUBSET (W \cup {r})
      BY <1>1, <1>3, <1>4, <1>5, <2>4, NoReqOK DEF Waiting, TypeOK
    <3>2. Cardinality(W) \in Nat /\ Cardinality(W \cup {r}) = Cardinality(W) + 1
      BY <2>1, <3>1, CountedOne
    <3>3. W \cup {r} \in SUBSET Requests
      BY <2>1
    <3>4. Cardinality(W') \in Nat /\ Cardinality(W') <= Cardinality(W) + 1
      BY <3>1, <3>2, <3>3, Counted
    <3>5. hits'[x][y] = hits[x][y] + 1 /\ hits[x][y] < Limit[x]
      BY <1>6, <3>1
    <3> HIDE DEF W
    <3>6. /\ checked[x][y] + Cardinality(W) <= hits[x][y]
          /\ checked'[x][y] + Cardinality(W') <= hits'[x][y]
          /\ checked'[x][y] + Cardinality(W') <= Limit[x]
      BY <2>1, <2>2, <3>2, <3>4, <3>5 DEF Throttle, W
    <3>7. QED
      BY <3>6 DEF Throttle, W
  <2>5. QED
    BY <2>3, <2>4
<1>10. CacheAge'
  BY DEF Inv, CacheAge, RateLimit, worldVars
<1>11. RequestOK(r)'
  <2>1. RequestOK(r) /\ 0 <= clock /\ UNCHANGED worldVars
    BY <1>1 DEF Inv, TypeOK, Times, RateLimit
  <2>2. CASE req'[r] = q
    BY <1>1, <1>2, <1>4, <2>1, <2>2, NoneAssumption DEF RequestOK, At, worldVars
  <2>3. CASE req'[r] = NoReq
    BY <2>1, <2>3 DEF RequestOK, At, NoReq, worldVars
  <2>4. QED
    BY <1>5, <2>2, <2>3
<1>12. \A z \in Requests : RequestOK(z)'
  BY <1>1, <1>5, <1>11, SameAges DEF Inv, RateLimit
<1>13. QED
  BY <1>7, <1>8, <1>9, <1>10, <1>12 DEF Inv

(* A token is looked at: the request is counted as checked, and no longer  *)
(* as waiting; a fresh copy of the keys is used as it is.                  *)
LEMMA GetJwksStep ==
  ASSUME Inv, NEW r \in Requests, GetJwks(r)
  PROVE  Inv'
<1> DEFINE b == Bucket(req[r].route)
           c == req[r].client
           v == [req[r] EXCEPT !.pc = "verify", !.current = FALSE, !.since = clock, !.key = jwks.key]
           f == [req[r] EXCEPT !.pc = "fetch", !.current = FALSE, !.since = clock]
           q == IF Fresh THEN v ELSE f
<1>1. TypeOK /\ At(r, "auth") /\ b \in Buckets /\ RequestOK(r)
  BY DEF Inv, GetJwks, Bucket, Buckets
<1>2. c \in Clients
  BY <1>1 DEF RequestOK, At, TypeOK, RequestStates
<1>3. /\ q \in RequestStates /\ ~q.current /\ q.since = clock /\ q.client = c
      /\ q.pc = IF Fresh THEN "verify" ELSE "fetch"
      /\ q.key = IF Fresh THEN jwks.key ELSE req[r].key
  BY <1>1 DEF TypeOK, RequestStates, Pcs
<1>4. req' = [req EXCEPT ![r] = q]
  <2>1. CASE Fresh
    BY <1>1, <2>1 DEF GetJwks, TypeOK
  <2>2. CASE ~Fresh
    BY <1>1, <2>2 DEF GetJwks, TypeOK
  <2>3. QED
    BY <2>1, <2>2
<1> HIDE DEF q
<1>5. /\ req' \in [Requests -> RequestStates] /\ req'[r] = q
      /\ \A z \in Requests \ {r} : req'[z] = req[z]
  BY <1>1, <1>3, <1>4, OneRequest
<1>6. /\ checked' \in [Buckets -> [Clients -> Nat]]
      /\ \A x \in Buckets, y \in Clients :
            checked'[x][y] = IF req[r].current /\ x = b /\ y = c THEN checked[x][y] + 1
                             ELSE checked[x][y]
  BY <1>1, <1>2 DEF GetJwks, LookAt, TypeOK
<1>7. TypeOK'
  BY <1>5, <1>6 DEF Inv, TypeOK, GetJwks, worldVars
<1>8. (streams = Cardinality(Open))'
  <2>1. ~At(r, "open") /\ ~At(r, "open")'
    BY <1>1, <1>3, <1>5 DEF At
  <2>2. QED
    BY <1>1, <1>5, <2>1, SameStreams DEF Inv, GetJwks
<1>9. ASSUME NEW x \in Buckets, NEW y \in Clients PROVE Throttle(x, y)'
  <2> DEFINE W == Waiting(x, y)
  <2>1. W \in SUBSET Requests /\ W' \in SUBSET W /\ Throttle(x, y)
    BY <1>3, <1>5 DEF Inv, Waiting
  <2>2. /\ checked[x][y] \in Nat /\ hits[x][y] \in Nat /\ Limit[x] \in Nat /\ hits' = hits
    BY <1>1, LimitAssumption DEF GetJwks, TypeOK, Buckets
  <2>3. Cardinality(W) \in Nat /\ Cardinality(W') \in Nat /\ Cardinality(W') <= Cardinality(W)
    BY <2>1, Counted
  <2>4. CASE ~(req[r].current /\ x = b /\ y = c)
    BY <1>6, <2>1, <2>2, <2>3, <2>4 DEF Throttle
  <2>5. CASE req[r].current /\ x = b /\ y = c
    <3>1. r \in W /\ r \notin W' /\ W' \cup {r} \in SUBSET W /\ W' \in SUBSET Requests
      BY <1>3, <1>5, <2>1, <2>5 DEF Waiting
    <3>2. Cardinality(W' \cup {r}) = Cardinality(W') + 1
      BY <3>1, CountedOne
    <3>3. Cardinality(W' \cup {r}) <= Cardinality(W)
      BY <2>1, <3>1, Counted
    <3>4. checked'[x][y] = checked[x][y] + 1
      BY <1>6, <2>5
    <3> HIDE DEF W
    <3>5. /\ checked[x][y] + Cardinality(W) <= hits[x][y]
          /\ checked[x][y] + Cardinality(W) <= Limit[x]
      BY <2>1 DEF Throttle, W
    <3>6. /\ checked'[x][y] + Cardinality(W') <= hits'[x][y]
          /\ checked'[x][y] + Cardinality(W') <= Limit[x]
      BY <2>2, <2>3, <3>2, <3>3, <3>4, <3>5
    <3>7. QED
      BY <3>6 DEF Throttle, W
  <2>6. QED
    BY <2>4, <2>5
<1>10. CacheAge'
  BY DEF Inv, CacheAge, GetJwks, worldVars
<1>11. RequestOK(r)'
  <2>1. CacheAge /\ UNCHANGED worldVars
    BY DEF Inv, GetJwks
  <2>2. /\ clock \in Nat /\ rotated \in Nat /\ jwks.at \in Nat
        /\ TTL \in Nat /\ Latency \in Nat
    BY <1>1, TimeAssumption DEF TypeOK, Times
  <2>3. CASE Fresh
    BY <1>2, <1>3, <1>5, <2>1, <2>2, <2>3, NoneAssumption
       DEF RequestOK, CacheAge, Fresh, At, worldVars
  <2>4. CASE ~Fresh
    BY <1>1, <1>2, <1>3, <1>5, <2>1, <2>2, <2>4, NoneAssumption DEF RequestOK, At, worldVars
  <2>5. QED
    BY <2>3, <2>4
<1>12. \A z \in Requests : RequestOK(z)'
  BY <1>1, <1>5, <1>11, SameAges DEF Inv, GetJwks
<1>13. QED
  BY <1>7, <1>8, <1>9, <1>10, <1>12 DEF Inv

(* What a slot taken, refused or given back leaves as it was. *)
LEMMA SlotMoves ==
  ASSUME Inv, NEW r \in Requests, NEW q \in RequestStates, req' = [req EXCEPT ![r] = q],
         q = NoReq \/ (q = [req[r] EXCEPT !.pc = q.pc] /\ q.pc \in {"open", "full"} /\ ~At(r, "idle")),
         streams' \in 0..MaxStreams, UNCHANGED <<worldVars, limiterVars, jwks>>,
         streams' = Cardinality(Open')
  PROVE  Inv'
<1>1. /\ req' \in [Requests -> RequestStates] /\ req'[r] = q
      /\ \A z \in Requests \ {r} : req'[z] = req[z]
  BY OneRequest DEF Inv
<1>2. TypeOK'
  BY <1>1 DEF Inv, TypeOK, worldVars, limiterVars
<1>3. q.current => q.current = req[r].current /\ q.route = req[r].route /\ q.client = req[r].client
  BY NoReqOK DEF Inv, TypeOK, RequestStates
<1>4. ASSUME NEW b \in Buckets, NEW c \in Clients PROVE Throttle(b, c)'
  BY <1>1, <1>2, <1>3, SameThrottle DEF Inv
<1>5. CacheAge'
  BY DEF Inv, CacheAge, worldVars
<1>6. RequestOK(r)'
  <2>1. RequestOK(r) /\ 0 <= clock /\ UNCHANGED worldVars /\ req[r] \in RequestStates
    BY DEF Inv, TypeOK, Times
  <2>2. CASE q = NoReq
    BY <1>1, <2>1, <2>2 DEF RequestOK, At, NoReq, worldVars
  <2>3. CASE q = [req[r] EXCEPT !.pc = q.pc] /\ q.pc \in {"open", "full"} /\ ~At(r, "idle")
    <3>1. q.client = req[r].client /\ q.since = req[r].since /\ q.key = req[r].key
      BY <2>1, <2>3 DEF RequestStates
    <3>2. QED
      BY <1>1, <2>1, <2>3, <3>1 DEF RequestOK, At, worldVars
  <2>4. QED
    BY <2>2, <2>3
<1>7. \A z \in Requests : RequestOK(z)'
  BY <1>1, <1>6, SameAges DEF Inv
<1>8. QED
  BY <1>2, <1>4, <1>5, <1>7 DEF Inv

(* A free slot is taken and one more stream is open; or there is none. *)
LEMMA TakeSlotStep ==
  ASSUME Inv, NEW r \in Requests, TakeSlot(r)
  PROVE  Inv'
<1>1. TypeOK /\ At(r, "slot") /\ streams = Cardinality(Open) /\ Open \in SUBSET Requests
  BY DEF Inv, TakeSlot, Open
<1>2. streams \in Nat /\ streams <= MaxStreams /\ MaxStreams \in Nat
  BY <1>1, StreamsAssumption DEF TypeOK
<1>3. ASSUME NEW pc \in {"open", "full"}, Goto(r, pc)
      PROVE  LET q == [req[r] EXCEPT !.pc = pc]
             IN  /\ q \in RequestStates /\ req' = [req EXCEPT ![r] = q] /\ q.pc = pc
                 /\ Open' = IF pc = "open" THEN Open \cup {r} ELSE Open
  <2>1. pc \in Pcs
    BY DEF Pcs
  <2>2. /\ [req[r] EXCEPT !.pc = pc] \in RequestStates /\ req'[r] = [req[r] EXCEPT !.pc = pc]
        /\ \A z \in Requests \ {r} : req'[z] = req[z]
    BY <1>1, <1>3, <2>1, OnePc
  <2>3. req' = [req EXCEPT ![r] = [req[r] EXCEPT !.pc = pc]] /\ req'[r].pc = pc
    BY <1>1, <1>3, <2>2 DEF Goto, TypeOK, RequestStates
  <2>4. Open' = IF pc = "open" THEN Open \cup {r} ELSE Open
    BY <1>1, <2>2, <2>3 DEF Open, At
  <2>5. QED
    BY <2>2, <2>3, <2>4
<1>4. CASE streams < MaxStreams
  <2> DEFINE q == [req[r] EXCEPT !.pc = "open"]
  <2>1. Goto(r, "open") /\ streams' = streams + 1
    BY <1>2, <1>4 DEF TakeSlot
  <2>2. /\ q \in RequestStates /\ req' = [req EXCEPT ![r] = q] /\ q.pc = "open"
        /\ Open' = Open \cup {r}
    BY <1>3, <2>1
  <2>3. Cardinality(Open \cup {r}) = Cardinality(Open) + 1
    BY <1>1, CountedOne DEF Open, At
  <2>4. streams' = Cardinality(Open') /\ streams' \in 0..MaxStreams
    BY <1>1, <1>2, <1>4, <2>1, <2>2, <2>3
  <2>5. q = [req[r] EXCEPT !.pc = q.pc] /\ ~At(r, "idle")
    BY <1>1, <2>2 DEF At
  <2> HIDE DEF q
  <2>6. QED
    BY <2>2, <2>4, <2>5, SlotMoves DEF TakeSlot
<1>5. CASE ~(streams < MaxStreams)
  <2> DEFINE q == [req[r] EXCEPT !.pc = "full"]
  <2>1. Goto(r, "full") /\ streams' = streams
    BY <1>2, <1>5 DEF TakeSlot
  <2>2. /\ q \in RequestStates /\ req' = [req EXCEPT ![r] = q] /\ q.pc = "full" /\ Open' = Open
    BY <1>3, <2>1
  <2>3. streams' = Cardinality(Open') /\ streams' \in 0..MaxStreams
    BY <1>1, <1>2, <2>1, <2>2
  <2>4. q = [req[r] EXCEPT !.pc = q.pc] /\ ~At(r, "idle")
    BY <1>1, <2>2 DEF At
  <2> HIDE DEF q
  <2>5. QED
    BY <2>2, <2>3, <2>4, SlotMoves DEF TakeSlot
<1>6. QED
  BY <1>4, <1>5

(* A stream ends, and the slot it held is free. *)
LEMMA CloseStreamStep ==
  ASSUME Inv, NEW r \in Requests, CloseStream(r)
  PROVE  Inv'
<1>1. TypeOK /\ At(r, "open") /\ streams = Cardinality(Open)
  BY DEF Inv, CloseStream
<1>2. req' = [req EXCEPT ![r] = NoReq] /\ streams' = streams - 1
  BY DEF CloseStream, Respond
<1>3. req'[r] = NoReq /\ \A z \in Requests \ {r} : req'[z] = req[z]
  BY <1>1, <1>2, NoReqOK, OneRequest
<1>4. /\ Open' \in SUBSET Requests /\ r \notin Open' /\ Open = Open' \cup {r}
  BY <1>1, <1>3, NoReqOK DEF Open, At
<1>5. Cardinality(Open') \in Nat /\ Cardinality(Open) = Cardinality(Open') + 1
  BY <1>4, CountedOne
<1>6. streams' = Cardinality(Open') /\ streams' \in 0..MaxStreams
  BY <1>1, <1>2, <1>5, StreamsAssumption DEF TypeOK
<1>7. QED
  BY <1>2, <1>6, NoReqOK, SlotMoves DEF CloseStream

(* In a new window nothing was hit, and nobody admitted in it waits. *)
LEMMA WindowEndsStep ==
  ASSUME Inv, NEW b \in Buckets, NEW c \in Clients, WindowEnds(b, c)
  PROVE  Inv'
<1>1. TypeOK
  BY DEF Inv
<1>2. ASSUME NEW r \in Requests
      PROVE  /\ req'[r] \in RequestStates
             /\ req'[r].pc = req[r].pc /\ req'[r].route = req[r].route
             /\ req'[r].client = req[r].client /\ req'[r].key = req[r].key
             /\ req'[r].since = req[r].since /\ req'[r].failed = req[r].failed
             /\ req'[r].tok = req[r].tok
             /\ req'[r].current <=>
                   req[r].current /\ ~(Bucket(req[r].route) = b /\ req[r].client = c)
  <2>1. req[r] \in RequestStates
    BY <1>1 DEF TypeOK
  <2>2. req'[r] = IF Bucket(req[r].route) = b /\ req[r].client = c
                  THEN [req[r] EXCEPT !.current = FALSE] ELSE req[r]
    BY DEF WindowEnds
  <2>3. CASE Bucket(req[r].route) = b /\ req[r].client = c
    BY <2>1, <2>2, <2>3 DEF RequestStates
  <2>4. CASE ~(Bucket(req[r].route) = b /\ req[r].client = c)
    BY <2>1, <2>2, <2>4
  <2>5. QED
    BY <2>3, <2>4
<1>3. req' \in [Requests -> RequestStates]
  <2>1. req' = [r \in Requests |-> req'[r]]
    BY DEF WindowEnds
  <2>2. QED
    BY <1>2, <2>1
<1>4. /\ hits' \in [Buckets -> [Clients -> Nat]] /\ checked' \in [Buckets -> [Clients -> Nat]]
      /\ hits'[b][c] = 0 /\ checked'[b][c] = 0
      /\ \A x \in Buckets, y \in Clients : ~(x = b /\ y = c) =>
            hits'[x][y] = hits[x][y] /\ checked'[x][y] = checked[x][y]
  BY <1>1 DEF TypeOK, WindowEnds
<1>5. TypeOK'
  BY <1>1, <1>3, <1>4, LimitAssumption DEF TypeOK, WindowEnds, worldVars, Buckets
<1>6. Open' = Open
  BY <1>2 DEF Open, At
<1>7. ASSUME NEW x \in Buckets, NEW y \in Clients PROVE Throttle(x, y)'
  <2>1. Throttle(x, y) /\ Limit[x] \in Nat
    BY LimitAssumption DEF Inv, Buckets
  <2>2. CASE x = b /\ y = c
    <3>1. Waiting(x, y)' = {}
      BY <1>2, <2>2 DEF Waiting
    <3>2. QED
      BY <1>4, <2>1, <2>2, <3>1, FS_EmptySet DEF Throttle
  <2>3. CASE ~(x = b /\ y = c)
    <3>1. Waiting(x, y)' = Waiting(x, y)
      BY <1>2, <2>3 DEF Waiting
    <3>2. QED
      BY <1>4, <2>1, <2>3, <3>1 DEF Throttle
  <2>4. QED
    BY <2>2, <2>3
<1>8. CacheAge'
  BY DEF Inv, CacheAge, WindowEnds, worldVars
<1>9. ASSUME NEW r \in Requests PROVE RequestOK(r)'
  BY <1>2 DEF Inv, RequestOK, At, WindowEnds, worldVars
<1>10. QED
  BY <1>5, <1>6, <1>7, <1>8, <1>9 DEF Inv, WindowEnds

LEMMA TickStep ==
  ASSUME Inv, Tick
  PROVE  Inv'
<1>1. TypeOK /\ clock \in Nat /\ clock' = clock + 1
  BY DEF Inv, TypeOK, Times, Tick
<1>2. TypeOK'
  BY <1>1, TimeAssumption DEF TypeOK, Times, Tick, limiterVars
<1>3. Open' = Open
  BY DEF Open, At, Tick
<1>4. ASSUME NEW b \in Buckets, NEW c \in Clients PROVE Throttle(b, c)'
  <2>1. Waiting(b, c)' = Waiting(b, c)
    BY DEF Waiting, Tick
  <2>2. QED
    BY <2>1 DEF Inv, Throttle, Tick, limiterVars
<1>5. CacheAge'
  BY <1>1 DEF Inv, CacheAge, Tick, TypeOK, Times
<1>6. ASSUME NEW r \in Requests PROVE RequestOK(r)'
  <2>1. RequestOK(r) /\ req[r].since \in Nat /\ Latency \in Nat
    BY <1>1, TimeAssumption DEF Inv, TypeOK, RequestStates, Times
  <2>2. /\ At(r, "fetch") \/ At(r, "fetched") => clock < req[r].since + Latency
        /\ UNCHANGED <<signing, rotated, req>>
    BY DEF Tick
  <2>3. QED
    BY <1>1, <2>1, <2>2 DEF RequestOK, At
<1>7. QED
  BY <1>2, <1>3, <1>4, <1>5, <1>6 DEF Inv, Tick

LEMMA RotateKeysStep ==
  ASSUME Inv, RotateKeys
  PROVE  Inv'
<1>1. TypeOK /\ clock \in Nat /\ TTL \in Nat \ {0} /\ Latency \in Nat
  BY TimeAssumption DEF Inv, TypeOK, Times
<1>2. TypeOK'
  BY <1>1 DEF TypeOK, Keys, RotateKeys, limiterVars
<1>3. Open' = Open
  BY DEF Open, At, RotateKeys
<1>4. ASSUME NEW b \in Buckets, NEW c \in Clients PROVE Throttle(b, c)'
  <2>1. Waiting(b, c)' = Waiting(b, c)
    BY DEF Waiting, RotateKeys
  <2>2. QED
    BY <2>1 DEF Inv, Throttle, RotateKeys, limiterVars
<1>5. CacheAge'
  BY <1>1 DEF Inv, CacheAge, RotateKeys, TypeOK, Times
<1>6. ASSUME NEW r \in Requests PROVE RequestOK(r)'
  <2>1. RequestOK(r) /\ req[r].since \in Nat
    BY <1>1 DEF Inv, TypeOK, RequestStates, Times
  <2>2. QED
    BY <1>1, <2>1 DEF RequestOK, At, RotateKeys
<1>7. QED
  BY <1>2, <1>3, <1>4, <1>5, <1>6 DEF Inv, RotateKeys

-----------------------------------------------------------------------------
LEMMA InitInv == Init => Inv
<1> SUFFICES ASSUME Init PROVE Inv
  OBVIOUS
<1>1. TypeOK
  BY NoReqOK, TimeAssumption, LimitAssumption, StreamsAssumption
     DEF Init, TypeOK, Keys, Times, Buckets
<1>2. Open = {}
  BY NoReqOK DEF Init, Open, At
<1>3. ASSUME NEW b \in Buckets, NEW c \in Clients PROVE Throttle(b, c)
  <2>1. Waiting(b, c) = {} /\ Limit[b] \in Nat
    BY NoReqOK, LimitAssumption DEF Init, Waiting, Buckets
  <2>2. QED
    BY <2>1, FS_EmptySet DEF Init, Throttle
<1>4. CacheAge /\ \A r \in Requests : RequestOK(r)
  BY TimeAssumption DEF Init, CacheAge, RequestOK, At, NoReq
<1>5. QED
  BY <1>1, <1>2, <1>3, <1>4, FS_EmptySet DEF Inv, Init

LEMMA StepInv == Inv /\ [Next]_vars => Inv'
<1> SUFFICES ASSUME Inv, [Next]_vars PROVE Inv'
  OBVIOUS
<1>1. ASSUME NEW r \in Requests, RequestStep(r) PROVE Inv'
  BY <1>1, RateLimitStep, LimiterDownStep, NoTokenStep, GetJwksStep, JwksAnswerStep,
     JwksSetStep, JwksFailsStep, VerifyStep, HandledStep, TakeSlotStep, TooManyStep,
     CloseStreamStep DEF RequestStep
<1>2. CASE UNCHANGED vars
  <2>1. Open' = Open /\ UNCHANGED <<worldVars, limiterVars, jwks, streams, req>>
    BY <1>2 DEF Open, At, vars
  <2>2. ASSUME NEW b \in Buckets, NEW c \in Clients PROVE Throttle(b, c)'
    <3>1. Waiting(b, c)' = Waiting(b, c)
      BY <2>1 DEF Waiting
    <3>2. QED
      BY <2>1, <3>1 DEF Inv, Throttle, limiterVars
  <2>3. TypeOK' /\ CacheAge'
    BY <2>1 DEF Inv, TypeOK, CacheAge, worldVars, limiterVars
  <2>4. ASSUME NEW r \in Requests PROVE RequestOK(r)'
    BY <2>1 DEF Inv, RequestOK, At, worldVars
  <2>5. QED
    BY <2>1, <2>2, <2>3, <2>4 DEF Inv
<1>3. QED
  BY <1>1, <1>2, ArriveStep, WindowEndsStep, TickStep, RotateKeysStep DEF Next

THEOREM Invariance == Spec => []Inv
  BY InitInv, StepInv, PTL DEF Spec

(* Every variable keeps its type; the stream counter never exceeds the     *)
(* limit nor falls below zero.                                             *)
THEOREM TypeCorrect == Spec => []TypeOK
<1>1. Inv => TypeOK
  BY DEF Inv
<1>2. QED
  BY <1>1, Invariance, PTL

(* However many requests with whatever tokens arrive at once, the rate     *)
(* limit bounds the signature checks a client can cause in a window.       *)
THEOREM ChecksThrottledAlways == Spec => []ChecksThrottled
<1>1. Inv => ChecksThrottled
  <2> SUFFICES ASSUME Inv, NEW b \in Buckets, NEW c \in Clients
               PROVE  checked[b][c] <= Limit[b]
    BY DEF ChecksThrottled
  <2>1. Cardinality(Waiting(b, c)) \in Nat
    BY Counted DEF Waiting
  <2>2. checked[b][c] \in Nat /\ Limit[b] \in Nat
    BY LimitAssumption DEF Inv, TypeOK, Buckets
  <2>3. QED
    BY <2>1, <2>2 DEF Inv, Throttle
<1>2. QED
  BY <1>1, Invariance, PTL

(* For every TTL and fetch timeout: a withdrawn key opens a service route  *)
(* later than their sum only for a request whose own fetch failed.         *)
THEOREM WithdrawnKeysAlwaysNeedOutage == Spec => []WithdrawnKeysNeedOutage
<1>1. Inv => WithdrawnKeysNeedOutage
  BY DEF Inv, RequestOK, WithdrawnKeysNeedOutage
<1>2. QED
  BY <1>1, Invariance, PTL

-----------------------------------------------------------------------------
(* The refinement *)

(* How a step of one request shows in the semaphore. *)
LEMMA StatusMoves ==
  ASSUME TypeOK, NEW r \in Requests, \A z \in Requests \ {r} : req'[z] = req[z]
  PROVE  Status' = [Status EXCEPT ![r] = Status'[r]]
  BY DEF Status, At

LEMMA HoldersOpen ==
  Slots!Holders = Open /\ Slots!Cardinality(Slots!Holders) = Cardinality(Open)
<1>1. Slots!Holders = Open
  BY DEF Slots!Holders, Status, Open, At
<1>2. Slots!Cardinality(Open) = Cardinality(Open)
  BY DEF Slots!Cardinality, Cardinality
<1>3. QED
  BY <1>1, <1>2

(* A request that is neither at the slot nor in the stream shows nothing. *)
LEMMA NoStatusChange ==
  ASSUME TypeOK, NEW r \in Requests, \A z \in Requests \ {r} : req'[z] = req[z],
         req[r].pc \notin {"open", "full"}, req'[r].pc \notin {"open", "full"}
  PROVE  Status' = Status
  BY DEF Status, At

LEMMA RefinementStep == Inv /\ Inv' /\ [Next]_vars => [Slots!Next]_Status
<1> SUFFICES ASSUME Inv, Inv', [Next]_vars PROVE Slots!Next \/ Status' = Status
  OBVIOUS
<1>1. /\ TypeOK /\ TypeOK' /\ streams = Cardinality(Open)
      /\ MaxStreams \in Nat /\ streams \in Nat /\ streams <= MaxStreams
  BY StreamsAssumption DEF Inv, TypeOK
<1>2. ASSUME NEW r \in Requests, TakeSlot(r) PROVE Slots!Next
  <2>1. /\ At(r, "slot") /\ Status[r] = "out"
        /\ \A z \in Requests \ {r} : req'[z] = req[z]
    BY <1>1, <1>2 DEF TakeSlot, At, Status, Goto, TypeOK
  <2>2. CASE streams >= MaxStreams
    <3>1. req'[r].pc = "full"
      BY <1>1, <1>2, <2>2 DEF TakeSlot, Goto, TypeOK, RequestStates
    <3>2. Status'[r] = "refused"
      BY <3>1 DEF Status, At
    <3>3. Cardinality(Open) = MaxStreams
      BY <1>1, <2>2
    <3>4. Slots!Refuse(r)
      BY <1>1, <2>1, <3>2, <3>3, StatusMoves, HoldersOpen DEF Slots!Refuse
    <3>5. QED
      BY <3>4 DEF Slots!Next
  <2>3. CASE ~(streams >= MaxStreams)
    <3>1. req'[r].pc = "open"
      BY <1>1, <1>2, <2>3 DEF TakeSlot, Goto, TypeOK, RequestStates
    <3>2. Status'[r] = "in"
      BY <3>1 DEF Status, At
    <3>3. Slots!Acquire(r)
      BY <1>1, <2>1, <2>3, <3>2, StatusMoves, HoldersOpen DEF Slots!Acquire
    <3>4. QED
      BY <3>3 DEF Slots!Next
  <2>4. QED
    BY <2>2, <2>3
<1>3. ASSUME NEW r \in Requests, TooMany(r) \/ CloseStream(r) PROVE Slots!Next
  <2>1. /\ req'[r] = NoReq /\ \A z \in Requests \ {r} : req'[z] = req[z]
        /\ req[r].pc \in {"open", "full"}
    BY <1>1, <1>3 DEF TooMany, CloseStream, Respond, At, TypeOK
  <2>2. Status[r] # "out" /\ Status'[r] = "out"
    BY <2>1, NoReqOK DEF Status, At
  <2>3. Slots!Leave(r)
    BY <1>1, <2>1, <2>2, StatusMoves DEF Slots!Leave
  <2>4. QED
    BY <2>3 DEF Slots!Next
<1>4. ASSUME NEW r \in Requests,
             LimiterDown(r) \/ NoToken(r) \/ Handled(r) \/ RateLimit(r) \/ GetJwks(r)
             \/ JwksAnswer(r) \/ JwksSet(r) \/ JwksFails(r) \/ Verify(r)
      PROVE  Status' = Status
  <2>1. \A z \in Requests \ {r} : req'[z] = req[z]
    BY <1>1, <1>4 DEF LimiterDown, NoToken, Handled, RateLimit, GetJwks, JwksAnswer, JwksSet,
                      JwksFails, Verify, Respond, Admitted, Goto, TypeOK
  <2>2. req[r].pc \notin {"open", "full"}
    BY <1>4 DEF LimiterDown, NoToken, Handled, RateLimit, GetJwks, JwksAnswer, JwksSet,
                JwksFails, Verify, At
  <2>3. req'[r].pc \notin {"open", "full"}
    BY <1>1, <1>4, NoReqOK
       DEF LimiterDown, NoToken, Handled, RateLimit, GetJwks, JwksAnswer, JwksSet,
           JwksFails, Verify, Respond, Admitted, Goto, TypeOK, RequestStates
  <2>4. QED
    BY <1>1, <2>1, <2>2, <2>3, NoStatusChange
<1>5. ASSUME NEW r \in Requests, NEW route \in Routes, NEW c \in Clients, NEW tok \in Tokens,
             Arrive(r, route, c, tok)
      PROVE  Status' = Status
  <2>1. /\ \A z \in Requests \ {r} : req'[z] = req[z]
        /\ req[r].pc \notin {"open", "full"} /\ req'[r].pc \notin {"open", "full"}
    BY <1>1, <1>5 DEF Arrive, At, NoReq, TypeOK
  <2>2. QED
    BY <1>1, <2>1, NoStatusChange
<1>6. ASSUME NEW b \in Buckets, NEW c \in Clients, WindowEnds(b, c) PROVE Status' = Status
  <2>1. ASSUME NEW r \in Requests PROVE req'[r].pc = req[r].pc
    BY <1>1, <1>6 DEF WindowEnds, TypeOK, RequestStates
  <2>2. QED
    BY <2>1 DEF Status, At
<1>7. ASSUME UNCHANGED req PROVE Status' = Status
  BY <1>7 DEF Status, At
<1>8. QED
  BY <1>2, <1>3, <1>4, <1>5, <1>6, <1>7 DEF Next, RequestStep, Tick, RotateKeys, vars

(* The agent's counted stream slots implement a semaphore of any capacity: *)
(* the counter the code keeps is the number of streams open.               *)
THEOREM SlotsRefinement == Spec => SlotsSpec
<1>1. Init => Slots!Init
  BY NoReqOK DEF Init, Slots!Init, Status, At
<1>2. QED
  BY <1>1, Invariance, RefinementStep, PTL DEF Spec, SlotsSpec, Slots!Spec
=============================================================================

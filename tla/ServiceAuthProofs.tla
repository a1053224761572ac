--------------------------- MODULE ServiceAuthProofs ---------------------------
(***************************************************************************)
(* Proofs about ServiceAuth, for any number of overlapping fetches and any *)
(* lifetimes: no service token dies in flight, a retry carries a fresh     *)
(* one, and withdrawn keys and replaced configurations are used no longer  *)
(* than a TTL and one message.  The second part is about LazyDatabase,     *)
(* whose state and steps are its own.                                      *)
(***************************************************************************)
EXTENDS ServiceAuth, LazyDatabase, TLAPS

(* A token is cached for its lifetime less the skew. *)
LEMMA TtlIs == Ttl \in Nat /\ Ttl + Skew = Lifetime
BY LatencyAssumption DEF Ttl

(* All times and numbers are natural numbers. *)
LEMMA Numbers ==
  ASSUME TypeOK
  PROVE  /\ clock \in Nat /\ clock <= MaxClock /\ mints \in Nat /\ writes \in Nat
         /\ version \in Nat /\ signing \in Nat
         /\ \A k \in 1..MaxRotations : rotated[k] \in Nat
         /\ \A v \in 1..MaxVersions : replaced[v] \in Nat
BY BoundsAssumption DEF TypeOK, Times

LEMMA CallNumbers ==
  ASSUME TypeOK, NEW c \in Callers
  PROVE  /\ call[c] \in CallStates /\ call[c].tok \in Toks
         /\ call[c].since \in Nat /\ call[c].seen \in Nat /\ call[c].v \in Nat
         /\ call[c].key \in Nat
         /\ call[c].tok.exp \in Nat /\ call[c].tok.no \in Nat /\ call[c].tok.key \in Nat
<1>1. call[c] \in CallStates /\ call[c].tok \in Toks
  BY DEF TypeOK, CallStates
<1>2. call[c].since \in Nat /\ call[c].seen \in Nat /\ call[c].v \in Nat /\ call[c].key \in Nat
  BY <1>1, BoundsAssumption DEF CallStates, Times
<1>3. call[c].tok.exp \in Nat /\ call[c].tok.no \in Nat /\ call[c].tok.key \in Nat
  BY <1>1, BoundsAssumption, LatencyAssumption DEF Toks
<1>4. QED
  BY <1>1, <1>2, <1>3

LEMMA NoTokType == NoTok \in Toks
BY BoundsAssumption, LatencyAssumption DEF NoTok, Toks

LEMMA NoCallType == NoCall \in CallStates /\ NoCall.pc = "idle"
BY NoTokType, BoundsAssumption DEF NoCall, CallStates, CallSteps, Times

(* A fetch that has ended knows nothing. *)
LEMMA NoCallOK ==
  ASSUME TypeOK, NEW c \in Callers, call[c] = NoCall
  PROVE  CallOK(c)
BY NoCallType DEF TypeOK, CallOK, TokenAge, AnswerAge, At, NoCall, InFlight, Times

(* A step of one fetch: what the others know is about the world, which it  *)
(* does not change.                                                        *)
LEMMA CallMoves ==
  ASSUME Inv, NEW c \in Callers, NEW q \in CallStates, call' = [call EXCEPT ![c] = q],
         UNCHANGED worldVars, mints' \in 0..MaxMints, mints <= mints',
         token' \in [tok : Toks, until : 0..(MaxClock + Ttl)],
         jwks' \in [key : 0..(MaxRotations + 1), at : Times],
         config' \in [v : 0..MaxVersions, at : Times],
         CachesOK',
         call'[c] = q => CallOK(c)'
  PROVE  Inv'
<1>1. call' \in [Callers -> CallStates] /\ call'[c] = q
      /\ \A z \in Callers \ {c} : call'[z] = call[z]
  BY DEF Inv, TypeOK
<1>2. TypeOK' /\ (version <= writes)'
  BY <1>1 DEF Inv, TypeOK, worldVars
<1>3. ASSUME NEW z \in Callers, z # c PROVE CallOK(z)'
  <2>1. call'[z] = call[z] /\ CallOK(z) /\ call[z].seen \in Nat
    BY <1>1, <1>3 DEF Inv, TypeOK, CallStates
  <2>2. mints \in Nat /\ mints' \in Nat
    BY BoundsAssumption DEF Inv, TypeOK
  <2>3. TokenAge(z)' /\ AnswerAge(z)'
    BY <2>1 DEF CallOK, TokenAge, AnswerAge, At, worldVars
  <2>4. QED
    BY <2>1, <2>2, <2>3 DEF CallOK, worldVars
<1>4. QED
  BY <1>1, <1>2, <1>3 DEF Inv

(* One that leaves the caches alone as well. *)
LEMMA CallMovesOnly ==
  ASSUME Inv, NEW c \in Callers, NEW q \in CallStates, call' = [call EXCEPT ![c] = q],
         UNCHANGED <<worldVars, mints, token, jwks, config>>,
         call'[c] = q => CallOK(c)'
  PROVE  Inv'
<1>1. CachesOK'
  BY DEF Inv, CachesOK, worldVars
<1>2. mints' \in 0..MaxMints /\ mints <= mints'
  BY BoundsAssumption DEF Inv, TypeOK
<1>3. QED
  BY <1>1, <1>2, CallMoves DEF Inv, TypeOK

(* A fetch ends. *)
LEMMA ReturnStep ==
  ASSUME Inv, NEW c \in Callers, Return(c), UNCHANGED <<worldVars, mints, token, jwks, config>>
  PROVE  Inv'
<1>1. call' \in [Callers -> CallStates] /\ call'[c] = NoCall
  BY NoCallType DEF Inv, TypeOK, Return
<1>2. TypeOK'
  BY <1>1 DEF Inv, TypeOK, worldVars
<1>3. CallOK(c)'
  <2>1. ASSUME TypeOK', call'[c] = NoCall PROVE CallOK(c)'
    BY <2>1, NoCallType DEF TypeOK, CallOK, TokenAge, AnswerAge, At, NoCall, InFlight, Times
  <2>2. QED
    BY <1>1, <1>2, <2>1
<1>4. QED
  BY <1>3, NoCallType, CallMovesOnly DEF Return

-----------------------------------------------------------------------------
(* fetch_and_cache_agent_config, step by step *)

LEMMA FetchStep ==
  ASSUME Inv, NEW c \in Callers, Fetch(c)
  PROVE  Inv'
<1>1. CASE config.v # 0 /\ clock - config.at < ConfigTTL
  <2> DEFINE q == [call[c] EXCEPT !.pc = "served", !.v = config.v]
  <2>1. q \in CallStates /\ call' = [call EXCEPT ![c] = q]
    BY <1>1 DEF Inv, TypeOK, Fetch, CallStates, CallSteps
  <2>2. call'[c] = q => CallOK(c)'
    <3> HAVE call'[c] = q
    <3>1. q.pc = "served" /\ q.since = call[c].since /\ q.seen = call[c].seen /\ q.v = config.v
      BY DEF Inv, TypeOK, CallStates
    <3>2. CallOK(c) /\ CachesOK /\ UNCHANGED <<worldVars, mints>>
      BY DEF Inv, Fetch
    <3>3. config.v \in 1..writes
      BY <1>1, BoundsAssumption DEF Inv, TypeOK, CachesOK
    <3>4. config.v # version => clock < replaced[config.v] + ConfigTTL + Latency
      <4> HAVE config.v # version
      <4>1. config.at <= replaced[config.v] + Latency
        BY <1>1, <3>2 DEF CachesOK
      <4>2. replaced[config.v] \in Nat
        BY <3>3, BoundsAssumption DEF Inv, TypeOK, Times
      <4>3. clock \in Nat /\ config.at \in Nat
        BY BoundsAssumption DEF Inv, TypeOK, Times
      <4>4. QED
        BY <1>1, <4>1, <4>2, <4>3, TtlAssumption, LatencyAssumption
    <3>5. AnswerAge(c)' /\ TokenAge(c)'
      BY <3>1, <3>2, <3>3, <3>4 DEF AnswerAge, TokenAge, At, worldVars
    <3>6. QED
      BY <3>1, <3>2, <3>5 DEF CallOK, InFlight, worldVars
  <2>3. QED
    BY <2>1, <2>2, CallMovesOnly DEF Fetch
<1>2. CASE ~(config.v # 0 /\ clock - config.at < ConfigTTL)
  <2> DEFINE q == [call[c] EXCEPT !.pc = "token"]
  <2>1. q \in CallStates /\ call' = [call EXCEPT ![c] = q]
    BY <1>2 DEF Inv, TypeOK, Fetch, CallStates, CallSteps
  <2>2. call'[c] = q => CallOK(c)'
    <3> HAVE call'[c] = q
    <3>1. q.pc = "token" /\ q.since = call[c].since /\ q.seen = call[c].seen
      BY DEF Inv, TypeOK, CallStates
    <3>2. CallOK(c) /\ UNCHANGED <<worldVars, mints>>
      BY DEF Inv, Fetch
    <3>3. QED
      BY <3>1, <3>2 DEF CallOK, AnswerAge, TokenAge, At, InFlight, worldVars
  <2>3. QED
    BY <2>1, <2>2, CallMovesOnly DEF Fetch
<1>3. QED
  BY <1>1, <1>2

LEMMA AgetTokenStep ==
  ASSUME Inv, NEW c \in Callers, AgetToken(c)
  PROVE  Inv'
<1>1. CASE ~call[c].retried /\ token # NoEntry /\ clock < token.until
  <2> DEFINE q == [call[c] EXCEPT !.pc = "sent", !.tok = token.tok, !.since = clock]
  <2>1. q \in CallStates /\ call' = [call EXCEPT ![c] = q]
    <3>1. call[c] \in CallStates /\ token.tok \in Toks /\ clock \in Times
      BY DEF Inv, TypeOK
    <3>2. q \in CallStates
      BY <3>1 DEF CallStates, CallSteps
    <3>3. call' = [call EXCEPT ![c].pc = "sent", ![c].tok = token.tok, ![c].since = clock]
      BY <1>1, Zenon DEF AgetToken
    <3>4. call' = [call EXCEPT ![c] = q]
      BY <3>3 DEF Inv, TypeOK, CallStates
    <3>5. QED
      BY <3>2, <3>4
  <2>2. call'[c] = q => CallOK(c)'
    <3> HAVE call'[c] = q
    <3>1. /\ q.pc = "sent" /\ q.since = clock /\ q.seen = call[c].seen /\ q.tok = token.tok
          /\ ~q.retried
      BY <1>1 DEF Inv, TypeOK, CallStates
    <3>2. CallOK(c) /\ CachesOK /\ UNCHANGED <<worldVars, mints>>
      BY DEF Inv, AgetToken
    <3>3. clock \in Nat /\ token.until \in Nat /\ token.tok.exp \in Nat
      BY BoundsAssumption, LatencyAssumption, TtlIs DEF Inv, TypeOK, Times, Toks
    <3>4. clock + Skew < token.tok.exp + Latency
      BY <1>1, <3>2, <3>3, LatencyAssumption DEF CachesOK
    <3>5. QED
      BY <3>1, <3>2, <3>3, <3>4, LatencyAssumption
         DEF CallOK, AnswerAge, TokenAge, At, InFlight, worldVars
  <2>3. QED
    BY <2>1, <2>2, CallMovesOnly DEF AgetToken
<1>2. CASE ~(~call[c].retried /\ token # NoEntry /\ clock < token.until)
  <2> DEFINE q == [call[c] EXCEPT !.pc = "mint"]
  <2>1. q \in CallStates /\ call' = [call EXCEPT ![c] = q]
    BY <1>2 DEF Inv, TypeOK, AgetToken, CallStates, CallSteps
  <2>2. call'[c] = q => CallOK(c)'
    <3> HAVE call'[c] = q
    <3>1. q.pc = "mint" /\ q.since = call[c].since /\ q.seen = call[c].seen
      BY DEF Inv, TypeOK, CallStates
    <3>2. CallOK(c) /\ UNCHANGED <<worldVars, mints>>
      BY DEF Inv, AgetToken
    <3>3. QED
      BY <3>1, <3>2 DEF CallOK, AnswerAge, TokenAge, At, InFlight, worldVars
  <2>3. QED
    BY <2>1, <2>2, CallMovesOnly DEF AgetToken
<1>3. QED
  BY <1>1, <1>2

(* WSO2 IS issues a token: its number is above all those seen. *)
LEMMA MintStep ==
  ASSUME Inv, NEW c \in Callers, Mint(c)
  PROVE  Inv'
<1> DEFINE t == [no |-> mints + 1, key |-> signing, exp |-> clock + Lifetime]
           q == [call[c] EXCEPT !.pc = "minted", !.since = clock, !.tok = t]
<1>1. q \in CallStates /\ call' = [call EXCEPT ![c] = q]
  <2>1. call[c] \in CallStates /\ clock \in Times /\ t \in Toks
    <3>1. clock \in Times /\ signing \in 0..(MaxRotations + 1) /\ mints + 1 \in 0..MaxMints
      BY BoundsAssumption DEF Inv, TypeOK, Mint
    <3>2. clock + Lifetime \in 0..(MaxClock + Lifetime)
      BY <3>1, BoundsAssumption, LatencyAssumption DEF Times
    <3>3. t \in Toks
      BY <3>1, <3>2 DEF Toks
    <3>4. QED
      BY <3>1, <3>3, CallNumbers DEF Inv
  <2>2. q \in CallStates
    BY <2>1 DEF CallStates, CallSteps
  <2>3. call' = [call EXCEPT ![c].pc = "minted", ![c].since = clock, ![c].tok = t]
    BY Zenon DEF Mint
  <2>4. call' = [call EXCEPT ![c] = q]
    BY <2>3 DEF Inv, TypeOK, CallStates
  <2>5. QED
    BY <2>2, <2>4
<1>2. mints \in Nat /\ mints' = mints + 1 /\ mints' \in 0..MaxMints
  BY BoundsAssumption DEF Inv, TypeOK, Mint
<1>3. call'[c] = q => CallOK(c)'
  <2> HAVE call'[c] = q
  <2>1. q.pc = "minted" /\ q.since = clock /\ q.seen = call[c].seen /\ q.tok = t
    BY DEF Inv, TypeOK, CallStates
  <2>2. CallOK(c) /\ UNCHANGED worldVars /\ clock \in Nat /\ call[c].seen \in Nat
    BY BoundsAssumption DEF Inv, Mint, TypeOK, CallStates, Times
  <2>3. TokenAge(c)' /\ AnswerAge(c)'
    BY <2>1, <2>2 DEF TokenAge, AnswerAge, At, worldVars
  <2>4. QED
    BY <1>2, <2>1, <2>2, <2>3, LatencyAssumption DEF CallOK, worldVars
<1>4. CachesOK'
  BY DEF Inv, Mint, CachesOK, worldVars
<1>5. QED
  <2>1. UNCHANGED <<worldVars, token, jwks, config>>
    BY DEF Mint
  <2>2. token' \in [tok : Toks, until : 0..(MaxClock + Ttl)]
        /\ jwks' \in [key : 0..(MaxRotations + 1), at : Times]
        /\ config' \in [v : 0..MaxVersions, at : Times]
    BY <2>1 DEF Inv, TypeOK
  <2>3. mints <= mints'
    BY <1>2
  <2>4. QED
    BY <1>1, <1>2, <1>3, <1>4, <2>1, <2>2, <2>3, CallMoves

(* The token is cached and sent, at most a message after it was issued. *)
LEMMA StoreTokenStep ==
  ASSUME Inv, NEW c \in Callers, StoreToken(c)
  PROVE  Inv'
<1> DEFINE q == [call[c] EXCEPT !.pc = "sent", !.since = clock]
<1>1. q \in CallStates /\ call' = [call EXCEPT ![c] = q]
  BY DEF Inv, TypeOK, StoreToken, CallStates, CallSteps
<1>2. /\ clock \in Nat /\ clock <= MaxClock
      /\ call[c].tok \in Toks /\ call[c].tok.exp \in Nat /\ call[c].since \in Nat
  BY Numbers, CallNumbers DEF Inv
<1>3. CallOK(c) /\ UNCHANGED worldVars /\ At(c, "minted")
  BY DEF Inv, StoreToken
<1>4. clock <= call[c].since + Latency /\ call[c].tok.exp = call[c].since + Lifetime
  BY <1>3 DEF CallOK, TokenAge, At, InFlight
<1>5. call'[c] = q => CallOK(c)'
  <2> HAVE call'[c] = q
  <2>1. /\ q.pc = "sent" /\ q.since = clock /\ q.seen = call[c].seen /\ q.tok = call[c].tok
        /\ q.retried = call[c].retried
    BY DEF Inv, TypeOK, CallStates
  <2>2. clock + Skew < call[c].tok.exp + Latency
    BY <1>2, <1>4, LatencyAssumption
  <2>3. TokenAge(c)' /\ AnswerAge(c)'
    BY <1>3, <2>1, <2>2 DEF TokenAge, AnswerAge, At, worldVars
  <2>4. QED
    <3>1. clock' = clock /\ mints' = mints
      BY DEF StoreToken, worldVars
    <3>2. call[c].retried => call[c].tok.no > call[c].seen
      BY <1>3 DEF CallOK, At, InFlight
    <3>3. call[c].seen <= mints
      BY <1>3 DEF CallOK
    <3>4. QED
      BY <1>2, <2>1, <2>3, <3>1, <3>2, <3>3, LatencyAssumption DEF CallOK
<1>6. CachesOK' /\ token' \in [tok : Toks, until : 0..(MaxClock + Ttl)]
  <2>1. token'.until = clock + Ttl /\ token'.tok = call[c].tok
        /\ token' \in [tok : Toks, until : 0..(MaxClock + Ttl)]
    BY <1>2, TtlIs, BoundsAssumption DEF StoreToken
  <2>2. token'.until + Skew <= token'.tok.exp + Latency
    BY <1>2, <1>4, <2>1, TtlIs, LatencyAssumption
  <2>3. QED
    BY <1>3, <2>1, <2>2 DEF Inv, CachesOK, StoreToken, worldVars
<1>7. mints' = mints /\ mints \in 0..MaxMints /\ mints <= mints'
  BY BoundsAssumption DEF Inv, TypeOK, StoreToken
<1>8. QED
  BY <1>1, <1>5, <1>6, <1>7, CallMoves DEF StoreToken, Inv, TypeOK

(* After a 401 the fetch begins again, or gives up. *)
LEMMA UnauthorizedStep ==
  ASSUME Inv, NEW c \in Callers, Unauthorized(c)
  PROVE  Inv'
<1>1. CASE call[c].retried
  BY <1>1, ReturnStep DEF Unauthorized
<1>2. CASE ~call[c].retried
  <2> DEFINE q == [NoCall EXCEPT !.pc = "token", !.retried = TRUE, !.seen = mints]
  <2>1. q \in CallStates /\ call' = [call EXCEPT ![c] = q]
    BY <1>2, NoCallType DEF Inv, TypeOK, Unauthorized, CallStates, CallSteps
  <2>2. call'[c] = q => CallOK(c)'
    <3> HAVE call'[c] = q
    <3>1. q.pc = "token" /\ q.since = 0 /\ q.seen = mints
      BY DEF NoCall
    <3>2. UNCHANGED <<worldVars, mints>> /\ clock \in Nat /\ mints \in Nat
      BY BoundsAssumption DEF Inv, TypeOK, Unauthorized, Times
    <3>3. QED
      BY <3>1, <3>2 DEF CallOK, AnswerAge, TokenAge, At, InFlight, worldVars
  <2>3. token' = NoEntry /\ NoEntry \in [tok : Toks, until : 0..(MaxClock + Ttl)]
    BY <1>2, NoTokType, TtlIs, BoundsAssumption DEF Unauthorized, NoEntry
  <2>4. CachesOK'
    BY <2>3 DEF Inv, CachesOK, Unauthorized, worldVars
  <2>5. mints' = mints /\ mints \in 0..MaxMints /\ mints <= mints'
    BY BoundsAssumption DEF Inv, TypeOK, Unauthorized
  <2>6. QED
    BY <2>1, <2>2, <2>3, <2>4, <2>5, CallMoves DEF Unauthorized, Inv, TypeOK
<1>3. QED
  BY <1>1, <1>2

(* The configuration that arrives was current when it was sent. *)
LEMMA StoreConfigStep ==
  ASSUME Inv, NEW c \in Callers, StoreConfig(c)
  PROVE  Inv'
<1>1. CASE call[c].v = 0
  BY <1>1, ReturnStep DEF StoreConfig
<1>2. CASE call[c].v # 0
  <2> DEFINE w == call[c].v
             q == [NoCall EXCEPT !.pc = "served", !.v = w]
  <2>1. q \in CallStates /\ call' = [call EXCEPT ![c] = q]
    BY <1>2, NoCallType DEF Inv, TypeOK, StoreConfig, CallStates, CallSteps
  <2>2. /\ clock \in Nat /\ call[c].since \in Nat /\ writes \in Nat /\ mints \in Nat
        /\ w \in 0..MaxVersions /\ UNCHANGED worldVars
    <3>1. w \in 0..MaxVersions
      BY CallNumbers DEF Inv, CallStates
    <3>2. UNCHANGED worldVars
      BY DEF StoreConfig
    <3>3. QED
      BY <3>1, <3>2, Numbers, CallNumbers DEF Inv
  <2>3. w \in 1..writes /\ clock <= call[c].since + Latency
        /\ (w # version => call[c].since <= replaced[w])
    BY <1>2, <2>2, BoundsAssumption DEF Inv, CallOK, AnswerAge, StoreConfig, At, InFlight
  <2>4. w # version => replaced[w] \in Nat
    BY <2>2, <2>3, BoundsAssumption DEF Inv, TypeOK, Times
  <2>5. call'[c] = q => CallOK(c)'
    <3> HAVE call'[c] = q
    <3>1. q.pc = "served" /\ q.since = 0 /\ q.seen = 0 /\ q.v = w
      BY DEF NoCall
    <3>2. w # version => clock < replaced[w] + ConfigTTL + Latency
      BY <2>2, <2>3, <2>4, TtlAssumption, LatencyAssumption
    <3>3. TokenAge(c)' /\ AnswerAge(c)'
      BY <2>2, <2>3, <3>1, <3>2 DEF TokenAge, AnswerAge, At, worldVars
    <3>4. mints' = mints
      BY DEF StoreConfig
    <3>5. QED
      BY <2>2, <3>1, <3>3, <3>4 DEF CallOK, InFlight, worldVars
  <2>6. config' \in [v : 0..MaxVersions, at : Times] /\ config'.v = w /\ config'.at = clock
    BY <1>2 DEF StoreConfig, Inv, TypeOK, CallStates
  <2>7. CachesOK'
    <3>1. w # version => clock <= replaced[w] + Latency
      BY <2>2, <2>3, <2>4, LatencyAssumption
    <3>2. QED
      BY <2>2, <2>3, <2>6, <3>1 DEF Inv, CachesOK, StoreConfig, worldVars
  <2>8. mints' = mints /\ mints \in 0..MaxMints /\ mints <= mints'
    BY BoundsAssumption DEF Inv, TypeOK, StoreConfig
  <2>9. QED
    BY <2>1, <2>2, <2>5, <2>6, <2>7, <2>8, CallMoves DEF StoreConfig, Inv, TypeOK
<1>3. QED
  BY <1>1, <1>2

-----------------------------------------------------------------------------
(* The Business API *)

(* What its answer tells of the token and the keys at hand.  The token has *)
(* lived one message longer than when it was last looked at.               *)
LEMMA AnswerOK ==
  ASSUME Inv, NEW c \in Callers, At(c, "sent") \/ At(c, "keys"), NEW key \in 1..signing,
         Answer(c, key), UNCHANGED <<worldVars, mints>>,
         key # signing => clock < rotated[key] + JwksTTL + Latency
  PROVE  \E q \in CallStates : /\ call' = [call EXCEPT ![c] = q]
                               /\ call'[c] = q => CallOK(c)'
<1>1. CallOK(c) /\ UNCHANGED worldVars /\ mints' = mints
  BY DEF Inv
<1>2. /\ call[c] \in CallStates /\ clock \in Times /\ version \in 0..MaxVersions
      /\ clock \in Nat /\ call[c].since \in Nat /\ call[c].tok.exp \in Nat
      /\ call[c].seen \in Nat /\ writes \in Nat /\ version \in Nat
  BY Numbers, CallNumbers DEF Inv, TypeOK
<1>3. /\ clock <= call[c].since + Latency /\ call[c].seen <= mints
      /\ call[c].retried => call[c].tok.no > call[c].seen
  BY <1>1 DEF CallOK, At, InFlight
<1>4. CASE Verifies(call[c].tok, key)
  <2> DEFINE q == [call[c] EXCEPT !.pc = "answered", !.v = version, !.key = 0, !.since = clock]
  <2>1. q \in CallStates
    <3>1. 0 \in 0..(MaxRotations + 1)
      BY BoundsAssumption
    <3>2. QED
      BY <1>2, <3>1 DEF CallStates, CallSteps
  <2>2. call' = [call EXCEPT ![c].pc = "answered", ![c].v = version, ![c].key = 0,
                             ![c].since = clock]
    BY <1>4, Zenon DEF Answer, GetAgentConfig
  <2>3. call' = [call EXCEPT ![c] = q]
    BY <2>2 DEF Inv, TypeOK, CallStates
  <2>4. call'[c] = q => CallOK(c)'
    <3> HAVE call'[c] = q
    <3>1. /\ q.pc = "answered" /\ q.v = version /\ q.since = clock /\ q.tok = call[c].tok
          /\ q.seen = call[c].seen /\ q.retried = call[c].retried
      BY <1>2 DEF CallStates
    <3>2. q.tok.key = key
      BY <1>4, <3>1 DEF Verifies
    <3>3. version <= writes
      BY DEF Inv
    <3>4. TokenAge(c)' /\ AnswerAge(c)'
      BY <1>1, <3>1, <3>2, <3>3 DEF TokenAge, AnswerAge, At, worldVars
    <3>5. clock' = clock
      BY DEF worldVars
    <3>6. QED
      BY <1>1, <1>2, <1>3, <3>1, <3>4, <3>5, LatencyAssumption DEF CallOK
  <2>5. QED
    BY <2>1, <2>3, <2>4
<1>5. CASE ~Verifies(call[c].tok, key)
  <2> DEFINE q == [call[c] EXCEPT !.pc = "unauthorized", !.key = 0, !.since = clock]
  <2>1. q \in CallStates
    <3>1. 0 \in 0..(MaxRotations + 1)
      BY BoundsAssumption
    <3>2. QED
      BY <1>2, <3>1 DEF CallStates, CallSteps
  <2>2. call' = [call EXCEPT ![c].pc = "unauthorized", ![c].key = 0, ![c].since = clock]
    BY <1>5, Zenon DEF Answer
  <2>3. call' = [call EXCEPT ![c] = q]
    BY <2>2 DEF Inv, TypeOK, CallStates
  <2>4. call'[c] = q => CallOK(c)'
    <3> HAVE call'[c] = q
    <3>1. /\ q.pc = "unauthorized" /\ q.since = clock /\ q.tok = call[c].tok
          /\ q.seen = call[c].seen /\ q.retried = call[c].retried
      BY <1>2 DEF CallStates
    <3>2. call[c].since + Skew < call[c].tok.exp + 2 * Latency
      BY <1>1, <1>2, LatencyAssumption DEF CallOK, TokenAge, At
    <3>3. clock + Skew < call[c].tok.exp + 3 * Latency
      BY <1>2, <1>3, <3>2, LatencyAssumption
    <3>4. TokenAge(c)' /\ AnswerAge(c)'
      BY <3>1, <3>3 DEF TokenAge, AnswerAge, At
    <3>5. clock' = clock
      BY DEF worldVars
    <3>6. QED
      BY <1>1, <1>2, <1>3, <3>1, <3>4, <3>5, LatencyAssumption DEF CallOK
  <2>5. QED
    BY <2>1, <2>3, <2>4
<1>6. QED
  BY <1>4, <1>5

(* The keys at hand, or a request for those there are. *)
LEMMA CheckStep ==
  ASSUME Inv, NEW c \in Callers, Check(c)
  PROVE  Inv'
<1>1. UNCHANGED <<worldVars, mints, token, jwks, config>> /\ At(c, "sent")
  BY DEF Check
<1>2. CASE jwks.key # 0 /\ clock - jwks.at < JwksTTL
  <2>1. Answer(c, jwks.key)
    BY <1>2, Zenon DEF Check
  <2>2. jwks.key \in Nat /\ jwks.at \in Nat
    BY BoundsAssumption DEF Inv, TypeOK, Times
  <2>3. jwks.key \in 1..signing
    BY <1>2, <2>2, Numbers DEF Inv, CachesOK
  <2>4. jwks.key # signing => clock < rotated[jwks.key] + JwksTTL + Latency
    <3> HAVE jwks.key # signing
    <3>1. jwks.at <= rotated[jwks.key] + Latency
      BY <1>2 DEF Inv, CachesOK
    <3>2. signing <= MaxRotations + 1 /\ signing \in Nat
      BY Numbers, BoundsAssumption DEF Inv, TypeOK
    <3>3. jwks.key \in 1..MaxRotations
      BY <2>2, <2>3, <3>2, BoundsAssumption
    <3>4. rotated[jwks.key] \in Nat /\ clock \in Nat
      BY <3>3, Numbers DEF Inv
    <3>5. QED
      BY <1>2, <2>2, <3>1, <3>4, TtlAssumption, LatencyAssumption
  <2>5. QED
    BY <1>1, <2>1, <2>3, <2>4, AnswerOK, CallMovesOnly
<1>3. CASE ~(jwks.key # 0 /\ clock - jwks.at < JwksTTL)
  <2> DEFINE q == [call[c] EXCEPT !.pc = "keys", !.key = signing, !.since = clock]
  <2>1. /\ call[c] \in CallStates /\ clock \in Times /\ signing \in 1..(MaxRotations + 1)
        /\ clock \in Nat /\ signing \in Nat /\ call[c].since \in Nat /\ call[c].tok.exp \in Nat
    BY Numbers, CallNumbers DEF Inv, TypeOK
  <2>2. q \in CallStates
    <3>1. signing \in 0..(MaxRotations + 1)
      BY <2>1, BoundsAssumption
    <3>2. QED
      BY <2>1, <3>1 DEF CallStates, CallSteps
  <2>3. call' = [call EXCEPT ![c].pc = "keys", ![c].key = signing, ![c].since = clock]
    BY <1>3, Zenon DEF Check
  <2>4. call' = [call EXCEPT ![c] = q]
    BY <2>3 DEF Inv, TypeOK, CallStates
  <2>5. call'[c] = q => CallOK(c)'
    <3> HAVE call'[c] = q
    <3>1. /\ q.pc = "keys" /\ q.since = clock /\ q.tok = call[c].tok /\ q.key = signing
          /\ q.seen = call[c].seen /\ q.retried = call[c].retried
      BY <2>1 DEF CallStates
    <3>2. /\ clock <= call[c].since + Latency /\ call[c].seen <= mints
          /\ call[c].retried => call[c].tok.no > call[c].seen
          /\ call[c].since + Skew < call[c].tok.exp + Latency
      BY <1>1 DEF Inv, CallOK, TokenAge, At, InFlight
    <3>3. clock + Skew < call[c].tok.exp + 2 * Latency
      BY <2>1, <3>2, LatencyAssumption
    <3>4. clock' = clock /\ signing' = signing /\ mints' = mints
      BY <1>1 DEF worldVars
    <3>5. TokenAge(c)' /\ AnswerAge(c)'
      BY <2>1, <3>1, <3>3, <3>4 DEF TokenAge, AnswerAge, At
    <3>6. QED
      BY <2>1, <3>1, <3>2, <3>4, <3>5, LatencyAssumption DEF CallOK
  <2>6. QED
    BY <1>1, <2>2, <2>4, <2>5, CallMovesOnly
<1>4. QED
  BY <1>2, <1>3

(* The keys that arrive were published when they were sent. *)
LEMMA CheckWithKeysStep ==
  ASSUME Inv, NEW c \in Callers, CheckWithKeys(c)
  PROVE  Inv'
<1> DEFINE key == call[c].key
<1>1. /\ UNCHANGED <<worldVars, mints, token, config>> /\ At(c, "keys")
      /\ Answer(c, key) /\ jwks' = [key |-> key, at |-> clock]
  BY DEF CheckWithKeys
<1>2. /\ clock \in Nat /\ signing \in Nat /\ call[c].since \in Nat /\ key \in Nat
      /\ key \in 0..(MaxRotations + 1) /\ clock \in Times
  BY Numbers, CallNumbers DEF Inv, TypeOK, CallStates
<1>3. /\ key \in 1..signing /\ clock <= call[c].since + Latency
      /\ key # signing => call[c].since <= rotated[key]
  BY <1>1 DEF Inv, CallOK, AnswerAge, At, InFlight
<1>4. key # signing => clock <= rotated[key] + Latency /\ rotated[key] \in Nat
  <2> HAVE key # signing
  <2>1. signing <= MaxRotations + 1
    BY Numbers, BoundsAssumption DEF Inv, TypeOK
  <2>2. key \in 1..MaxRotations
    BY <1>2, <1>3, <2>1, BoundsAssumption
  <2>3. rotated[key] \in Nat
    BY <2>2, Numbers DEF Inv
  <2>4. QED
    BY <1>2, <1>3, <2>3, LatencyAssumption
<1>5. key # signing => clock < rotated[key] + JwksTTL + Latency
  BY <1>2, <1>4, TtlAssumption, LatencyAssumption
<1>6. PICK q \in CallStates : /\ call' = [call EXCEPT ![c] = q]
                              /\ call'[c] = q => CallOK(c)'
  BY <1>1, <1>3, <1>5, AnswerOK
<1>7. jwks' \in [key : 0..(MaxRotations + 1), at : Times]
  BY <1>1, <1>2
<1>8. CachesOK'
  <2>1. jwks'.at = clock /\ jwks'.key = key
    BY <1>1
  <2>2. UNCHANGED <<clock, signing, rotated, version, replaced, writes, token, config>>
    BY <1>1 DEF worldVars
  <2>3. CachesOK
    BY DEF Inv
  <2>4. QED
    BY <1>2, <1>3, <1>4, <2>1, <2>2, <2>3 DEF CachesOK
<1>9. mints' \in 0..MaxMints /\ mints <= mints'
  BY <1>1, Numbers DEF Inv, TypeOK
<1>10. token' \in [tok : Toks, until : 0..(MaxClock + Ttl)]
       /\ config' \in [v : 0..MaxVersions, at : Times]
  BY <1>1 DEF Inv, TypeOK
<1>11. QED
  BY <1>1, <1>6, <1>7, <1>8, <1>9, <1>10, CallMoves

-----------------------------------------------------------------------------
(* The administrator, WSO2 IS and time: every fetch learns of it later.    *)

(* A configuration that is replaced now was current until now. *)
LEMMA WriteConfigStep ==
  ASSUME Inv, WriteConfig \/ DeleteConfig
  PROVE  Inv'
<1>1. /\ UNCHANGED <<clock, signing, rotated, mints, token, jwks, config, call>>
      /\ clock \in Times /\ clock \in Nat /\ writes \in Nat /\ version \in Nat
      /\ version <= writes
  BY Numbers DEF Inv, TypeOK, WriteConfig, DeleteConfig
<1>2. /\ writes' \in 0..MaxVersions /\ version' \in 0..MaxVersions /\ version' <= writes'
      /\ writes <= writes' /\ version' # version /\ version' \notin 1..writes
      /\ writes' \in Nat
  BY <1>1, BoundsAssumption DEF Inv, TypeOK, WriteConfig, DeleteConfig
<1>3. replaced' = IF version = 0 THEN replaced ELSE [replaced EXCEPT ![version] = clock]
  BY DEF WriteConfig, DeleteConfig
<1>4. replaced' \in [1..MaxVersions -> Times]
  BY <1>1, <1>3 DEF Inv, TypeOK
<1>5. version # 0 => version \in 1..MaxVersions /\ replaced'[version] = clock
  BY <1>1, <1>3, BoundsAssumption DEF Inv, TypeOK
<1>6. \A v \in 1..writes : v # version => replaced'[v] = replaced[v]
  BY <1>3 DEF Inv, TypeOK
<1>7. TypeOK'
  BY <1>1, <1>2, <1>4 DEF Inv, TypeOK
<1>8. CachesOK'
  <2>1. /\ config.v \in Nat /\ config.at \in Nat /\ config.at <= clock /\ config.v <= writes
        /\ config.v \notin {0, version} => config.at <= replaced[config.v] + Latency
    BY BoundsAssumption DEF Inv, TypeOK, CachesOK, Times
  <2>2. config.v # 0 => config.at <= replaced'[config.v] + Latency
    BY <1>1, <1>5, <1>6, <2>1, LatencyAssumption
  <2>3. config.v <= writes'
    BY <1>1, <1>2, <2>1
  <2>4. QED
    BY <1>1, <2>2, <2>3 DEF Inv, CachesOK
<1>9. ASSUME NEW c \in Callers PROVE CallOK(c)'
  <2>1. /\ CallOK(c) /\ call'[c] = call[c] /\ call[c].v \in Nat /\ call[c].since \in Nat
        /\ call[c].since <= clock
    BY <1>1, CallNumbers DEF Inv, CallOK
  <2>2. At(c, "answered") /\ call[c].v # 0 => call[c].since <= replaced'[call[c].v]
    BY <1>1, <1>5, <1>6, <2>1 DEF CallOK, AnswerAge
  <2>3. At(c, "served") => clock < replaced'[call[c].v] + ConfigTTL + Latency
    BY <1>1, <1>5, <1>6, <2>1, TtlAssumption, LatencyAssumption DEF CallOK, AnswerAge
  <2>4. /\ At(c, "answered") => call[c].v <= writes'
        /\ At(c, "served") => call[c].v \in 1..writes'
    BY <1>1, <1>2, <2>1 DEF CallOK, AnswerAge
  <2>5. AnswerAge(c)'
    BY <1>1, <2>1, <2>2, <2>3, <2>4 DEF CallOK, AnswerAge, At
  <2>6. TokenAge(c)'
    BY <1>1, <2>1 DEF CallOK, TokenAge, At
  <2>7. QED
    BY <1>1, <2>1, <2>5, <2>6 DEF CallOK
<1>10. QED
  BY <1>2, <1>7, <1>8, <1>9 DEF Inv

(* A key that is withdrawn now was published until now. *)
LEMMA RotateKeysStep ==
  ASSUME Inv, RotateKeys
  PROVE  Inv'
<1>1. /\ UNCHANGED <<clock, version, replaced, writes, mints, token, jwks, config, call>>
      /\ clock \in Times /\ clock \in Nat /\ signing \in Nat /\ signing \in 1..MaxRotations
      /\ signing' = signing + 1 /\ rotated' = [rotated EXCEPT ![signing] = clock]
  BY Numbers, BoundsAssumption DEF Inv, TypeOK, RotateKeys
<1>2. rotated' \in [1..MaxRotations -> Times] /\ rotated'[signing] = clock
  BY <1>1 DEF Inv, TypeOK
<1>3. \A k \in 1..signing : k # signing => rotated'[k] = rotated[k]
  BY <1>1 DEF Inv, TypeOK
<1>4. TypeOK'
  BY <1>1, <1>2, BoundsAssumption DEF Inv, TypeOK
<1>5. CachesOK'
  <2>1. /\ jwks.key \in Nat /\ jwks.at \in Nat /\ jwks.at <= clock /\ jwks.key <= signing
        /\ jwks.key \notin {0, signing} => jwks.at <= rotated[jwks.key] + Latency
    BY BoundsAssumption DEF Inv, TypeOK, CachesOK, Times
  <2>2. jwks.key # 0 => jwks.at <= rotated'[jwks.key] + Latency
    BY <1>1, <1>2, <1>3, <2>1, LatencyAssumption
  <2>3. QED
    BY <1>1, <2>1, <2>2 DEF Inv, CachesOK
<1>6. ASSUME NEW c \in Callers PROVE CallOK(c)'
  <2>1. /\ CallOK(c) /\ call'[c] = call[c] /\ call[c].key \in Nat /\ call[c].since \in Nat
        /\ call[c].since <= clock /\ call[c].tok.key \in Nat
    BY <1>1, CallNumbers DEF Inv, CallOK
  <2>2. At(c, "keys") => call[c].since <= rotated'[call[c].key]
    BY <1>1, <1>2, <1>3, <2>1 DEF CallOK, AnswerAge
  <2>3. At(c, "answered") => call[c].since < rotated'[call[c].tok.key] + JwksTTL + Latency
    BY <1>1, <1>2, <1>3, <2>1, TtlAssumption, LatencyAssumption DEF CallOK, AnswerAge
  <2>4. /\ At(c, "keys") => call[c].key \in 1..(signing + 1)
        /\ At(c, "answered") => call[c].tok.key \in 1..(signing + 1)
    BY <1>1, <2>1 DEF CallOK, AnswerAge
  <2>5. AnswerAge(c)'
    BY <1>1, <2>1, <2>2, <2>3, <2>4 DEF CallOK, AnswerAge, At
  <2>6. TokenAge(c)'
    BY <1>1, <2>1 DEF CallOK, TokenAge, At
  <2>7. QED
    BY <1>1, <2>1, <2>5, <2>6 DEF CallOK
<1>7. QED
  BY <1>1, <1>4, <1>5, <1>6 DEF Inv

(* No message is under way longer than Latency. *)
LEMMA TickStep ==
  ASSUME Inv, Tick
  PROVE  Inv'
<1>1. /\ UNCHANGED <<signing, rotated, version, replaced, writes, mints, token, jwks, config, call>>
      /\ clock' = clock + 1 /\ clock \in Nat /\ clock' \in Times
  BY Numbers, BoundsAssumption DEF Inv, TypeOK, Tick, Times
<1>2. TypeOK'
  BY <1>1 DEF Inv, TypeOK
<1>3. CachesOK'
  <2>1. jwks.at \in Nat /\ config.at \in Nat
    BY BoundsAssumption DEF Inv, TypeOK, Times
  <2>2. QED
    BY <1>1, <2>1 DEF Inv, CachesOK
<1>4. ASSUME NEW c \in Callers PROVE CallOK(c)'
  <2>1. CallOK(c) /\ call'[c] = call[c] /\ call[c].since \in Nat
    BY <1>1, CallNumbers DEF Inv
  <2>2. /\ call[c].pc \in InFlight => clock - call[c].since < Latency
        /\ ~At(c, "served")
    BY DEF Tick, At
  <2>3. TokenAge(c)' /\ AnswerAge(c)'
    BY <1>1, <2>1, <2>2 DEF CallOK, TokenAge, AnswerAge, At
  <2>4. call[c].pc \in InFlight => clock + 1 <= call[c].since + Latency
    BY <1>1, <2>1, <2>2, LatencyAssumption
  <2>5. QED
    BY <1>1, <2>1, <2>3, <2>4 DEF CallOK
<1>5. QED
  BY <1>1, <1>2, <1>3, <1>4 DEF Inv

-----------------------------------------------------------------------------
(* Inv is inductive. *)

LEMMA InitInv == Init => Inv
<1>1. SUFFICES ASSUME Init PROVE Inv
  OBVIOUS
<1>2. /\ clock = 0 /\ signing = 1 /\ mints = 0 /\ token = NoEntry /\ jwks = NoJwks
      /\ version \in {0, 1} /\ writes = version /\ config = [v |-> 0, at |-> 0]
      /\ rotated = [k \in 1..MaxRotations |-> 0] /\ replaced = [v \in 1..MaxVersions |-> 0]
      /\ call = [c \in Callers |-> NoCall]
  BY <1>1, Zenon DEF Init
<1>3. TypeOK
  <2>1. 0 \in Times /\ 0 \in 0..MaxMints /\ 0 \in 0..(MaxRotations + 1)
        /\ {0, 1} \subseteq 0..MaxVersions /\ 1 \in 1..(MaxRotations + 1)
    BY BoundsAssumption DEF Times
  <2>2. NoEntry \in [tok : Toks, until : 0..(MaxClock + Ttl)]
    BY NoTokType, TtlIs, BoundsAssumption DEF NoEntry
  <2>3. NoJwks \in [key : 0..(MaxRotations + 1), at : Times]
        /\ [v |-> 0, at |-> 0] \in [v : 0..MaxVersions, at : Times]
    BY <2>1 DEF NoJwks
  <2>4. QED
    BY <1>2, <2>1, <2>2, <2>3, NoCallType DEF TypeOK
<1>4. CachesOK
  <2>1. NoJwks.key = 0 /\ NoJwks.at = 0
    BY DEF NoJwks
  <2>2. version \in Nat
    BY <1>2
  <2>3. QED
    BY <1>2, <2>1, <2>2 DEF CachesOK
<1>5. \A c \in Callers : CallOK(c)
  BY <1>2, <1>3, NoCallOK
<1>6. version <= writes
  BY <1>2
<1>7. QED
  BY <1>3, <1>4, <1>5, <1>6 DEF Inv

LEMMA StepInv == Inv /\ [Next]_vars => Inv'
<1>1. SUFFICES ASSUME Inv, [Next]_vars PROVE Inv'
  OBVIOUS
<1>2. CASE UNCHANGED vars
  BY <1>1, <1>2 DEF Inv, TypeOK, CachesOK, CallOK, TokenAge, AnswerAge, At, vars
<1>3. ASSUME NEW c \in Callers, Fetch(c) PROVE Inv'
  BY <1>1, <1>3, FetchStep
<1>4. ASSUME NEW c \in Callers, CallStep(c) PROVE Inv'
  <2>1. CASE MintFails(c) \/ CallFails(c) \/ Served(c)
    BY <1>1, <2>1, ReturnStep DEF MintFails, CallFails, Served
  <2>2. QED
    BY <1>1, <1>4, <2>1, AgetTokenStep, MintStep, StoreTokenStep, UnauthorizedStep,
       CheckStep, CheckWithKeysStep, StoreConfigStep DEF CallStep
<1>5. QED
  BY <1>1, <1>2, <1>3, <1>4, WriteConfigStep, RotateKeysStep, TickStep DEF Next

LEMMA Invariance == Spec => []Inv
BY InitInv, StepInv, PTL DEF Spec

(* The caches, the keys and the fetches in progress are well formed, for   *)
(* any number of overlapping fetches, tokens, rotations and writes.        *)
THEOREM TypeCorrect == Spec => []TypeOK
<1>1. Inv => TypeOK
  BY DEF Inv
<1>2. QED
  BY <1>1, Invariance, PTL

(* get_token's skew does what its comment says: with three messages of     *)
(* margin - to the agent, to the API, for the API's keys - every token the *)
(* Business API turns down was still alive.                                *)
THEOREM TokensAliveAlways == Spec => []TokensAliveOnArrival
<1>1. Inv => TokensAliveOnArrival
  <2>1. SUFFICES ASSUME Inv, NEW c \in Callers, At(c, "unauthorized")
                 PROVE  call[c].since < call[c].tok.exp
    BY DEF TokensAliveOnArrival
  <2>2. call[c].since + Skew < call[c].tok.exp + 3 * Latency
    BY <2>1 DEF Inv, CallOK, TokenAge
  <2>3. call[c].since \in Nat /\ call[c].tok.exp \in Nat
    BY <2>1, CallNumbers DEF Inv
  <2>4. QED
    BY <2>2, <2>3, LatencyAssumption
<1>2. QED
  BY <1>1, Invariance, PTL

(* fetch_and_cache_agent_config's one retry after a 401 carries a token    *)
(* issued after that 401, whatever other fetches cache meanwhile.          *)
THEOREM RetryAlwaysFresh == Spec => []RetryIsFresh
<1>1. Inv => RetryIsFresh
  BY DEF Inv, CallOK, RetryIsFresh, InFlight
<1>2. QED
  BY <1>1, Invariance, PTL

(* require_service_auth accepts the token of a withdrawn key only while    *)
(* its keys are younger than their TTL and one message.                    *)
THEOREM WithdrawnKeysAlwaysBounded == Spec => []WithdrawnKeysBounded
<1>1. Inv => WithdrawnKeysBounded
  <2>1. SUFFICES ASSUME Inv, NEW c \in Callers, At(c, "answered"), call[c].tok.key # signing
                 PROVE  call[c].since - rotated[call[c].tok.key] < JwksTTL + Latency
    BY DEF WithdrawnKeysBounded
  <2>2. /\ call[c].tok.key \in 1..signing
        /\ call[c].since < rotated[call[c].tok.key] + JwksTTL + Latency
    BY <2>1 DEF Inv, CallOK, AnswerAge
  <2>3. signing \in Nat /\ signing <= MaxRotations + 1
    BY <2>1, Numbers, BoundsAssumption DEF Inv, TypeOK
  <2>4. call[c].tok.key \in 1..MaxRotations
    BY <2>1, <2>2, <2>3, BoundsAssumption
  <2>5. call[c].since \in Nat /\ rotated[call[c].tok.key] \in Nat
    BY <2>1, <2>4, Numbers, CallNumbers DEF Inv
  <2>6. QED
    BY <2>2, <2>5, TtlAssumption, LatencyAssumption
<1>2. QED
  BY <1>1, Invariance, PTL

(* A configuration the agent works with was current less than its TTL and  *)
(* one message ago, however its answers overtake each other.               *)
THEOREM ConfigNeverStale == Spec => []ConfigNotStale
<1>1. Inv => ConfigNotStale
  <2>1. SUFFICES ASSUME Inv, NEW c \in Callers, At(c, "served"), call[c].v # version
                 PROVE  clock - replaced[call[c].v] < ConfigTTL + Latency
    BY DEF ConfigNotStale
  <2>2. /\ call[c].v \in 1..writes
        /\ clock < replaced[call[c].v] + ConfigTTL + Latency
    BY <2>1 DEF Inv, CallOK, AnswerAge
  <2>3. call[c].v \in 1..MaxVersions
    BY <2>1, <2>2, BoundsAssumption DEF Inv, TypeOK
  <2>4. clock \in Nat /\ replaced[call[c].v] \in Nat
    BY <2>1, <2>3, Numbers DEF Inv
  <2>5. QED
    BY <2>2, <2>4, TtlAssumption, LatencyAssumption
<1>2. QED
  BY <1>1, Invariance, PTL

-----------------------------------------------------------------------------
(***************************************************************************)
(* The lazy database of the Business API: one engine and one sessionmaker, *)
(* for any number of worker threads and of failing engine creations.       *)
(***************************************************************************)

(* Startup, before any thread runs. *)
LEMMA LifespanStep ==
  ASSUME DatabaseInv, Lifespan
  PROVE  DatabaseInv'
BY AutoCreateAssumption DEF DatabaseInv, DatabaseTypeOK, LockOK, Lifespan, LockedSteps

(* The arrival of a request. *)
LEMMA ArrivalStep ==
  ASSUME DatabaseInv, NEW w \in Workers, Health(w) \/ GetDb(w)
  PROVE  DatabaseInv'
<1>1. pc' \in [Workers -> PCs]
  BY DEF DatabaseInv, DatabaseTypeOK, Health, GetDb, Goto, PCs
<1>2. LockOK'
  BY NoneAssumption DEF DatabaseInv, DatabaseTypeOK, LockOK, Health, GetDb, Goto, LockedSteps
<1>3. QED
  BY <1>1, <1>2 DEF DatabaseInv, DatabaseTypeOK, Health, GetDb, Goto

(* engine() up to the lock. *)
LEMMA EngineCheckStep ==
  ASSUME DatabaseInv, NEW w \in Workers, EngineCheck(w)
  PROVE  DatabaseInv'
<1>1. pc' \in [Workers -> PCs] /\ nested' \in [Workers -> BOOLEAN]
  BY DEF DatabaseInv, DatabaseTypeOK, EngineCheck, EngineReturns, Goto, PCs
<1>2. LockOK'
  BY NoneAssumption DEF DatabaseInv, DatabaseTypeOK, LockOK, EngineCheck, EngineReturns, Goto, LockedSteps
<1>3. QED
  BY <1>1, <1>2 DEF DatabaseInv, DatabaseTypeOK, EngineCheck, EngineReturns, Goto

(* The first lock of engine(): nobody is under the lock. *)
LEMMA EngineLockStep ==
  ASSUME DatabaseInv, NEW w \in Workers, EngineLock(w)
  PROVE  DatabaseInv'
<1>1. pc' \in [Workers -> PCs]
  BY DEF DatabaseInv, DatabaseTypeOK, EngineLock, Goto, PCs
<1>2. LockOK'
  BY NoneAssumption DEF DatabaseInv, DatabaseTypeOK, LockOK, EngineLock, Goto, LockedSteps
<1>3. QED
  BY <1>1, <1>2 DEF DatabaseInv, DatabaseTypeOK, EngineLock, Goto

(* Creating the engine under the lock, or finding it there. *)
LEMMA EngineMakeStep ==
  ASSUME DatabaseInv, NEW w \in Workers, EngineMake(w)
  PROVE  DatabaseInv'
<1>1. pc' \in [Workers -> PCs] /\ nested' \in [Workers -> BOOLEAN]
  BY DEF DatabaseInv, DatabaseTypeOK, EngineMake, EngineReturns, Goto, PCs
<1>2. ~nested[w] /\ lock = w
  BY DEF DatabaseInv, LockOK, EngineMake, LockedSteps
<1>3. /\ engines' \in Nat /\ engine' \in 0..engines' /\ engines' <= 1
      /\ (engine' = 0 <=> engines' = 0) /\ engine' # 0
      /\ engine # 0 => engine' = engine
      /\ maker \in [no : 0..makers, bind : 0..engines']
  BY DEF DatabaseInv, DatabaseTypeOK, EngineMake
<1>4. LockOK'
  BY <1>2, <1>3, NoneAssumption
  DEF DatabaseInv, DatabaseTypeOK, LockOK, EngineMake, EngineReturns, Goto, LockedSteps
<1>5. DatabaseTypeOK'
  BY <1>1, <1>3 DEF DatabaseInv, DatabaseTypeOK, EngineMake
<1>6. autoCreate /\ booted => engine' # 0 /\ \A v \in Workers : pc'[v] # "elock"
  BY <1>2, <1>3 DEF DatabaseInv, DatabaseTypeOK, EngineMake, EngineReturns, Goto
<1>7. booted
  BY DEF DatabaseInv, EngineMake
<1>8. QED
  BY <1>3, <1>4, <1>5, <1>6, <1>7 DEF DatabaseInv, EngineMake

(* A creation that raises releases the lock. *)
LEMMA EngineFailsStep ==
  ASSUME DatabaseInv, NEW w \in Workers, EngineFails(w)
  PROVE  DatabaseInv'
<1>1. pc' \in [Workers -> PCs] /\ nested' \in [Workers -> BOOLEAN]
  BY DEF DatabaseInv, DatabaseTypeOK, EngineFails, Goto, PCs
<1>2. LockOK'
  BY NoneAssumption DEF DatabaseInv, DatabaseTypeOK, LockOK, EngineFails, Goto, LockedSteps
<1>3. failures' \in 0..MaxFailures
  BY FailuresAssumption DEF DatabaseInv, DatabaseTypeOK, EngineFails
<1>4. QED
  BY <1>1, <1>2, <1>3 DEF DatabaseInv, DatabaseTypeOK, EngineFails, Goto

(* sessionmaker() up to the creation. *)
LEMMA MakerLockStep ==
  ASSUME DatabaseInv, NEW w \in Workers, MakerCheck(w) \/ MakerLock(w)
  PROVE  DatabaseInv'
<1>1. pc' \in [Workers -> PCs]
  BY DEF DatabaseInv, DatabaseTypeOK, MakerCheck, MakerLock, Goto, PCs
<1>2. LockOK'
  BY NoneAssumption DEF DatabaseInv, DatabaseTypeOK, LockOK, MakerCheck, MakerLock, Goto, LockedSteps
<1>3. lock' \in Workers \cup {None}
  BY DEF DatabaseInv, DatabaseTypeOK, MakerCheck, MakerLock
<1>4. QED
  BY <1>1, <1>2, <1>3 DEF DatabaseInv, DatabaseTypeOK, MakerCheck, MakerLock, Goto

(* The nested call of engine(), or another thread's sessionmaker. *)
LEMMA MakerMakeStep ==
  ASSUME DatabaseInv, NEW w \in Workers, MakerMake(w)
  PROVE  DatabaseInv'
<1>1. pc' \in [Workers -> PCs] /\ nested' \in [Workers -> BOOLEAN]
  BY DEF DatabaseInv, DatabaseTypeOK, MakerMake, Goto, PCs
<1>2. LockOK'
  BY NoneAssumption DEF DatabaseInv, DatabaseTypeOK, LockOK, MakerMake, Goto, LockedSteps
<1>3. lock' \in Workers \cup {None}
  BY DEF DatabaseInv, DatabaseTypeOK, MakerMake
<1>4. QED
  BY <1>1, <1>2, <1>3 DEF DatabaseInv, DatabaseTypeOK, MakerMake, Goto

(* Storing the sessionmaker: the lock kept every other one away. *)
LEMMA MakerStoreStep ==
  ASSUME DatabaseInv, NEW w \in Workers, MakerStore(w)
  PROVE  DatabaseInv'
<1>1. pc' \in [Workers -> PCs]
  BY DEF DatabaseInv, DatabaseTypeOK, MakerStore, Goto, PCs
<1>2. maker.no = 0 /\ engine # 0 /\ lock = w
  BY DEF DatabaseInv, LockOK, MakerStore, LockedSteps
<1>3. makers = 0
  BY <1>2 DEF DatabaseInv
<1>4. /\ makers' = 1 /\ maker' = [no |-> 1, bind |-> engine]
      /\ maker' \in [no : 0..makers', bind : 0..engines]
  BY <1>3 DEF DatabaseInv, DatabaseTypeOK, MakerStore
<1>5. LockOK'
  BY <1>2, NoneAssumption DEF DatabaseInv, DatabaseTypeOK, LockOK, MakerStore, Goto, LockedSteps
<1>6. QED
  BY <1>1, <1>2, <1>4, <1>5 DEF DatabaseInv, DatabaseTypeOK, MakerStore, Goto

(* The steps of get_db. *)
LEMMA SessionStep ==
  ASSUME DatabaseInv, NEW w \in Workers, Session(w)
  PROVE  DatabaseInv'
<1>1. pc' \in [Workers -> PCs]
  BY DEF DatabaseInv, DatabaseTypeOK, Session, Goto, PCs
<1>2. LockOK'
  BY NoneAssumption DEF DatabaseInv, DatabaseTypeOK, LockOK, Session, Goto, LockedSteps
<1>3. QED
  BY <1>1, <1>2 DEF DatabaseInv, DatabaseTypeOK, Session, Goto

(* DatabaseInv holds in every reachable state of the process. *)
THEOREM DatabaseInvariance == DatabaseSpec => []DatabaseInv
<1>1. DatabaseInit => DatabaseInv
  <2> SUFFICES ASSUME DatabaseInit PROVE DatabaseInv
    OBVIOUS
  <2>1. DatabaseTypeOK
    <3>1. pc \in [Workers -> PCs]
      BY DEF DatabaseInit, PCs
    <3>2. nested \in [Workers -> BOOLEAN] /\ booted \in BOOLEAN
      BY Zenon DEF DatabaseInit
    <3>3. maker \in [no : 0..makers, bind : 0..engines] /\ failures \in 0..MaxFailures
      BY FailuresAssumption DEF DatabaseInit, NoMaker
    <3>4. QED
      BY <3>1, <3>2, <3>3 DEF DatabaseInit, DatabaseTypeOK
  <2>2. LockOK
    BY NoneAssumption DEF DatabaseInit, LockOK, LockedSteps
  <2>3. QED
    BY <2>1, <2>2 DEF DatabaseInit, DatabaseInv, NoMaker
<1>2. DatabaseInv /\ [DatabaseNext]_databaseVars => DatabaseInv'
  <2> SUFFICES ASSUME DatabaseInv, [DatabaseNext]_databaseVars PROVE DatabaseInv'
    OBVIOUS
  <2>1. CASE Lifespan
    BY <2>1, LifespanStep
  <2>2. ASSUME NEW w \in Workers, Health(w) \/ GetDb(w) \/ WorkerStep(w)
        PROVE  DatabaseInv'
    BY <2>2, ArrivalStep, EngineCheckStep, EngineLockStep, EngineMakeStep, EngineFailsStep,
       MakerLockStep, MakerMakeStep, MakerStoreStep, SessionStep DEF WorkerStep
  <2>3. CASE UNCHANGED databaseVars
    BY <2>3 DEF databaseVars, DatabaseInv, DatabaseTypeOK, LockOK
  <2>4. QED
    BY <2>1, <2>2, <2>3 DEF DatabaseNext
<1>3. QED
  BY <1>1, <1>2, PTL DEF DatabaseSpec

(* One engine and one sessionmaker bound to it, however many threads race  *)
(* for them.                                                               *)
THEOREM SingletonsAlways == DatabaseSpec => []Singletons
<1>1. DatabaseInv => Singletons
  BY DEF DatabaseInv, Singletons
<1>2. QED
  BY <1>1, DatabaseInvariance, PTL

(* With the tables created at startup no thread waits for itself.          *)
THEOREM NoSelfWaitAlways == DatabaseSpec => []NoSelfWait
<1>1. DatabaseInv => NoSelfWait
  BY NoneAssumption DEF DatabaseInv, NoSelfWait
<1>2. QED
  BY <1>1, DatabaseInvariance, PTL

=============================================================================

------------------------------ MODULE ServiceAuth ------------------------------
(***************************************************************************)
(* The agent reads its configuration from the Business API as a service:   *)
(* the client-credentials token cache of common/m2m_auth.py, the           *)
(* configuration cache of agent/agent_config_cache.py, and on the other    *)
(* side the Business API's check of the token against its JWKS cache.      *)
(* Three caches with three lifetimes, and calls that overlap at every      *)
(* await.                                                                  *)
(*                                                                         *)
(* Time is in ticks.  A message in flight takes at most Latency ticks,     *)
(* which stands for the timeouts of the HTTP clients.                      *)
(***************************************************************************)
EXTENDS Naturals

CONSTANTS
    Callers,     \* coroutines inside fetch_and_cache_agent_config
    Lifetime,    \* expires_in of a service token
    Skew,        \* _EXPIRY_SKEW_SECONDS
    Leeway,      \* CLOCK_SKEW_SECONDS of the verifier
    ConfigTTL,   \* _AGENT_CONFIG_TTL_SECONDS
    JwksTTL,     \* _JWKS_TTL_SECONDS of api/auth.py
    Latency,     \* bound on a message's time in flight
    MaxClock, MaxMints, MaxVersions, MaxRotations   \* bounds of the exploration

ASSUME TtlAssumption == ConfigTTL \in Nat \ {0} /\ JwksTTL \in Nat \ {0}
ASSUME LatencyAssumption ==
    /\ Lifetime \in Nat /\ Skew \in Nat /\ Latency \in Nat /\ Leeway \in Nat
    /\ 3 * Latency <= Skew /\ Skew < Lifetime
ASSUME BoundsAssumption ==
    /\ MaxClock \in Nat /\ MaxMints \in Nat /\ MaxRotations \in Nat
    /\ MaxVersions \in Nat \ {0}

VARIABLES
    clock,
    signing,     \* number of the key WSO2 IS signs with, and publishes
    rotated,     \* rotated[k]: when key k was replaced
    mints,       \* tokens issued so far
    token,       \* the cached service token: [tok, until], or NoEntry
    jwks,        \* the Business API's JWKS cache: [key, at], or NoJwks
    version,     \* the organization's configuration; 0 when it has none
    replaced,    \* replaced[v]: when configuration v was replaced or deleted
    writes,      \* configurations written so far
    config,      \* the agent's configuration cache: [v, at], v = 0 when empty
    call         \* call[c]: the fetch in progress in c

vars == <<clock, signing, rotated, mints, token, jwks, version, replaced, writes, config, call>>

NoTok == [no |-> 0, key |-> 0, exp |-> 0]
NoEntry == [tok |-> NoTok, until |-> 0]
NoJwks == [key |-> 0, at |-> 0]
NoCall == [pc |-> "idle", tok |-> NoTok, retried |-> FALSE, seen |-> 0, v |-> 0, key |-> 0,
           since |-> 0]

(* _store: ttl = max(lifetime - _EXPIRY_SKEW_SECONDS, 1). *)
Ttl == IF Lifetime > Skew + 1 THEN Lifetime - Skew ELSE 1

Times == 0..MaxClock
Toks == [no : 0..MaxMints, key : 0..(MaxRotations + 1), exp : 0..(MaxClock + Lifetime)]
CallSteps == {"idle", "token", "mint", "minted", "sent", "keys", "unauthorized", "answered",
              "served"}
CallStates == [pc : CallSteps, tok : Toks, retried : BOOLEAN, seen : 0..MaxMints,
               v : 0..MaxVersions, key : 0..(MaxRotations + 1), since : Times]

TypeOK ==
    /\ clock \in Times
    /\ signing \in 1..(MaxRotations + 1)
    /\ rotated \in [1..MaxRotations -> Times]
    /\ mints \in 0..MaxMints
    /\ token \in [tok : Toks, until : 0..(MaxClock + Ttl)]
    /\ jwks \in [key : 0..(MaxRotations + 1), at : Times]
    /\ version \in 0..MaxVersions /\ writes \in 0..MaxVersions
    /\ replaced \in [1..MaxVersions -> Times]
    /\ config \in [v : 0..MaxVersions, at : Times]
    /\ call \in [Callers -> CallStates]

Init ==
    /\ clock = 0
    /\ signing = 1 /\ rotated = [k \in 1..MaxRotations |-> 0]
    /\ mints = 0
    /\ token = NoEntry
    /\ jwks = NoJwks
    /\ version \in {0, 1} /\ writes = version /\ replaced = [v \in 1..MaxVersions |-> 0]
    /\ config = [v |-> 0, at |-> 0]
    /\ call = [c \in Callers |-> NoCall]

worldVars == <<clock, signing, rotated, version, replaced, writes>>

At(c, pc) == call[c].pc = pc
Return(c) == call' = [call EXCEPT ![c] = NoCall]

-----------------------------------------------------------------------------
(* fetch_and_cache_agent_config *)

FetchNoExpiry(c) ==   \* mutant: _is_fresh is not asked
    /\ At(c, "idle")
    /\ IF config.v # 0
       THEN call' = [call EXCEPT ![c].pc = "served", ![c].v = config.v]
       ELSE call' = [call EXCEPT ![c].pc = "token"]
    /\ UNCHANGED <<worldVars, mints, token, jwks, config>>

Fetch(c) ==
    /\ At(c, "idle")
    /\ IF config.v # 0 /\ clock - config.at < ConfigTTL
       THEN call' = [call EXCEPT ![c].pc = "served", ![c].v = config.v]
       ELSE call' = [call EXCEPT ![c].pc = "token"]
    /\ UNCHANGED <<worldVars, mints, token, jwks, config>>

(* aget_token: the cache, unless the caller forces a refresh (the retry). *)
AgetTokenUnforced(c) ==   \* mutant: the retry takes what the cache holds
    /\ At(c, "token")
    /\ IF token # NoEntry /\ clock < token.until
       THEN call' = [call EXCEPT ![c].pc = "sent", ![c].tok = token.tok, ![c].since = clock]
       ELSE call' = [call EXCEPT ![c].pc = "mint"]
    /\ UNCHANGED <<worldVars, mints, token, jwks, config>>

AgetToken(c) ==
    /\ At(c, "token")
    /\ IF ~call[c].retried /\ token # NoEntry /\ clock < token.until
       THEN call' = [call EXCEPT ![c].pc = "sent", ![c].tok = token.tok, ![c].since = clock]
       ELSE call' = [call EXCEPT ![c].pc = "mint"]
    /\ UNCHANGED <<worldVars, mints, token, jwks, config>>

(* WSO2 IS issues a token with the service scope. *)
Mint(c) ==
    /\ At(c, "mint") /\ mints < MaxMints
    /\ mints' = mints + 1
    /\ call' = [call EXCEPT ![c].pc = "minted", ![c].since = clock,
                            ![c].tok = [no |-> mints + 1, key |-> signing,
                                        exp |-> clock + Lifetime]]
    /\ UNCHANGED <<worldVars, token, jwks, config>>

(* The request fails, or its answer has no token or not the scope. *)
MintFails(c) ==
    /\ At(c, "mint")
    /\ Return(c)
    /\ UNCHANGED <<worldVars, mints, token, jwks, config>>

StoreTokenWhole(c) ==   \* mutant: the token is cached for its whole lifetime
    /\ At(c, "minted")
    /\ token' = [tok |-> call[c].tok, until |-> clock + Lifetime]
    /\ call' = [call EXCEPT ![c].pc = "sent", ![c].since = clock]
    /\ UNCHANGED <<worldVars, mints, jwks, config>>

(* _store, then the GET is sent. *)
StoreToken(c) ==
    /\ At(c, "minted")
    /\ token' = [tok |-> call[c].tok, until |-> clock + Ttl]
    /\ call' = [call EXCEPT ![c].pc = "sent", ![c].since = clock]
    /\ UNCHANGED <<worldVars, mints, jwks, config>>

(* A 401: every cached token is dropped; the first one is retried once.    *)
Unauthorized(c) ==
    /\ At(c, "unauthorized")
    /\ IF call[c].retried
       THEN Return(c) /\ UNCHANGED token
       ELSE /\ token' = NoEntry
            /\ call' = [call EXCEPT ![c] = [NoCall EXCEPT !.pc = "token", !.retried = TRUE,
                                                          !.seen = mints]]
    /\ UNCHANGED <<worldVars, mints, jwks, config>>

(* A 200 is cached from now on; a 404 is not. *)
StoreConfig(c) ==
    /\ At(c, "answered")
    /\ IF call[c].v = 0
       THEN Return(c) /\ UNCHANGED config
       ELSE /\ config' = [v |-> call[c].v, at |-> clock]
            /\ call' = [call EXCEPT ![c] = [NoCall EXCEPT !.pc = "served", !.v = call[c].v]]
    /\ UNCHANGED <<worldVars, mints, token, jwks>>

Served(c) ==
    /\ At(c, "served")
    /\ Return(c)
    /\ UNCHANGED <<worldVars, mints, token, jwks, config>>

(* The GET fails, times out, or is answered with a 503 or another error,   *)
(* or its answer is lost or is not JSON.                                   *)
CallFails(c) ==
    /\ call[c].pc \in {"sent", "keys", "unauthorized", "answered"}
    /\ Return(c)
    /\ UNCHANGED <<worldVars, mints, token, jwks, config>>

-----------------------------------------------------------------------------
(* The Business API: require_service_auth and get_agent_config *)

(* decode_rs256 after select_signing_key: the token's key is the one at     *)
(* hand, and its expiry is not past by more than the leeway.               *)
Verifies(tok, key) == tok.key = key /\ clock < tok.exp + Leeway

(* get_agent_config: the organization's row, 0 standing for the 404. *)
GetAgentConfig(c) ==
    call' = [call EXCEPT ![c].pc = "answered", ![c].v = version, ![c].key = 0, ![c].since = clock]

(* require_service_auth: a 401, or the route runs. *)
Answer(c, key) ==
    IF Verifies(call[c].tok, key)
    THEN GetAgentConfig(c)
    ELSE call' = [call EXCEPT ![c].pc = "unauthorized", ![c].key = 0, ![c].since = clock]

CheckStale(c) ==   \* mutant: keys at hand are used whatever their age
    /\ At(c, "sent")
    /\ IF jwks.key # 0
       THEN Answer(c, jwks.key)
       ELSE call' = [call EXCEPT ![c].pc = "keys", ![c].key = signing, ![c].since = clock]
    /\ UNCHANGED <<worldVars, mints, token, jwks, config>>

(* get_jwks: fresh keys from the cache, else a request WSO2 IS answers with *)
(* the key it publishes now.                                               *)
Check(c) ==
    /\ At(c, "sent")
    /\ IF jwks.key # 0 /\ clock - jwks.at < JwksTTL
       THEN Answer(c, jwks.key)
       ELSE call' = [call EXCEPT ![c].pc = "keys", ![c].key = signing, ![c].since = clock]
    /\ UNCHANGED <<worldVars, mints, token, jwks, config>>

(* The keys arrive: JWKSCache.set, then the check. *)
CheckWithKeys(c) ==
    /\ At(c, "keys")
    /\ jwks' = [key |-> call[c].key, at |-> clock]
    /\ Answer(c, call[c].key)
    /\ UNCHANGED <<worldVars, mints, token, config>>

-----------------------------------------------------------------------------
(* The administrator's changes, WSO2 IS, and time *)

(* create_agent_config and delete_agent_config, after their checks. *)
WriteConfig ==
    /\ writes < MaxVersions
    /\ writes' = writes + 1 /\ version' = writes + 1
    /\ replaced' = IF version = 0 THEN replaced ELSE [replaced EXCEPT ![version] = clock]
    /\ UNCHANGED <<clock, signing, rotated, mints, token, jwks, config, call>>

DeleteConfig ==
    /\ version # 0
    /\ version' = 0
    /\ replaced' = [replaced EXCEPT ![version] = clock]
    /\ UNCHANGED <<clock, signing, rotated, writes, mints, token, jwks, config, call>>

RotateKeys ==
    /\ signing <= MaxRotations
    /\ signing' = signing + 1
    /\ rotated' = [rotated EXCEPT ![signing] = clock]
    /\ UNCHANGED <<clock, version, replaced, writes, mints, token, jwks, config, call>>

InFlight == {"minted", "sent", "keys", "unauthorized", "answered"}

(* Steps that need no message happen at once. *)
Tick ==
    /\ clock < MaxClock
    /\ \A c \in Callers : /\ call[c].pc \in InFlight => clock - call[c].since < Latency
                          /\ call[c].pc \notin {"token", "served"}
    /\ clock' = clock + 1
    /\ UNCHANGED <<signing, rotated, version, replaced, writes, mints, token, jwks, config, call>>

CallStep(c) ==
    \/ AgetToken(c) \/ Mint(c) \/ MintFails(c) \/ StoreToken(c) \/ Unauthorized(c)
    \/ Check(c) \/ CheckWithKeys(c) \/ CallFails(c) \/ StoreConfig(c) \/ Served(c)

Next ==
    \/ \E c \in Callers : Fetch(c) \/ CallStep(c)
    \/ WriteConfig \/ DeleteConfig \/ RotateKeys \/ Tick

Spec == Init /\ [][Next]_vars

-----------------------------------------------------------------------------
(* Properties *)

(* A service token never dies in flight: whenever the Business API turns a *)
(* token down, the token has not expired, however late it was taken from   *)
(* the cache (_EXPIRY_SKEW_SECONDS: "so a token can't die in flight").     *)
TokensAliveOnArrival ==
    \A c \in Callers : At(c, "unauthorized") => call[c].since < call[c].tok.exp

(* The retry after a 401 carries a token issued after that 401, not the    *)
(* one another fetch put back into the cache meanwhile.                    *)
RetryIsFresh ==
    \A c \in Callers :
        call[c].retried /\ call[c].pc \in {"sent", "keys", "answered"} =>
            call[c].tok.no > call[c].seen

(* A configuration the agent works with was the organization's current one *)
(* less than the TTL and the time the answer was under way ago, even       *)
(* when answers overtake each other.                                       *)
ConfigNotStale ==
    \A c \in Callers :
        At(c, "served") /\ call[c].v # version =>
            clock - replaced[call[c].v] < ConfigTTL + Latency

(* The Business API fails closed: it accepts a token signed with a         *)
(* withdrawn key only while the keys it holds are younger than their TTL.  *)
WithdrawnKeysBounded ==
    \A c \in Callers :
        At(c, "answered") /\ call[c].tok.key # signing =>
            call[c].since - rotated[call[c].tok.key] < JwksTTL + Latency

-----------------------------------------------------------------------------
(* The inductive invariant behind the properties.                          *)

(* How much life a token has left at each leg of its way, the last of      *)
(* which it must survive: Skew is three messages.                          *)
TokenAge(c) ==
    /\ At(c, "minted") => call[c].tok.exp = call[c].since + Lifetime
    /\ At(c, "sent") => call[c].since + Skew < call[c].tok.exp + Latency
    /\ At(c, "keys") => call[c].since + Skew < call[c].tok.exp + 2 * Latency
    /\ At(c, "unauthorized") => call[c].since + Skew < call[c].tok.exp + 3 * Latency

(* What a fetch took to be current was so when its message was sent.       *)
AnswerAge(c) ==
    /\ At(c, "keys") => call[c].key \in 1..signing
    /\ At(c, "keys") /\ call[c].key # signing => call[c].since <= rotated[call[c].key]
    /\ At(c, "answered") => call[c].tok.key \in 1..signing
    /\ At(c, "answered") /\ call[c].tok.key # signing
          => call[c].since < rotated[call[c].tok.key] + JwksTTL + Latency
    /\ At(c, "answered") => call[c].v <= writes
    /\ At(c, "answered") /\ call[c].v \notin {0, version} => call[c].since <= replaced[call[c].v]
    /\ At(c, "served") => call[c].v \in 1..writes
    /\ At(c, "served") /\ call[c].v # version
          => clock < replaced[call[c].v] + ConfigTTL + Latency

CallOK(c) ==
    /\ call[c].since <= clock
    /\ call[c].pc \in InFlight => clock <= call[c].since + Latency
    /\ call[c].seen <= mints
    /\ call[c].retried /\ call[c].pc \in InFlight => call[c].tok.no > call[c].seen
    /\ TokenAge(c) /\ AnswerAge(c)

(* An entry may be older than it says by the message it came with.         *)
CachesOK ==
    /\ token # NoEntry => token.until + Skew <= token.tok.exp + Latency
    /\ jwks.at <= clock /\ jwks.key <= signing
    /\ jwks.key \notin {0, signing} => jwks.at <= rotated[jwks.key] + Latency
    /\ config.at <= clock /\ config.v <= writes
    /\ config.v \notin {0, version} => config.at <= replaced[config.v] + Latency

Inv ==
    /\ TypeOK /\ version <= writes
    /\ CachesOK
    /\ \A c \in Callers : CallOK(c)
=============================================================================

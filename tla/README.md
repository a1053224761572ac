# Verification of Teamspace

TLA+ specifications of the Teamspace demo (`agent/`, `api/`, `common/`, `webapp/`), the TLC
configurations that check them on small instances, and TLAPS proofs of the properties that matter
most. `PROJECT.json` lists every run, every mapped definition with its source lines, the findings,
the hazards and the theorems.

    tlc -config MCOboFlow.cfg MCOboFlow        # check a run
    tlapm OboFlowProofs.tla                    # check the proofs

## 1. Inventory

Three services around WSO2 Identity Server (IS), which is external, as are Google Gemini and Redis.

| Component | State it keeps | Operations | Where it is hard |
| :-- | :-- | :-- | :-- |
| agent: OBO delegation (`main.py`, `state_manager.py`, `auth_manager.py`) | per chat thread: flow state, pending meeting, OBO token, agent credentials, PKCE verifier; in the browser: the `oauth_session` cookie | `/chat`, `/chat/stream`, `/authorize`, `/callback`, `/clear` | coroutines of one thread overlap at every await; `/authorize` and `/callback` of several consents cross; with Redis, several workers; every store operation is separate |
| agent: tools (`gemini_agent.py`, `tools.py`, `mcp_server.py`) | none of its own; uses the above | seven MCP tools, called by the model, by an "authorized" message or by external MCP clients | checks before an await, effects after it; one pending meeting shared by all previews |
| agent: store (`store.py`) | namespaced entries with a TTL | get, set, delete, clear | two backends; a failed Redis read is a miss, a failed write or delete leaves the old value |
| agent: chat history (`chat_history.py`) | list of at most 50 messages per thread | add, get, clear | read-modify-write of the list |
| agent: configuration cache (`agent_config_cache.py`) | last configuration per organization, 300 s | fetch, one retry after a 401 | overlapping fetches; answers out of order |
| common: service tokens (`m2m_auth.py`, `jwt_validation.py`) | cached client-credentials token | get, store, invalidate, verify | expiry, forced refresh racing a cached token |
| api: authentication (`auth.py`) | JWKS cache, 300 s | verify user and service tokens | key rotation against a fresh cache |
| api: database (`database.py`, `main.py`) | lazy engine and sessionmaker under one lock | startup, `/health`, `get_db` | first requests race; nested locking |
| api: routers | meetings, agent configurations, personalization, plans by organization | CRUD and upserts | check-then-insert; tenancy |
| agent: gates (`main.py`, `rate_limit.py`, `jwt_validation.py`) | hits per bucket and client, cached keys, stream counter | rate limit, token check, SSE slot | order of the dependencies; overlapping key fetches; release on every path |
| webapp: session (`auth.py`, `app.py`, `main`) | the portal session, cached plan and availability | login, callback, organization switch, logout | cached defaults after a failed lookup |
| webapp: chat proxy (`chat.py`) | thread id in the browser session | send, clear | the session is loaded and saved whole by overlapping requests; answers stream after it was saved |
| webapp: signup, subscription (`is_operations.py`) | none; WSO2 IS and Business API hold it | sequences of remote calls | no compensation after a partial failure; polling with a bound |
| webapp: deployment of agents (`agents.py`) | cached availability of the agent | deploy, remove | the same, and saves and removals that outlive the portal's timeout |
| webapp: branding | Business API row and IS preference | update, reset, lazy import | dual write, of calls that may be carried out after the portal gave up on them |
| webapp: identity providers and login flow (`admin.py`) | none; WSO2 IS holds it | add, edit, delete, change the flow | results nobody looks at; read-modify-write of the groups of roles |
| webapp: users and roles | none | one call per form | not modelled |
| setup scripts (`setup_is.py`, `setup_idp_server.py`) | none; WSO2 IS holds it | run, run again | crashes and failures between any two calls, beside the running system; sharing that WSO2 IS accepts and carries out later |
| presentation, logging, configuration, `setup_secondary_is.py`, migrations, pki | - | - | not modelled |

The portal calls the agent (`/chat/stream`, `/clear`) and the Business API with the user's token,
or with a service token; the agent calls the Business API with a delegated token (meetings) or a
service token (its configuration); all three call WSO2 IS.

What makes each part correct: a call on a user's behalf is made only under that user's consent for
that thread and that action; a consent is used once, for what was previewed; a request always ends;
caches bound staleness and never serve a dead token; one engine per process; sagas leave a state
from which a retry succeeds; a message to a user who is not interfered with is true; what is cleared
stays cleared; limits hold and slots are given back; scripts can be run again.

## 2. Modules

| Module | Models | Run as |
| :-- | :-- | :-- |
| `OboFlow` | OBO delegation, the tool loop, the MCP tools, external MCP clients | `MCOboFlow` (two configurations) |
| `Delegation` | what delegation promises: the life of a grant and the calls made under it (abstract) | `MCOboFlow` |
| `OboFlowProofs` | theorems about `OboFlow`, refinement of `Delegation` | tlapm |
| `LazyDatabase` | lazy engine and sessionmaker, startup, `/health`, `get_db` | `MCLazyDatabase` |
| `ServiceAuth` | service token cache, agent configuration cache, the Business API's JWKS cache, key rotation, administrator writes | `MCServiceAuth` |
| `ServiceAuthProofs` | theorems about `ServiceAuth` and, in its second part, `LazyDatabase` | tlapm |
| `Subscription` | signup and upgrade, roles and plans, the session's cached plan, the gates of the enterprise features | `MCSubscription` |
| `Branding` | update, reset and import of an organization's branding in its two places | `MCBranding` |
| `BrandingProofs` | theorems about `Branding` | tlapm |
| `ChatService` | the portal's thread id, chat and clear, the agent's history on a store that fails | `MCChatService` |
| `ChatServiceProofs` | theorems about `ChatService` | tlapm |
| `Semaphore` | what a bounded pool of slots promises (abstract) | `MCAgentGate` |
| `AgentGate` | rate limit, service token check with the agent's key cache, SSE slots | `MCAgentGate` |
| `AgentGateProofs` | theorems about `AgentGate`, refinement of `Semaphore` | tlapm |
| `AgentDeployment` | deployment and removal of the organization's agent | `MCAgentDeployment` |
| `AgentDeploymentProofs` | theorems about `AgentDeployment` | tlapm |
| `IdpAdmin` | identity providers, their role mappings, the login flow | `MCIdpAdmin` |
| `IdpAdminProofs` | theorems about `IdpAdmin` | tlapm |
| `Provisioning` | the setup scripts, run and run again | `MCProvisioning` |
| `ProvisioningProofs` | theorems about `Provisioning` and, in its second part, `Subscription` | tlapm |

### OboFlow, Delegation

`flow`, `pending`, `obo`, `creds`, `pkce` are the store's namespaces for a thread
(`_NS_STATE`, `_NS_PENDING`, `_NS_OBO_TOKEN`, `_NS_CREDS`, `_NS_PKCE`). A handler in progress
is a record `req[r]` whose `pc` is the next store operation or awaited call. `status`, `auth` and
`cookie` are what WSO2 IS and the browser know of each authorization request (*flow*); an OBO token
and a PKCE verifier are named by the flow they belong to, which is all their checks compare.

* Each store operation on which another handler's decision depends is one action, in the code's
  order: `CheckState` then `CheckToken` then `ApiWrite`; `FinalizeState`, `FinalizePending`,
  `FinalizeTokens`; `ReadVerifier`, `DeleteVerifier`, `RedeemCode`, `StoreOboToken`,
  `CallbackDone`. This is the granularity of several workers on Redis; the behaviours of a single
  worker, which only switches at awaits, are a subset.
* A tool's arguments are abstracted to the tool family they were written for. That decides which
  fields they carry, hence what `_AUTHORIZED_STATE_DISPATCH` accepts (`PendingFits`) and whether
  the Business API's schema accepts the body (`BodyComplete`).
* An answer of the Business API may be a success, a refusal or lost (`ApiTimeout`); a write may be
  committed and its answer lost. A code is redeemable once and only with its own verifier
  (`RedeemCode`); the answer may be lost there too. The browser may repeat `/callback`.
* A handler's steps are grouped by what they wait for: Gemini (`GeminiStep`), the store
  (`StoreStep`), a call over HTTP (`HttpStep`). Only the last have timeouts (section 3, fairness).
* Abstracted: the cached agent token (`dispatch_tool` always authenticates anew), the stored
  authorization URL and display names, the prefetch of the agent token in `_prepare_chat` (only
  takes time), the expiry of the signed state (same lifetime as the cookie, both are required).
  Redis is reachable: the failing store is modelled where its data matters, in `ChatService`. The
  unsigned-state fallback of `/callback` exists only with `MOCK_LLM` and is not modelled.

`Delegation` knows no stores and no handlers: a *grant* is asked for, given, collected (or lost),
installed and spent, a thread has one live grant at a time, and a call begins only under the live
grant of its thread and for what it covers. `OboFlow` implements it (`ConsentSpec`) with each flow a
grant (`Life`): asked for until the user consents, due while a callback holds the token and has not
stored it, live while the thread's entry in the store is that token, spent afterwards; a handler
waiting for the Business API is a call (`Calls`). `Delegation` says what the code does where one
might expect more: a grant may be withdrawn while a call is on its way, an older grant that is
collected late replaces a newer one, and several calls may begin under one live grant.

### LazyDatabase

One action per check, acquisition and assignment of `Database.engine()` and
`Database.sessionmaker()`; `nested[w]` records that `engine()` was called from inside
`sessionmaker()`, so with the lock held. `autoCreate` is the answer of `_auto_create_enabled()` in
this process, which never changes; `AutoCreate` is the set of answers an instance considers.

### ServiceAuth

Time is in ticks and a message is in flight for at most `Latency` of them (the clients' timeouts: 10
s for a token, 10 s for the GET, 5 s for the keys). `LatencyAssumption` says that three messages fit
into `_EXPIRY_SKEW_SECONDS` (30 s), as they do with these values. A token is its number, the key
that signed it and its expiry; the configuration is a version number. `rotated` and `replaced` are
history: when a key or a version was withdrawn. WSO2 IS (`Mint`, `RotateKeys`) is external.

### Subscription

One organization, its administrator, and the browser sessions he uses. `shared`, `visible` and
`held` are the roles shared with the organization, those that have reached it (sharing is
asynchronous: `RoleArrives`), and those he holds; `groups` are the names, among those of roles, that
groups of his bear or have borne; `plan` is the Business API's row; `selected` and `missed` are
history: every plan asked for, and every role that signup or upgrade skipped or was refused and that
was not assigned since. A request in progress is a record `op[s]`, one action per remote call. A
call that changes WSO2 IS is carried out, refused, or carried out with its answer lost; the last
raises and ends the handler (`ISClient.call` has no `except`), as does a call that raises before it
is carried out (`Abandon`, which also stands for the early returns). A Business API call never
raises (`api_request` makes a 503), and a plan save that took too long may be committed at any later
time (`late`, `LateSave`).

* `_extract_roles` takes the groups claim, which the portal asks for, for roles as well, prefixes
  stripped. So a session's roles are those he holds and those that his groups bear the names of at
  login (`ExtractRoles`, `GroupAssigned`), of which the model keeps those a gate asks for.
* `CheckPlanAndRole` is `check_idp_access` and `_check_plan_and_role`, which share their decision
  table; only the outcome "allowed" is an action, the others change nothing. The agent pages ask
  for `teamspace-admin`, which the signup gives every administrator, so while the plan is unknown
  they open for all of them; the repository's README says so in its table, and
  `IdpAccessWasSelected` is about the other feature: without an enterprise plan asked for, only a
  group named `idp-manager` opens it.
* `PlanRolesSettled` says that a recorded plan belongs to an organization whose account has each of
  the plan's roles and may change the plan, unless a role was skipped or refused on the way: both
  handlers save the plan all the same (section 4).
* Organization handles and user names are unique, so a repeated signup is refused where the first
  one got to.
* Left out: the validation of the form, the wording of messages, the root token (its failure is
  `Abandon` before the first call), a plan name outside the three the form offers.

### Branding

`db` is the Business API's row, `is` the preference of WSO2 IS, `cache[s]` is
`session["org_branding"]` (`Unset` when the key is missing, `None` when it is there and empty),
`flash[s]` the message the next page will show. `auto_ensure_branding` runs before every request,
hence `Ready`: a handler starts only in a session whose branding has been looked up, and the page
after a redirect is shown only then. A theme is the five fields of the row: the payload
`build_is_branding_payload` makes has them in its active theme, which is where
`fetch_branding_from_is` reads them. A missing access token has the outcome of a refused sync.
A call the portal stopped waiting for may still be at work: `late[i]` holds it, and `CarryOut` ends
it at any later time as it would have ended, or fails it (`UpsertTimesOut`, `DeleteTimesOut`,
`BackfillTimesOut` for the Business API's, `IsRaises` for those of WSO2 IS). `alone` is history: the
sessions whose last update or reset nobody else, neither a session nor the console, has overlapped or
followed with a change of his own, and that began while no such call was at work; `MessageIsTrue` is
about those. An own call left behind counts, since the code does not protect a change from it.
The Business API writes only the fields that differ from the row it read, so two overlapping upserts
can also mix two themes; a theme is one value here.
WSO2 IS answers 404 to the PUT and the DELETE of a missing preference and refuses the POST of an
existing one; an inherited preference is not modelled.

### ChatService

`saved[s]` is `chat_thread_id` of the browser session, which Flask loads when a request starts and
saves whole when its response starts: hence `page[s]`, the id another request of the session has
loaded and will save back, and a chat that goes on (`chat[m]`) long after its response started.
`history[t]` is the store's list for a thread. `add_message` is a read and a write. With
`StoreFails`, a read may be a miss and a write or a delete may change nothing (`RedisStore` logs and
goes on). `wipes` are the `/clear` calls on their way to the agent, which may be lost or arrive late.
`forgotten` is history: what was said before a clear that nothing overlapped. A request that does
overlap can put the old thread id back; the property does not claim otherwise (section 4).

### AgentGate, Semaphore

A request is `req[r]`; its `pc` follows the dependencies of its route in FastAPI's order: the limit
first, then the token. `hits` are the counters of the fixed windows, `checked` is history: requests
of the current window whose token was looked at. The agent's `JWKSCache` (`jwks`) returns a fresh
copy, else fetches, else falls back to the stale one. A key is the number of the signing key and a
token that of the key that signed it. `streams` is `_mcp_sse_streams`, a plain counter; `Slots`
is `Semaphore` seen through it, and `SlotsSpec`, that the counter implements the semaphore, is both
checked and proved. The refinement maps a request in the stream to a holder and one that gets the
503 to a refused process. Time is in ticks, as in `ServiceAuth`.

### AgentDeployment

`agents` are the identities in WSO2 IS, `rows` the agents named by the organization's configuration
rows (a set, so that there being one is a property, not an assumption), `avail[s]` the session's
`has_agent_config`, `flash[s]` the message the next page shows. `job[id]` is what the Business API
does with the save of an identity: `create_agent_config` is a lookup and a write (`SaveLookup`,
`SaveCommit`), which carry on when the portal gives up on them (`SaveFails`), so that any number of
saves can be at work at once. So do removals of the row: `late` counts those that timed out and are
carried out, or fail, at any later time (`LateDelete`), and `lateIds` are the identities whose
deletion WSO2 IS has not finished (`LateIdentity`). `alone` is history: the session whose last
request overlapped nothing, found no call at work, an own one included, and was followed by nobody
else's. The role of the agent is assigned or not and read by nothing here.

### IdpAdmin

`mapped` is the set of ⟨role, provider, group⟩ that the roles' group lists amount to; a form is the
provider's groups and the ones checked for each role. `add_idp`, `edit_idp` and `delete_idp` are one
action per call; each call is carried out, refused or raises, carried out or not, and only the
results the code looks at matter. `op[s].ok` and `alone` are history, as above; so are `unread`, the
providers whose secret an edit could not read, `last[i]`, the secret last submitted and written, and
`lapsed`, the providers whose secret an edit put back without knowing that one (`Overtaken`: it read
the properties before, and writes all of them after). Names, endpoints, JIT and claims are written and
never read by another request. MaxRequests bounds the run.

### Provisioning

Each script is a sequence of steps of six kinds (the module's header), `res[i]` says whether a
resource is there and of which configuration. Independent resources of one kind are one. A run may
end at any call, carried out or not, and the operator may change the configuration before the next
(`Reconfigure`). Organizations sign up and upgrade while `setup_is.py` runs, since its sharing
steps apply to all of them. WSO2 IS only accepts such a step (202): `outstanding[o]` are the accepted
sharings it has not carried out on an organization yet, which `CarryOut` does in any order or fails
to do; `astray` is history: the organizations where the last one failed, or came before an earlier
one. The script waits for none of it. The console changes the group while `setup_idp_server.py` runs.
`_add_user_to_existing_group` is one action per call. `finished` and `blind` are history: the last
run ended with all its calls carried out; a run could not read the group, or its reading was
overtaken.

## 3. Runs

Deadlock is checked except where noted.

| Run | Instance | Shows |
| :-- | :-- | :-- |
| `obo_flow` | 1 thread, 2 flows, 2 handlers, list and delete, 1 tool call per turn | `DelegatedCalls`, `AuthorizedByConsent`, `RedeemedVerifierGone`, the refinement of `Delegation` (`ConsentSpec`) |
| `obo_mcp` | 2 threads, 1 flow, 1 handler, listing and booking, MCP clients holding a user's own and the delegated token, fair | the refinement of `Delegation` across threads, `RequestsFinish` |
| `lazy_db` | 3 threads, tables created at startup or not, 1 failing creation, fair | `Singletons`, `NoSelfWait`, `CreatedRequestsReturn` (without the tables the system may stop: see `lazy_db_first`, so deadlock is not checked) |
| `lazy_db_first` | 3 threads, no tables created at startup, fair | *violated*: `RequestsReturn` |
| `service_auth` | 2 fetches, 2 tokens, 1 rotation, 2 configurations, 4 ticks | type correctness, `TokensAliveOnArrival`, `RetryIsFresh`, `WithdrawnKeysBounded`, `ConfigNotStale` |
| `subscription` | 1 session, the basic and the enterprise plan, 2 polls, 1 late save, a group named `idp-manager`, fair | type correctness, `IdpAccessWasSelected`, `PlanRolesSettled`, `OperationsEnd` |
| `branding` | 2 editors, one an administrator, 1 theme and one that is also set in the console, 2 late calls | type correctness, `PublishedWasSaved`, `MessageIsTrue` |
| `chat_service` | 1 session, 2 messages, 2 threads, histories of 2, failing store, fair | type correctness, `ForgottenStays`, `TranscriptInOrder`, `ChatsEnd` |
| `agent_gate` | 2 requests, 1 client, `/chat` and `/mcp/sse`, limits 1 and 2, 1 stream, TTL and latency 1, 3 ticks | type correctness, `ChecksThrottled`, `WithdrawnKeysNeedOutage`, the refinement of `Semaphore` |
| `agent_deploy` | 2 administrators, 2 identities, any late saves, 1 late removal, fair | `ToldIsSo`, `OneConfig`, `OperationsEnd` |
| `idp_admin` | 2 administrators, 2 providers, 3 requests, 1 group, 1 role, 2 secrets or none | type correctness, `FormTakesEffect`, `OthersKept`, `SecretSurvives`, `DeletionNotBlocked` |
| `provisioning` | either script, 2 runs, 1 organization, 2 outstanding sharings | `CompleteRunProvisions`, `BaseRolesReturn`, `MembersKept` |

The types of `OboFlow`, `AgentDeployment` and `Provisioning` are proved (`TypeCorrect`), so their
runs leave them out.

**Bounds.** Two handlers are enough for every check-then-act pair of the code: each property relates
at most two requests, and idle slots are reused, so any number of requests happens one after the
other. Two flows let a callback of one consent cross the authorization of another; two threads let a
token be presented on the wrong thread, authorized as well. `MaxIterations` is 1 (5 in the code):
the loop's iterations differ only in what the model asks for, and further turns do what further
iterations would. `OboFlowProofs` removes these bounds. In `ServiceAuth`, lifetimes are a few ticks
so that every cache expires within `MaxClock`; `Skew` is exactly three latencies, the tightest the
assumption allows, and two configurations let an older answer overtake a newer one. In `Branding`
only late calls are counted; two sessions overlap in every way two requests can, and two late calls
can meet each other in either order, of one kind or of both. A theme of the portal and one of the
console are enough to tell two updates apart, since the portal can set either. In `Subscription`
polls and outstanding saves are counted, and one session already meets every failure and every
repetition: the basic plan brings no roles, the enterprise plan all of them, and the one late save
overwrites either. A group named `teamspace-admin` is left to the proofs, as is what several
sessions do to each other; the progress of one request never waits for another's.

In `ChatService` two messages make one overlapping pair of read-modify-writes and one message before
and one after a clear; a history of two drops its oldest entries. In `AgentGate` the two requests
exceed the limit of the one bucket and, arriving again, of the other; they compete for the single
stream, and three ticks let a key be withdrawn, the TTL and a fetch pass and the stale copy still be
used. In `AgentDeployment` the second identity is made while the first is still named by a row, the
two saves overlap each other, and a late save or removal meets a row or its absence. In `IdpAdmin`
the second provider is the one whose mappings and whose place in the flow must survive; three
requests are a creation and two edits or an edit and a deletion, overlapping or meeting what was
left half done, and two secrets tell a submitted one from one put back. In `Provisioning` two runs
are one that dies or is reconfigured and one that meets what it left; the organization signs up
before, between or in the middle of them. A sharing affects each organization by itself, so one is
enough, and two outstanding sharings of it are carried out in both orders; the script waits when a
third would be accepted, which the proofs, for any bound, show to hide nothing. For every safety
property the proofs remove these bounds: section 5 gives what is left of them as assumptions on the
constants.

**Fairness.** `OboFlow`: weak fairness of each handler's HTTP steps as long as Gemini and the store
answer. The event loop runs every ready coroutine and every `httpx` call has a timeout, but the
Gemini client is made without one (`gemini_agent.py:29,198`), is awaited through `asyncio.to_thread`
without `wait_for` (471, 488, 625), and its stream is iterated on the event loop (637); the Redis
client has none either (`store.py:113`) and is synchronous. So `FairSpec` owes no step of any
handler when one of these stalls, and `RequestsFinish` says what is left: that no loop, no lost
answer and no interleaving keeps a request open while they do answer (`Unstalled`). The timeouts,
here and below, are those of `httpx` and `requests`, for each read of an answer: a peer that sends
one byte after the other for ever is not considered. Users, browsers, WSO2 IS consents and arrivals
owe nothing. `LazyDatabase`: weak fairness of each thread. The lock is not assumed fair to a
particular waiter; each waiter takes it at most twice and then returns. `Subscription`: weak
fairness of a request in progress, whose thread runs and whose calls time out; users, WSO2 IS's role
sharing and late saves owe nothing. `AgentDeployment`: weak fairness of a request in progress; the
Business API owes nothing, neither an answer nor the end of a save or a removal. `ChatService`: weak
fairness of each chat's steps and of the portal's clear, whose calls have timeouts; the delivery of
`/clear` to the agent is owed by nobody.

**Mutants.** Every property of a passing run has a mutant in the module (an operator whose comment
begins "As if" or "mutant", before the definition it replaces) under which TLC finds it violated: a check
without the thread, a verifier deleted too late, a missing second check under the lock, a token
cached for its whole life, a slot that leaks, a clear that keeps the thread, an identity that is
gone taken for the end of a removal, and so on.

## 4. Findings

1. `api/database.py:89` - `sessionmaker()` evaluates `cls.engine()` inside `with cls._lock`;
   `engine()` takes the same `threading.Lock` when the engine does not exist. With table creation
   at startup off and a first request other than `/health`, the process hangs (`lazy_db_first`).

Further disagreements that the models contain but no run is spent on (where they touch a property,
the property says so):

* `agent/mcp_server.py:349` - two overlapping "authorized" messages both commit: two writes under
  one consent, where `README.md:131` says a token is for one action. The token is removed only after
  the awaited call.
* `agent/gemini_agent.py:637` - iterates the stream of Gemini's answer on the event loop, where the
  comment at line 623 wants the loop to stay "responsive while we wait": a stream that falls silent
  stops every handler of the worker. The client has no timeout, so nothing ends it.
* `agent/auth_manager.py:285` - a callback that answers late stores its token after a newer
  `/authorize` cleared the thread, where `tests/unit/test_auth_manager.py:58` expects old tokens gone.
* `agent/gemini_agent.py:384` - an authorized message runs with the arguments of the newest preview,
  which need not be the one the user authorized (`agent/tools.py:38`).
* `webapp/blueprints/dashboard.py:29` - the import of branding overwrites a row it failed to read,
  where the docstring at line 19 speaks of an empty one.
* `agent/store.py:105` - says that a failure "degrades to a miss"; a failed Redis write or delete
  keeps the old value, which the next read returns.
* `common/rate_limit.py:141` - with Redis unreachable the limiter's `hit` raises and the request
  ends with a 500, where `agent/store.py:186` wants the demo to run on, degraded.
* `webapp/blueprints/chat.py:228` - a portal request that overlaps a clear saves the whole session
  and brings the cleared thread id back.
* `webapp/app.py:53` - a failed lookup of the agent's availability is cached as its absence until
  the next login.
* `webapp/blueprints/admin.py:929` - a blank secret, which the form calls "Leave blank to keep
  unchanged" (`en.json:181`), empties it when the properties could not be read.
* `webapp/blueprints/admin.py:929` - an edit with a blank secret reads all properties and writes all
  of them back, so it undoes a secret that an overlapping edit has set in between.
* `webapp/blueprints/admin.py:137` - overlapping edits of two providers replace the groups of a
  role from their own reading: one provider's mappings are lost.
* `webapp/blueprints/admin.py:564` - "created" and "updated" are shown whatever the later calls
  answered.
* `webapp/blueprints/admin.py:548` - creating or deleting a provider overwrites the whole login
  flow, the other providers' place in it included.
* `setup_is.py:8` - "Idempotent: safe to run multiple times": the first sharing step takes every
  role from every existing organization and the last gives only the two base roles back, so plan
  roles are lost, and a run that dies in between leaves organizations without any. A refused
  sharing call is reported as already configured.
* `setup_is.py:259,613` - both sharings are taken for done when they are accepted (202), while
  `webapp/is_operations.py:143` says that "Role sharing is asynchronous: callers must poll". Where
  WSO2 IS fails to carry the last one out, or carries the first out after it, an organization is
  left without its base roles although the script says "Setup complete".
* `api/auth.py:65` - the comment at `agent/agent_config_cache.py:80` expects the retry with a fresh
  token to survive a key rotation; it is rejected as well until the JWKS cache expires, since an
  unknown key id does not refetch the keys.
* `webapp/blueprints/signup.py:195` - a signup whose plan save failed leaves no plan row, which
  `README.md:281` and `webapp/api_proxy.py:153` take for "never selected a paid plan".
* `webapp/blueprints/subscription.py:67` - a lost answer is reported as "still on" the previous
  plan although the plan changed.
* `webapp/is_operations.py:102` - an upgrade succeeds without its roles when sharing, polling or
  assignment failed. A signup does as well (`signup.py:194`): when it was `teamspace-admin` that did
  not arrive in time (line 103) or was refused (121), a plan is recorded and nobody can change it.
* `webapp/auth.py:300` - a group that bears the name of a role counts as the role, so while the plan
  cannot be read a member of a group named `idp-manager` reaches the identity-provider pages of an
  organization that never asked for the enterprise plan.
* `webapp/app.py:29` - a transient failure of the plan lookup is cached as the basic plan, where
  the log message says "will retry".
* `webapp/is_operations.py:330` - two overlapping updates, both reported as synced, can leave two
  different themes.
* `webapp/api_proxy.py:39` - a call of the Business API that times out is reported as failed and may
  be carried out later. A branding saved, or removed, late leaves the two copies different after the
  editor was told "synced"; a late removal of an agent's configuration removes the row of the agent
  deployed after it.
* `webapp/blueprints/dashboard.py:46` - after a reset that WSO2 IS refused, the import of the very
  next request writes the old branding back before the page reporting the reset is shown.

## 5. Proofs

`OboFlowProofs` proves, for every value of the constants that satisfies the three assumptions of
`OboFlow` (actions are among the four, `MaxIterations` is a natural number, `None` and the tokens
are distinct):

* `TypeCorrect`: `Spec => []TypeOK`;
* `DelegatedCallsAlways`, `AuthorizedByConsentAlways`, `RedeemedVerifierGoneAlways`;
* `ConsentRefinement`: `Spec => ConsentSpec`, that the agent implements `Delegation`, and
  `SpentForGood`, that a token once lost, cleared, replaced or used up is never stored again.

All rest on `Invariance`, that `Inv` is inductive. `DelegatedCalls` alone is not: a handler that is
about to call must have got its token from the store, and the store must hold only redeemed
tokens of its own thread. `Inv` therefore adds what each handler knows at each step (`HandlerOK`),
that stored tokens and verifiers belong to flows of their thread in the right status
(`StoredTokensOK`, `StoredVerifiersOK`), that an opened flow names its thread and action
(`OpenedFlowsOK`), and that no two `/authorize` handlers share a flow (`OpeningsDistinct`), without
which one handler could store a verifier the other's callback has already redeemed. The proof has
one lemma per action group; each shows the conjuncts the action can disturb.

The refinement needs one thing more, `StoringOnce`: a token on its way to the store is not there
already and no second handler carries it, which holds because a code is redeemed once. Without it a
repeated callback could bring a spent grant back to life. Each step of the agent is then a step of
`Delegation` or leaves it alone (`StepShows`): most steps show at most as a withdrawal
(`QuietShows`), and the ones that open, give, collect and install a grant or begin and end a call
have a lemma each.

`ServiceAuthProofs` proves `TypeCorrect`, `TokensAliveAlways`, `RetryAlwaysFresh`,
`WithdrawnKeysAlwaysBounded` and `ConfigNeverStale` for any number of overlapping fetches and any
times with three message latencies in `Skew` and `Skew` below `Lifetime`, as with the code's 30 s
and the 3600 s that `setup_is.py` gives service tokens. A cached entry dates from when the answer
was stored, not from when it was made, so everything is as much as a message older than its cache
says: `CachesOK` bounds that for the token, the keys and the configuration, `TokenAge` follows the
life a token has left over the three messages of its way, and `AnswerAge` says that what a fetch
took to be current was so when its message was sent. The retry is fresh because the token in flight
was issued after `seen`, the last number at the time of the 401, even if another coroutine stores an
older one meanwhile.

The second part of that module proves `SingletonsAlways` and `NoSelfWaitAlways` of `LazyDatabase` for
any number of threads and failures, from an invariant that says who holds the lock (exactly the
thread at a step under it, or inside the nested call) and what such a thread knows about the two
objects. Both components are extended by that module, so `LazyDatabase` gives its specification names
of its own (`DatabaseSpec`, `DatabaseInv`), as `Provisioning` does for the module it shares.

`BrandingProofs` proves `TypeCorrect`, `PublishedWasSavedAlways` and `MessageIsAlwaysTrue` for any
number of sessions and themes; the invariant adds that a request at the PUT or the POST, and such a call
left at work by a timeout, has saved its theme (`LateOK`). A second one, `Undisturbed`, gives
`MessageIsAlwaysTrue`: while a session is `alone`, every other one is idle, its row holds what its
request has done so far, the message of its last change stands until the next change has an outcome,
and no call is at work unless the request itself has lost one and will say so or has ended without
a message (`AloneOK`).

`AgentGateProofs` proves `TypeCorrect`, `ChecksThrottledAlways`, `WithdrawnKeysAlwaysNeedOutage` and
`SlotsRefinement`, for any finite set of requests and any limits, times and number of streams.
`Throttle` counts the requests a limit has let through and whose token is still to be looked at
beside those looked at: both together never exceed the hits, nor the limit. `CacheAge` and
`RequestOK` bound the age of a key at every step between its publication and its use: a withdrawn
key is stored at most `Latency` after it was withdrawn, and used at most `TTL` after that. The
refinement needs that the counter equals the number of open streams; each step of a request then is
a step of the semaphore or leaves it alone.

`AgentDeploymentProofs` proves `TypeCorrect`, `ToldIsSoAlways` and `OneConfigAlways` for any number of
sessions and identities. `AloneOK` says what an undisturbed session has got to at each step: every
other one is idle, no removal is at work and no save but the one it waits for, none at all once it
is told of a success, and the identity it speaks of exists and is not about to go, or no longer
exists. A lemma reduces every step of a request to what it does to its own session, and another
every late step to what it does to the servers.

`ProvisioningProofs` proves `TypeCorrect`, `CompleteRunAlwaysProvisions`, `BaseRolesAlwaysReturn` and
`MembersAlwaysKept` for any number of organizations and runs. `Progress` says that a run whose calls
were all carried out has brought about what every earlier step is there for; `SeenMembers` that
whoever is missing from the members a run read has joined since, or the reading failed.
`SharingKept` gives the base roles: where the last accepted sharing has been carried out and nothing
went astray, it was carried out last, so the organization has what it gives; `EndedShared` that the
last sharing of a complete run is the one that gives the base roles.

The second part of that module proves `SubscriptionTypeCorrect`, `IdpAccessWasSelectedAlways` and
`PlanRolesAlwaysSettled` of `Subscription` for any number of sessions, any subset of the three
plans, any positive number of polls, any number of outstanding saves and groups named like either
role. The gate may decide on the role alone, so the invariant follows the role back: a session's
roles are held or the names of groups, held roles have reached the organization, those were shared,
and `idp-manager` was shared only for a plan in `selected` (`OperationOK`, `SessionOK`). For the
second property it follows what a request still has to assign: each role of its plan is held, missed
or among those left (`OperationOK`), so when none is left the plan may be saved, and a save that is
outstanding may be committed at any time (`LateSettled`), since what is held or missed stays so.

`ChatServiceProofs` proves `TypeCorrect`, `ForgottenAlwaysStays` and `TranscriptAlwaysInOrder` for any
number of sessions, messages and threads and any limit on a history. That nothing cleared comes back
cannot be said of the store, which may keep what it was told to delete, nor of the agent, which may
never be told: it holds because the session will not be given the thread again. `Reachable` are the
threads a later request of the session may still be given, through the saved cookie, through the
copy an open request will save back, or by a chat not yet posted; `ThreadsOK` says that all that is
in such a thread, or that an `add_message` under way may yet write to it (`Within`), is the session's
own and not forgotten, and that no two sessions ever hold one thread. `ChatOK` carries the same to
the history a chat is given. The order of transcripts is separate (`Ordered`): a list, stored or
read and not yet written back, holds nothing of a message that is yet to be written (`NotYet`).

`IdpAdminProofs` proves `TypeCorrect`, `FormAlwaysTakesEffect`, `OthersAlwaysKept`,
`SecretAlwaysSurvives` and `DeletionNeverBlocked` for any number of sessions, groups, roles,
providers and requests, assuming only that `None` is neither a provider nor a secret. `Reached`
says, call by call, what a request whose calls were all carried out has brought about so far: the
provider with its secret, its groups, and the mappings of the roles already rewritten. That the next
role's rewriting leaves them alone needs `AloneOK`: the groups a request has read of a role are
still the role's, since nobody else has a request in progress. `OpOK` says at which calls a
creation, an edit and a deletion can be.

Only model-checked is liveness, which rests on fairness and is out of the prover's reach:
`RequestsFinish`, `CreatedRequestsReturn`, `OperationsEnd` and `ChatsEnd`; and, of course, the
violated `RequestsReturn`.

## 6. Not modelled, and plan

Not modelled: the users and roles pages (one call per form, no state in between), the OIDC login's
verification, tenancy of the Business API (a filter on the token's organization in every query),
the portal's own rate limiter, presentation and translation, logging, configuration, migrations,
pki and `setup_secondary_is.py` (one bounded polling loop without other actors).

Next, in order: an abstract key-value store with a TTL that `agent/store.py`'s backends implement;
tenancy of the routers; refinement of the rate limiter's fixed window.

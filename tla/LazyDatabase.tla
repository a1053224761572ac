----------------------------- MODULE LazyDatabase -----------------------------
(***************************************************************************)
(* The lazy engine and sessionmaker of the Business API (api/database.py)  *)
(* and the request threads that meet there: FastAPI runs the `def` routes  *)
(* and get_db in a thread pool, so first requests overlap.  Both factories *)
(* are double-checked under one threading.Lock, which is not reentrant.    *)
(***************************************************************************)
EXTENDS Naturals

CONSTANTS
    Workers,      \* threads of the pool
    AutoCreate,   \* the answers _auto_create_enabled() may give in this deployment
    MaxFailures,  \* bound on calls of create_engine that raise
    None

ASSUME AutoCreateAssumption == AutoCreate \subseteq BOOLEAN
ASSUME FailuresAssumption == MaxFailures \in Nat
ASSUME NoneAssumption == None \notin Workers

VARIABLES
    autoCreate, \* _auto_create_enabled(): the tables are created at startup
    booted,     \* lifespan() has run
    engines,    \* engines created so far
    engine,     \* Database._engine: the number of an engine, 0 for None
    makers,     \* sessionmakers created so far
    maker,      \* Database._session_local: [no, bind], no = 0 for None
    lock,       \* holder of Database._lock
    failures,   \* calls of create_engine that raised
    pc,         \* pc[w]: where worker w is
    nested      \* nested[w]: w's engine() was called by its sessionmaker()

databaseVars ==
    <<autoCreate, booted, engines, engine, makers, maker, lock, failures, pc, nested>>

PCs == {"idle", "engine", "elock", "emake", "maker", "mlock", "mmake", "mstore",
        "open", "body", "rollback", "close"}

NoMaker == [no |-> 0, bind |-> 0]

DatabaseTypeOK ==
    /\ autoCreate \in AutoCreate
    /\ booted \in BOOLEAN
    /\ engines \in Nat /\ engine \in 0..engines
    /\ makers \in Nat /\ maker \in [no : 0..makers, bind : 0..engines]
    /\ lock \in Workers \cup {None}
    /\ failures \in 0..MaxFailures
    /\ pc \in [Workers -> PCs]
    /\ nested \in [Workers -> BOOLEAN]

DatabaseInit ==
    /\ autoCreate \in AutoCreate
    /\ booted = FALSE
    /\ engines = 0 /\ engine = 0
    /\ makers = 0 /\ maker = NoMaker
    /\ lock = None
    /\ failures = 0
    /\ pc = [w \in Workers |-> "idle"]
    /\ nested = [w \in Workers |-> FALSE]

Goto(w, step) == pc' = [pc EXCEPT ![w] = step]

LifespanLazy ==   \* mutant: startup leaves the engine to the first request
    /\ ~booted
    /\ booted' = TRUE
    /\ UNCHANGED <<autoCreate, engines, engine, makers, maker, lock, failures, pc, nested>>

(* lifespan(): before any request, _ensure_schema asks for the engine if    *)
(* this process creates its tables.                                        *)
Lifespan ==
    /\ ~booted
    /\ booted' = TRUE
    /\ IF autoCreate THEN engines' = 1 /\ engine' = 1 ELSE UNCHANGED <<engines, engine>>
    /\ UNCHANGED <<autoCreate, makers, maker, lock, failures, pc, nested>>

(* GET /health uses the engine itself, every other route a get_db session. *)
Health(w) ==
    /\ booted /\ pc[w] = "idle"
    /\ Goto(w, "engine")
    /\ UNCHANGED <<autoCreate, booted, engines, engine, makers, maker, lock, failures, nested>>

GetDb(w) ==
    /\ booted /\ pc[w] = "idle"
    /\ Goto(w, "maker")
    /\ UNCHANGED <<autoCreate, booted, engines, engine, makers, maker, lock, failures, nested>>

-----------------------------------------------------------------------------
(* Database.engine() *)

(* Where engine() returns to: sessionmaker(), or the end of the request.   *)
EngineReturns(w) ==
    /\ Goto(w, IF nested[w] THEN "mstore" ELSE "idle")
    /\ nested' = [nested EXCEPT ![w] = FALSE]

EngineCheck(w) ==
    /\ pc[w] = "engine"
    /\ IF engine = 0
       THEN Goto(w, "elock") /\ UNCHANGED nested
       ELSE EngineReturns(w)
    /\ UNCHANGED <<autoCreate, booted, engines, engine, makers, maker, lock, failures>>

EngineLock(w) ==
    /\ pc[w] = "elock" /\ lock = None
    /\ lock' = w
    /\ Goto(w, "emake")
    /\ UNCHANGED <<autoCreate, booted, engines, engine, makers, maker, failures, nested>>

EngineMakeUnchecked(w) ==   \* mutant: no second check under the lock
    /\ pc[w] = "emake"
    /\ engines' = engines + 1 /\ engine' = engines + 1
    /\ lock' = None
    /\ EngineReturns(w)
    /\ UNCHANGED <<autoCreate, booted, makers, maker, failures>>

(* Under the lock: check again, create; leaving the block releases it.     *)
EngineMake(w) ==
    /\ pc[w] = "emake"
    /\ IF engine = 0
       THEN engines' = engines + 1 /\ engine' = engines + 1
       ELSE UNCHANGED <<engines, engine>>
    /\ lock' = None
    /\ EngineReturns(w)
    /\ UNCHANGED <<autoCreate, booted, makers, maker, failures>>

(* create_engine raises: the lock is released and the request fails.       *)
EngineFails(w) ==
    /\ pc[w] = "emake" /\ engine = 0
    /\ failures < MaxFailures
    /\ failures' = failures + 1
    /\ lock' = None
    /\ Goto(w, "idle")
    /\ nested' = [nested EXCEPT ![w] = FALSE]
    /\ UNCHANGED <<autoCreate, booted, engines, engine, makers, maker>>

-----------------------------------------------------------------------------
(* Database.sessionmaker() *)

MakerCheck(w) ==
    /\ pc[w] = "maker"
    /\ Goto(w, IF maker.no = 0 THEN "mlock" ELSE "open")
    /\ UNCHANGED <<autoCreate, booted, engines, engine, makers, maker, lock, failures, nested>>

MakerLock(w) ==
    /\ pc[w] = "mlock" /\ lock = None
    /\ lock' = w
    /\ Goto(w, "mmake")
    /\ UNCHANGED <<autoCreate, booted, engines, engine, makers, maker, failures, nested>>

MakerMakeKeepsLock(w) ==   \* mutant: the lock is not released when another won
    /\ pc[w] = "mmake"
    /\ IF maker.no = 0
       THEN Goto(w, "engine") /\ nested' = [nested EXCEPT ![w] = TRUE]
       ELSE Goto(w, "open") /\ UNCHANGED nested
    /\ UNCHANGED <<autoCreate, booted, engines, engine, makers, maker, lock, failures>>

(* Check again; `bind=cls.engine()` is evaluated with the lock held.       *)
MakerMake(w) ==
    /\ pc[w] = "mmake"
    /\ IF maker.no = 0
       THEN /\ Goto(w, "engine")
            /\ nested' = [nested EXCEPT ![w] = TRUE]
            /\ UNCHANGED lock
       ELSE /\ Goto(w, "open")
            /\ lock' = None
            /\ UNCHANGED nested
    /\ UNCHANGED <<autoCreate, booted, engines, engine, makers, maker, failures>>

MakerStore(w) ==
    /\ pc[w] = "mstore"
    /\ makers' = makers + 1
    /\ maker' = [no |-> makers + 1, bind |-> engine]
    /\ lock' = None
    /\ Goto(w, "open")
    /\ UNCHANGED <<autoCreate, booted, engines, engine, failures, nested>>

-----------------------------------------------------------------------------
(* get_db() around the body of a request: it raises or not, and the         *)
(* session is closed.                                                      *)

Session(w) ==
    /\ \/ pc[w] = "open" /\ Goto(w, "body")
       \/ pc[w] = "body" /\ (Goto(w, "close") \/ Goto(w, "rollback"))
       \/ pc[w] = "rollback" /\ Goto(w, "close")
       \/ pc[w] = "close" /\ Goto(w, "idle")
    /\ UNCHANGED <<autoCreate, booted, engines, engine, makers, maker, lock, failures, nested>>

WorkerStep(w) ==
    \/ EngineCheck(w) \/ EngineLock(w) \/ EngineMake(w) \/ EngineFails(w)
    \/ MakerCheck(w) \/ MakerLock(w) \/ MakerMake(w) \/ MakerStore(w)
    \/ Session(w)

DatabaseNext ==
    \/ Lifespan
    \/ \E w \in Workers : Health(w) \/ GetDb(w) \/ WorkerStep(w)

DatabaseSpec == DatabaseInit /\ [][DatabaseNext]_databaseVars

(* The operating system runs every thread that can run. *)
FairSpec ==
    DatabaseSpec /\ WF_databaseVars(Lifespan) /\ \A w \in Workers : WF_databaseVars(WorkerStep(w))

-----------------------------------------------------------------------------
(* Properties *)

(* However first requests overlap, the process makes one engine and one    *)
(* sessionmaker, and the sessionmaker is bound to that engine: a second    *)
(* engine would split the connections of one database between two pools    *)
(* (test_database.py: "Verify singleton behavior of internal lazy          *)
(* engine/sessionmaker").                                                  *)
Singletons ==
    /\ engines <= 1 /\ makers <= 1
    /\ maker.no # 0 => engine # 0 /\ maker.bind = engine

(* Every request that asks for the engine or a session is answered, so     *)
(* get_db yields and its session is closed (test_database.py:10 "Calling   *)
(* get_db should trigger lazy loading and yield a session").               *)
RequestsReturn == \A w \in Workers : pc[w] # "idle" ~> pc[w] = "idle"

(* They are in a process that created its engine at startup, whichever     *)
(* thread is the first to want a session and however many follow it.       *)
CreatedRequestsReturn ==
    \A w \in Workers : autoCreate /\ pc[w] # "idle" ~> pc[w] = "idle"

(* A process that creates its tables at startup never has a thread waiting *)
(* for the lock it holds: sessionmaker() calls engine() inside             *)
(* `with cls._lock`, which is harmless only because the engine exists.     *)
NoSelfWait == autoCreate => \A w \in Workers : ~(pc[w] = "elock" /\ lock = w)

(* The inductive invariant behind Singletons and NoSelfWait: who holds the *)
(* lock, and what the steps under the lock know.                           *)
LockedSteps == {"emake", "mmake", "mstore"}

LockOK ==
    \A w \in Workers :
        /\ (pc[w] \in LockedSteps \/ nested[w]) <=> lock = w
        /\ nested[w] => pc[w] \in {"engine", "elock"}
        /\ nested[w] \/ pc[w] = "mstore" => maker.no = 0
        /\ pc[w] = "mstore" => engine # 0

DatabaseInv ==
    /\ DatabaseTypeOK
    /\ LockOK
    /\ engines <= 1 /\ (engine = 0 <=> engines = 0)
    /\ makers <= 1 /\ (maker.no = 0 <=> makers = 0)
    /\ maker.no # 0 => engine # 0 /\ maker.bind = engine
    /\ autoCreate /\ booted => engine # 0 /\ \A w \in Workers : pc[w] # "elock"
    /\ ~booted => engines = 0 /\ \A w \in Workers : pc[w] = "idle"

=============================================================================

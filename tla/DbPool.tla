------------------------------- MODULE DbPool -------------------------------
(***************************************************************************)
(* sidecar/db.py: one process's connection pool, the embedding-provenance  *)
(* pass and the best-effort latch, shared by threads of two classes.       *)
(*                                                                         *)
(* A knowledge-base thread enters through db(): it waits for a connection  *)
(* and must find the embedding space checked.  A best-effort thread enters *)
(* through db_best_effort(): it is refused while the latch is closed and   *)
(* skips the pass.  A thread's steps are the lock sections and the waits   *)
(* of the code, so threads interleave between them; the database and the   *)
(* embedder go up and down at any time, and the process may restart with   *)
(* another embedding model configured.                                     *)
(***************************************************************************)
EXTENDS Naturals, FiniteSets

CONSTANTS
    Threads,                \* callers
    BestEffort,             \* the best-effort ones
    Models,                 \* embedding models, of one dimension
    MaxConns,               \* max_size of the pool
    BEST_EFFORT_COOLDOWN_S, \* in ticks of the monotonic clock
    MaxClock, MaxCalls,     \* bounds: ticks, calls of all the threads,
    MaxOutages, MaxRestarts,\* database or embedder outages, restarts
    RollBack,               \* a restart may configure a former model again
    None                    \* no thread

ASSUME PoolConstants ==
    /\ BestEffort \subseteq Threads
    /\ IsFiniteSet(Threads)
    /\ None \notin Threads
    /\ RollBack \in BOOLEAN
    /\ MaxConns \in Nat \ {0}
    /\ BEST_EFFORT_COOLDOWN_S \in Nat \ {0}
    /\ MaxClock \in Nat /\ MaxCalls \in Nat /\ MaxOutages \in Nat /\ MaxRestarts \in Nat

VARIABLES
    \* the database
    migrated,       \* the migrations have committed
    marker,         \* meta.embed_model; {} when absent
    vectors,        \* the models that produced the stored vectors
    \* the process
    model,          \* settings.embed_model
    pool,           \* _pool is published
    pending,        \* the probed half of _pending_embed_space
    checked,        \* _embed_space_checked
    poolLock, spaceLock,
    until, gen,     \* _unreachable_until and _latch_gen
    held,           \* threads holding a pooled connection
    pc, seen,       \* where a thread is, and the generation it entered with
    calls,
    \* the environment
    clock, storeUp, embedderUp, outages, restarts,
    \* history
    newer           \* threads since whose entry a failure has been latched

database == <<migrated, marker, vectors>>
space == <<pending, checked, spaceLock>>
latch == <<until, gen, newer>>
environment == <<clock, storeUp, embedderUp, outages, restarts>>
vars == <<database, model, pool, space, poolLock, latch, held, pc, seen, calls, environment>>

Init ==
    /\ migrated = FALSE
    /\ marker = {}
    /\ vectors \in {{}} \cup {{m} : m \in Models}     \* a store from before the marker
    /\ model \in Models
    /\ pool = FALSE
    /\ pending = FALSE
    /\ checked = FALSE
    /\ poolLock = None
    /\ spaceLock = None
    /\ until = 0
    /\ gen = 0
    /\ held = {}
    /\ pc = [t \in Threads |-> "idle"]
    /\ seen = [t \in Threads |-> 0]
    /\ calls = 0
    /\ clock = 1
    /\ storeUp = TRUE
    /\ embedderUp = TRUE
    /\ outages = 0
    /\ restarts = 0
    /\ newer = {}

Goto(t, l) == pc' = [pc EXCEPT ![t] = l]

\* Leaving the connection's block gives it back to the pool.
KeepsWhenDown(t) == held' = IF storeUp THEN held \ {t} ELSE held        \* mutant

Release(t) == held' = held \ {t}

-----------------------------------------------------------------------------
(* The best-effort latch *)

Latched == until # 0 /\ clock < until

\* _enter_probe: refused, or the generation as of the check.
EnterProbe(t) ==
    /\ t \in BestEffort
    /\ pc[t] = "idle"
    /\ calls < MaxCalls
    /\ calls' = calls + 1
    /\ IF Latched
       THEN UNCHANGED <<pc, seen, newer>>
       ELSE /\ Goto(t, "pool")
            /\ seen' = [seen EXCEPT ![t] = gen]
            /\ newer' = newer \ {t}
    /\ UNCHANGED <<database, model, pool, space, poolLock, until, gen, held, environment>>

\* A success clears the latch, unless a failure was latched since the check.
UnlatchAnyway(t) == TRUE                                                \* mutant

Unlatches(t) == gen = seen[t]

Unlatch(t) ==
    /\ pc[t] = "unlatch"
    /\ until' = IF Unlatches(t) THEN 0 ELSE until
    /\ Goto(t, "use")
    /\ UNCHANGED <<database, model, pool, space, poolLock, gen, newer, held, seen, calls,
                   environment>>

\* _looks_saturated, after the wait: connections held and none free.  With the
\* database down the pool's own counters may say either.
Saturated ==
    IF ~pool THEN {FALSE}
    ELSE IF storeUp THEN {Cardinality(held) = MaxConns}
    ELSE BOOLEAN

TimedOut(t) ==
    /\ pc[t] = "timedout"
    /\ \E saturated \in Saturated :
          Goto(t, IF saturated THEN "idle" ELSE "failed")
    /\ UNCHANGED <<database, model, pool, space, poolLock, latch, held, seen, calls, environment>>

\* _latch.
Latch(t) ==
    /\ pc[t] = "failed"
    /\ until' = clock + BEST_EFFORT_COOLDOWN_S
    /\ gen' = gen + 1
    /\ newer' = {u \in BestEffort : pc[u] # "idle"}
    /\ Goto(t, "idle")
    /\ UNCHANGED <<database, model, pool, space, poolLock, held, seen, calls, environment>>

\* A connection was waited for in vain, or refused: an exception, which a
\* best-effort thread examines and a knowledge-base thread raises.
GivesUp(t) ==
    IF t \in BestEffort
    THEN Goto(t, "timedout") \/ (~storeUp /\ Goto(t, "failed"))
    ELSE Goto(t, "idle")

-----------------------------------------------------------------------------
(* get_pool *)

\* A knowledge-base call goes straight to the pool.
Enter(t) ==
    /\ t \notin BestEffort
    /\ pc[t] = "idle"
    /\ calls < MaxCalls
    /\ calls' = calls + 1
    /\ Goto(t, "pool")
    /\ UNCHANGED <<database, model, pool, space, poolLock, latch, held, seen, environment>>

EverybodyNeedsSpace(t) == TRUE                                          \* mutant

\* The embed_space argument.
NeedsSpace(t) == t \notin BestEffort

PoolInHand(t) == Goto(t, IF NeedsSpace(t) THEN "space" ELSE "connect")

\* The unlocked read of _pool.
PublishedEarly == pool \/ poolLock # None                               \* mutant

Published == pool

ReadPool(t) ==
    /\ pc[t] = "pool"
    /\ IF Published THEN PoolInHand(t) ELSE Goto(t, "lock")
    /\ UNCHANGED <<database, model, pool, space, poolLock, latch, held, seen, calls, environment>>

\* Under _pool_lock: somebody else may have published it meanwhile.
LockPool(t) ==
    /\ pc[t] = "lock"
    /\ poolLock = None
    /\ IF pool THEN PoolInHand(t) /\ UNCHANGED poolLock
               ELSE Goto(t, "create") /\ poolLock' = t
    /\ UNCHANGED <<database, model, pool, space, latch, held, seen, calls, environment>>

\* The dimension is probed, the migrations run on the unpublished pool and the
\* pool is published; or the pool is closed and the exception goes up.
CreatePool(t) ==
    /\ pc[t] = "create"
    /\ poolLock' = None
    /\ \/ /\ storeUp
          /\ migrated' = TRUE
          /\ pending' = embedderUp
          /\ pool' = TRUE
          /\ PoolInHand(t)
       \/ /\ GivesUp(t)
          /\ ~storeUp
          /\ UNCHANGED <<migrated, pending, pool>>
    /\ UNCHANGED <<marker, vectors, model, checked, spaceLock, latch, held, seen, calls,
                   environment>>

-----------------------------------------------------------------------------
(* _ensure_embed_space *)

\* The unlocked read of the flag, and the check under _embed_space_lock.
ReadSpace(t) ==
    /\ pc[t] = "space"
    /\ IF checked THEN Goto(t, "connect") ELSE Goto(t, "spacelock")
    /\ UNCHANGED <<database, model, pool, space, poolLock, latch, held, seen, calls, environment>>

LockSpace(t) ==
    /\ pc[t] = "spacelock"
    /\ spaceLock = None
    /\ IF checked THEN Goto(t, "connect") /\ UNCHANGED spaceLock
                  ELSE Goto(t, "passconnect") /\ spaceLock' = t
    /\ UNCHANGED <<database, model, pool, pending, checked, poolLock, latch, held, seen, calls,
                   environment>>

FreeConnection == storeUp /\ Cardinality(held) < MaxConns

ConnectForPass(t) ==
    /\ pc[t] = "passconnect"
    /\ \/ /\ FreeConnection
          /\ held' = held \cup {t}
          /\ Goto(t, "pass")
          /\ UNCHANGED spaceLock
       \/ /\ ~FreeConnection
          /\ spaceLock' = None
          /\ Goto(t, "idle")
          /\ UNCHANGED held
    /\ UNCHANGED <<database, model, pool, pending, checked, poolLock, latch, seen, calls,
                   environment>>

\* The stored vectors must be produced anew by the configured model.
ModelChangedWhenMarked == marker \notin {{}, {model}} /\ vectors # {}   \* mutant

ModelChanged == marker # {model} /\ vectors # {}

\* What the transaction of _ensure_embed_dim leaves when it commits.
RecordAnyway ==                                                         \* mutant
    /\ marker' = {model}
    /\ vectors' = IF pending /\ ModelChanged THEN {model} ELSE vectors

EnsureEmbedDim ==
    IF pending
    THEN /\ marker' = {model}
         /\ vectors' = IF ModelChanged THEN {model} ELSE vectors
    ELSE UNCHANGED <<marker, vectors>>

\* The pass commits; or it raises, and the next caller tries again.  A pass
\* deferred for want of a probe counts as checked.
Pass(t) ==
    /\ pc[t] = "pass"
    /\ Release(t)
    /\ spaceLock' = None
    /\ \/ /\ storeUp
          /\ pending /\ ModelChanged => embedderUp
          /\ EnsureEmbedDim
          /\ checked' = TRUE
          /\ Goto(t, "connect")
       \/ /\ ~storeUp \/ (pending /\ ModelChanged /\ ~embedderUp)
          /\ Goto(t, "idle")
          /\ UNCHANGED <<marker, vectors, checked>>
    /\ UNCHANGED <<migrated, model, pool, pending, poolLock, latch, seen, calls, environment>>

-----------------------------------------------------------------------------
(* The connection itself *)

Connect(t) ==
    /\ pc[t] = "connect"
    /\ \/ /\ FreeConnection
          /\ held' = held \cup {t}
          /\ Goto(t, IF t \in BestEffort THEN "unlatch" ELSE "use")
       \/ /\ ~FreeConnection
          /\ GivesUp(t)
          /\ UNCHANGED held
    /\ UNCHANGED <<database, model, pool, space, poolLock, latch, seen, calls, environment>>

\* The caller's statements: a knowledge-base caller may store a vector, which
\* it needs the embedder for.  A connection lost on the way is an
\* OperationalError, which latches when the caller is a best-effort one.
Use(t) ==
    /\ pc[t] = "use"
    /\ Release(t)
    /\ \/ /\ storeUp
          /\ Goto(t, "idle")
          /\ vectors' \in {vectors} \cup
                (IF t \notin BestEffort /\ embedderUp THEN {vectors \cup {model}} ELSE {})
       \/ /\ ~storeUp
          /\ IF t \in BestEffort THEN Goto(t, "failed") ELSE Goto(t, "idle")
          /\ UNCHANGED vectors
    /\ UNCHANGED <<migrated, marker, model, pool, space, poolLock, latch, seen, calls, environment>>

-----------------------------------------------------------------------------
(* The environment *)

Tick ==
    /\ clock < MaxClock
    /\ clock' = clock + 1
    /\ UNCHANGED <<database, model, pool, space, poolLock, latch, held, pc, seen, calls,
                   storeUp, embedderUp, outages, restarts>>

Outage ==
    /\ outages < MaxOutages
    /\ outages' = outages + 1
    /\ \/ storeUp /\ storeUp' = FALSE /\ UNCHANGED embedderUp
       \/ embedderUp /\ embedderUp' = FALSE /\ UNCHANGED storeUp
    /\ UNCHANGED <<database, model, pool, space, poolLock, latch, held, pc, seen, calls,
                   clock, restarts>>

Recovery ==
    /\ \/ ~storeUp /\ storeUp' = TRUE /\ UNCHANGED embedderUp
       \/ ~embedderUp /\ embedderUp' = TRUE /\ UNCHANGED storeUp
    /\ UNCHANGED <<database, model, pool, space, poolLock, latch, held, pc, seen, calls,
                   clock, outages, restarts>>

\* The process ends (_close_pool and all) and another starts, perhaps with
\* another model configured.
Restart ==
    /\ restarts < MaxRestarts
    /\ restarts' = restarts + 1
    /\ model' \in IF RollBack THEN Models ELSE (Models \ (marker \cup vectors)) \cup {model}
    /\ pool' = FALSE
    /\ pending' = FALSE
    /\ checked' = FALSE
    /\ poolLock' = None
    /\ spaceLock' = None
    /\ until' = 0
    /\ gen' = 0
    /\ held' = {}
    /\ pc' = [t \in Threads |-> "idle"]
    /\ seen' = [t \in Threads |-> 0]
    /\ newer' = {}
    /\ UNCHANGED <<database, calls, clock, storeUp, embedderUp, outages>>

Step(t) ==
    \/ ReadPool(t) \/ LockPool(t) \/ CreatePool(t)
    \/ ReadSpace(t) \/ LockSpace(t) \/ ConnectForPass(t) \/ Pass(t)
    \/ Connect(t) \/ Unlatch(t) \/ Use(t) \/ TimedOut(t) \/ Latch(t)

Next ==
    \/ \E t \in Threads : EnterProbe(t) \/ Enter(t) \/ Step(t)
    \/ Tick \/ Outage \/ Recovery \/ Restart

Spec == Init /\ [][Next]_vars

\* Threads are scheduled and every wait of a best-effort thread is bounded,
\* except that pool creation runs to its end under its lock whoever does it.
\* A knowledge-base thread is promised nothing beyond that: its pass may run
\* for as long as it likes and so may its statements.
FairSpec ==
    /\ Spec
    /\ \A t \in BestEffort : WF_vars(Step(t))
    /\ \A t \in Threads \ BestEffort : WF_vars(CreatePool(t))

-----------------------------------------------------------------------------
(* Properties *)

Pcs == {"idle", "pool", "lock", "create", "space", "spacelock", "passconnect", "pass",
        "connect", "unlatch", "use", "timedout", "failed"}

\* Variables have their types, and the locks and the connections are held by
\* the threads that are inside their blocks.
TypeOK ==
    /\ migrated \in BOOLEAN
    /\ marker \in SUBSET Models
    /\ vectors \in SUBSET Models
    /\ model \in Models
    /\ pool \in BOOLEAN /\ pending \in BOOLEAN /\ checked \in BOOLEAN
    /\ poolLock \in Threads \cup {None}
    /\ spaceLock \in Threads \cup {None}
    /\ until \in Nat /\ gen \in Nat
    /\ held \in SUBSET Threads
    /\ pc \in [Threads -> Pcs]
    /\ seen \in [Threads -> Nat]
    /\ calls \in Nat /\ clock \in Nat /\ outages \in Nat /\ restarts \in Nat
    /\ storeUp \in BOOLEAN /\ embedderUp \in BOOLEAN
    /\ newer \in SUBSET BestEffort
    /\ held = {t \in Threads : pc[t] \in {"pass", "unlatch", "use"}}
    /\ \A t \in Threads :
          /\ poolLock = t <=> pc[t] = "create"
          /\ spaceLock = t <=> pc[t] \in {"passconnect", "pass"}
          /\ pc[t] \in {"space", "spacelock", "passconnect", "pass"} => t \notin BestEffort

\* get_pool: whoever holds a connection from the pool finds the schema
\* committed, first requests that race with its creation included.
UsersSeeTheSchema ==
    \A t \in Threads : pc[t] \in {"connect", "pass", "unlatch", "use"} => migrated

\* _ensure_embed_dim: the marker names the model that produced every stored
\* vector -- across restarts with another model, passes that raise or are
\* deferred, and an embedder that comes back in between.
MarkerIsHonest == marker = {model} => vectors \subseteq {model}

\* _ensure_embed_space: a caller that reads or writes vectors does so after
\* the pass, and after one that could be made the store is all its model's.
SpaceIsProven ==
    \A t \in Threads \ BestEffort :
        pc[t] \in {"connect", "use"} =>
            checked /\ (pending => marker = {model} /\ vectors \subseteq {model})

\* _ensure_embed_dim: a pass that was deferred is made up for by a restart --
\* once a pass has been made with a probe, the vectors are all its model's
\* (db.py:186-192).  Not so when a former model is configured again: a restart
\* with the model of the marker embeds nothing.
RestartHeals == checked /\ pending => vectors \subseteq {model}

\* _unlatch: success clears no failure that was latched after its own probe
\* entered.
NewerFailureStands ==
    [][ until # 0 /\ until' = 0 /\ restarts' = restarts =>
          \E t \in BestEffort \ newer : pc[t] = "unlatch" /\ pc'[t] = "use" ]_vars

\* db_best_effort: its callers end their calls however long the pass of a
\* knowledge-base caller, or its statements, take.
BestEffortReturns ==
    \A t \in BestEffort : pc[t] # "idle" ~> pc[t] = "idle"

\* _looks_saturated: a queue behind a healthy database does not latch.
HealthyStoreIsNotLatched == outages = 0 => until = 0
=============================================================================

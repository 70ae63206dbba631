---------------------------- MODULE DbPoolProofs ----------------------------
(***************************************************************************)
(* Theorems about DbPool, for any threads, connections, models and bounds. *)
(***************************************************************************)
EXTENDS DbPool, TLAPS

-----------------------------------------------------------------------------
(* Types, and who is inside which block *)

Scalars ==
    /\ migrated \in BOOLEAN
    /\ marker \in SUBSET Models
    /\ vectors \in SUBSET Models
    /\ model \in Models
    /\ pool \in BOOLEAN /\ pending \in BOOLEAN /\ checked \in BOOLEAN
    /\ until \in Nat /\ gen \in Nat
    /\ seen \in [Threads -> Nat]
    /\ calls \in Nat /\ clock \in Nat /\ outages \in Nat /\ restarts \in Nat
    /\ storeUp \in BOOLEAN /\ embedderUp \in BOOLEAN
    /\ newer \in SUBSET BestEffort

Blocks ==
    /\ poolLock \in Threads \cup {None}
    /\ spaceLock \in Threads \cup {None}
    /\ held \in SUBSET Threads
    /\ pc \in [Threads -> Pcs]
    /\ held = {t \in Threads : pc[t] \in {"pass", "unlatch", "use"}}
    /\ \A t \in Threads :
          /\ poolLock = t <=> pc[t] = "create"
          /\ spaceLock = t <=> pc[t] \in {"passconnect", "pass"}
          /\ pc[t] \in {"space", "spacelock", "passconnect", "pass"} => t \notin BestEffort

LEMMA TypesAreParts == TypeOK <=> Scalars /\ Blocks
    BY DEF TypeOK, Scalars, Blocks

LEMMA ScalarStep == Scalars /\ [Next]_vars => Scalars'
  <1> SUFFICES ASSUME Scalars, [Next]_vars PROVE Scalars'
    OBVIOUS
  <1> USE DEF Scalars, database, space, latch, environment
  <1>1. ASSUME NEW t \in Threads, EnterProbe(t) PROVE Scalars'
    BY <1>1 DEF EnterProbe
  <1>2. ASSUME NEW t \in Threads, Enter(t) PROVE Scalars'
    BY <1>2 DEF Enter
  <1>3. ASSUME NEW t \in Threads, ReadPool(t) \/ ReadSpace(t) \/ TimedOut(t) PROVE Scalars'
    BY <1>3 DEF ReadPool, ReadSpace, TimedOut
  <1>4. ASSUME NEW t \in Threads, LockPool(t) \/ LockSpace(t) PROVE Scalars'
    BY <1>4 DEF LockPool, LockSpace
  <1>5. ASSUME NEW t \in Threads, CreatePool(t) PROVE Scalars'
    BY <1>5 DEF CreatePool
  <1>6. ASSUME NEW t \in Threads, ConnectForPass(t) \/ Connect(t) PROVE Scalars'
    BY <1>6 DEF ConnectForPass, Connect
  <1>7. ASSUME NEW t \in Threads, Pass(t) PROVE Scalars'
    <2>1. marker' \in SUBSET Models /\ vectors' \in SUBSET Models /\ checked' \in BOOLEAN
      BY <1>7 DEF Pass, EnsureEmbedDim
    <2>2. QED
      BY <1>7, <2>1 DEF Pass
  <1>8. ASSUME NEW t \in Threads, Unlatch(t) PROVE Scalars'
    BY <1>8 DEF Unlatch
  <1>9. ASSUME NEW t \in Threads, Use(t) PROVE Scalars'
    <2>1. vectors' \in SUBSET Models
      BY <1>9 DEF Use
    <2>2. QED
      BY <1>9, <2>1 DEF Use
  <1>10. ASSUME NEW t \in Threads, Latch(t) PROVE Scalars'
    BY <1>10, PoolConstants DEF Latch
  <1>11. CASE Tick \/ Outage \/ Recovery
    <2>1. CASE Tick
      BY <2>1 DEF Tick
    <2>2. CASE Outage
      <3>1. outages' \in Nat
        BY <2>2 DEF Outage
      <3>2. storeUp' \in BOOLEAN /\ embedderUp' \in BOOLEAN
        BY <2>2, Zenon DEF Outage
      <3>3. QED
        BY <2>2, <3>1, <3>2, Zenon DEF Outage
    <2>3. CASE Recovery
      BY <2>3 DEF Recovery
    <2>4. QED
      BY <1>11, <2>1, <2>2, <2>3
  <1>12. CASE Restart
    <2>1. model' \in Models
      BY <1>12 DEF Restart
    <2>2. seen' \in [Threads -> Nat]
      BY <1>12 DEF Restart
    <2>3. restarts' \in Nat /\ until' \in Nat /\ gen' \in Nat
      BY <1>12 DEF Restart
    <2>4. QED
      BY <1>12, <2>1, <2>2, <2>3, Zenon DEF Restart
  <1>13. CASE UNCHANGED vars
    BY <1>13 DEF vars
  <1>14. QED
    BY <1>1, <1>2, <1>3, <1>4, <1>5, <1>6, <1>7, <1>8, <1>9, <1>10, <1>11, <1>12, <1>13
       DEF Next, Step

\* A thread goes from one place to another that is in no block it was not in,
\* and no lock or connection changes hands.
LEMMA Moves ==
    ASSUME Blocks, NEW t \in Threads, NEW l \in Pcs, Goto(t, l),
           pc[t] \notin {"create", "passconnect", "pass", "unlatch", "use"},
           l \notin {"create", "passconnect", "pass", "unlatch", "use"},
           l \in {"space", "spacelock"} => t \notin BestEffort,
           UNCHANGED <<held, poolLock, spaceLock>>
    PROVE  Blocks'
    BY DEF Blocks, Goto

LEMMA BlockStep == Blocks /\ [Next]_vars => Blocks'
  <1> SUFFICES ASSUME Blocks, [Next]_vars PROVE Blocks'
    OBVIOUS
  <1> USE DEF space
  <1>1. ASSUME NEW t \in Threads, EnterProbe(t) PROVE Blocks'
    <2>1. CASE UNCHANGED pc
      BY <1>1, <2>1 DEF EnterProbe, Blocks
    <2>2. CASE Goto(t, "pool")
      BY <1>1, <2>2, Moves DEF EnterProbe, Pcs
    <2>3. QED
      BY <1>1, <2>1, <2>2 DEF EnterProbe
  <1>2. ASSUME NEW t \in Threads, Enter(t) PROVE Blocks'
    BY <1>2, Moves DEF Enter, Pcs
  <1>3. ASSUME NEW t \in Threads, ReadPool(t) PROVE Blocks'
    BY <1>3, Moves DEF ReadPool, PoolInHand, NeedsSpace, Pcs
  <1>4. ASSUME NEW t \in Threads, ReadSpace(t) PROVE Blocks'
    <2>1. t \notin BestEffort
      BY <1>4 DEF ReadSpace, Blocks
    <2>2. QED
      BY <1>4, <2>1, Moves DEF ReadSpace, Pcs
  <1>5. ASSUME NEW t \in Threads, TimedOut(t) PROVE Blocks'
    <2>1. Goto(t, "idle") \/ Goto(t, "failed")
      BY <1>5 DEF TimedOut
    <2>2. QED
      BY <1>5, <2>1, Moves DEF TimedOut, Pcs, latch
  <1>6. ASSUME NEW t \in Threads, LockPool(t) PROVE Blocks'
    <2>1. CASE PoolInHand(t) /\ UNCHANGED poolLock
      BY <1>6, <2>1, Moves DEF LockPool, PoolInHand, NeedsSpace, Pcs
    <2>2. CASE Goto(t, "create") /\ poolLock' = t
      BY <1>6, <2>2, PoolConstants DEF LockPool, Blocks, Goto, Pcs
    <2>3. QED
      BY <1>6, <2>1, <2>2 DEF LockPool
  <1>7. ASSUME NEW t \in Threads, CreatePool(t) PROVE Blocks'
    <2>1. PICK l \in {"space", "connect", "timedout", "failed", "idle"} :
            Goto(t, l) /\ (l = "space" => t \notin BestEffort)
      BY <1>7 DEF CreatePool, PoolInHand, NeedsSpace, GivesUp
    <2>2. poolLock = t /\ poolLock' = None /\ UNCHANGED <<held, spaceLock>> /\ pc[t] = "create"
      BY <1>7 DEF CreatePool, Blocks
    <2>3. QED
      BY <2>1, <2>2, PoolConstants DEF Blocks, Goto, Pcs
  <1>8. ASSUME NEW t \in Threads, LockSpace(t) PROVE Blocks'
    <2>1. CASE Goto(t, "connect") /\ UNCHANGED spaceLock
      BY <1>8, <2>1, Moves DEF LockSpace, Pcs
    <2>2. CASE Goto(t, "passconnect") /\ spaceLock' = t
      BY <1>8, <2>2, PoolConstants DEF LockSpace, Blocks, Goto, Pcs
    <2>3. QED
      BY <1>8, <2>1, <2>2 DEF LockSpace
  <1>9. ASSUME NEW t \in Threads, ConnectForPass(t) PROVE Blocks'
    <2>1. CASE held' = held \cup {t} /\ Goto(t, "pass") /\ UNCHANGED spaceLock
      BY <1>9, <2>1 DEF ConnectForPass, Blocks, Goto, Pcs
    <2>2. CASE spaceLock' = None /\ Goto(t, "idle") /\ UNCHANGED held
      BY <1>9, <2>2, PoolConstants DEF ConnectForPass, Blocks, Goto, Pcs
    <2>3. QED
      BY <1>9, <2>1, <2>2 DEF ConnectForPass
  <1>10. ASSUME NEW t \in Threads, Pass(t) PROVE Blocks'
    <2>1. PICK l \in {"connect", "idle"} : Goto(t, l)
      BY <1>10 DEF Pass
    <2>2. /\ pc[t] = "pass" /\ held' = held \ {t} /\ spaceLock' = None
          /\ UNCHANGED poolLock
      BY <1>10 DEF Pass, Release
    <2>3. QED
      BY <2>1, <2>2, PoolConstants DEF Blocks, Goto, Pcs
  <1>11. ASSUME NEW t \in Threads, Connect(t) PROVE Blocks'
    <2>1. CASE UNCHANGED held
      <3>1. Goto(t, "timedout") \/ Goto(t, "failed") \/ Goto(t, "idle") \/ held' = held \cup {t}
        BY <1>11, <2>1 DEF Connect, GivesUp
      <3>2. CASE Goto(t, "timedout") \/ Goto(t, "failed") \/ Goto(t, "idle")
        BY <1>11, <2>1, <3>2, Moves DEF Connect, Pcs
      <3>3. CASE held' = held \cup {t}
        BY <1>11, <2>1, <3>3 DEF Connect, Blocks
      <3>4. QED
        BY <3>1, <3>2, <3>3
    <2>2. CASE held' = held \cup {t} /\ (Goto(t, "unlatch") \/ Goto(t, "use"))
      BY <1>11, <2>2 DEF Connect, Blocks, Goto, Pcs
    <2>3. QED
      BY <1>11, <2>1, <2>2 DEF Connect
  <1>12. ASSUME NEW t \in Threads, Unlatch(t) PROVE Blocks'
    BY <1>12 DEF Unlatch, Blocks, Goto, Pcs
  <1>13. ASSUME NEW t \in Threads, Use(t) PROVE Blocks'
    <2>1. PICK l \in {"idle", "failed"} : Goto(t, l)
      BY <1>13 DEF Use
    <2>2. pc[t] = "use" /\ held' = held \ {t} /\ UNCHANGED <<poolLock, spaceLock>>
      BY <1>13 DEF Use, Release
    <2>3. QED
      BY <2>1, <2>2 DEF Blocks, Goto, Pcs
  <1>14. ASSUME NEW t \in Threads, Latch(t) PROVE Blocks'
    BY <1>14, Moves DEF Latch, Pcs
  <1>15. CASE Tick \/ Outage \/ Recovery
    BY <1>15 DEF Tick, Outage, Recovery, Blocks
  <1>16. CASE Restart
    BY <1>16, PoolConstants DEF Restart, Blocks, Pcs
  <1>17. CASE UNCHANGED vars
    BY <1>17 DEF vars, Blocks
  <1>18. QED
    BY <1>1, <1>2, <1>3, <1>4, <1>5, <1>6, <1>7, <1>8, <1>9, <1>10, <1>11, <1>12, <1>13, <1>14,
       <1>15, <1>16, <1>17 DEF Next, Step

LEMMA TypeInit == Init => TypeOK
  <1> SUFFICES ASSUME Init PROVE TypeOK
    OBVIOUS
  <1>1. Scalars
    BY DEF Init, Scalars
  <1>2. Blocks
    BY PoolConstants DEF Init, Blocks, Pcs
  <1>3. QED
    BY <1>1, <1>2, TypesAreParts

LEMMA TypeStep == TypeOK /\ [Next]_vars => TypeOK'
  <1>1. TypeOK' <=> Scalars' /\ Blocks'
    BY TypesAreParts DEF TypeOK, Scalars, Blocks
  <1>2. QED
    BY <1>1, TypesAreParts, ScalarStep, BlockStep

\* DbPool keeps its types, each lock is held by exactly the thread inside its
\* block and each connection by the threads inside theirs, and no best-effort
\* thread ever enters the embedding pass.
THEOREM PoolTypeCorrect == Spec => []TypeOK
    BY TypeInit, TypeStep, PTL DEF Spec

-----------------------------------------------------------------------------
(* The schema before the users *)

InPool == {"space", "spacelock", "passconnect", "pass", "connect", "unlatch", "use"}

\* The pool is published after the migrations have committed and stays until
\* the process ends; whoever creates it does so while there is none.
SchemaFirst ==
    /\ pool => migrated
    /\ checked => pool
    /\ \A t \in Threads : pc[t] \in InPool => pool
    /\ \A t \in Threads : pc[t] = "create" => ~pool

\* A thread that moves without publishing or unpublishing the pool.
LEMMA SchemaMove ==
    ASSUME TypeOK, SchemaFirst, NEW t \in Threads, NEW l, Goto(t, l),
           UNCHANGED <<pool, migrated>>, checked' => pool,
           l \in InPool => pool, l = "create" => ~pool
    PROVE  SchemaFirst'
    <1>1. ASSUME NEW u \in Threads
          PROVE  (pc'[u] \in InPool => pool) /\ (pc'[u] = "create" => ~pool)
      <2>1. pc'[u] = IF u = t THEN l ELSE pc[u]
        BY DEF TypeOK, Goto
      <2>2. QED
        BY <2>1 DEF SchemaFirst
    <1>2. QED
      BY <1>1 DEF SchemaFirst

LEMMA SchemaStep == TypeOK /\ SchemaFirst /\ [Next]_vars => SchemaFirst'
  <1> SUFFICES ASSUME TypeOK, SchemaFirst, [Next]_vars PROVE SchemaFirst'
    OBVIOUS
  <1> USE DEF database, space
  <1>1. ASSUME NEW t \in Threads, EnterProbe(t) \/ Enter(t) PROVE SchemaFirst'
    <2>1. UNCHANGED <<pool, migrated, checked>>
      BY <1>1 DEF EnterProbe, Enter
    <2>2. UNCHANGED pc \/ Goto(t, "pool")
      BY <1>1 DEF EnterProbe, Enter
    <2>3. CASE UNCHANGED pc
      BY <2>1, <2>3 DEF SchemaFirst
    <2>4. CASE Goto(t, "pool")
      BY <2>1, <2>4, SchemaMove DEF SchemaFirst, InPool
    <2>5. QED
      BY <2>2, <2>3, <2>4
  <1>2. ASSUME NEW t \in Threads, ReadPool(t) \/ LockPool(t) PROVE SchemaFirst'
    <2>1. UNCHANGED <<pool, migrated, checked>>
      BY <1>2 DEF ReadPool, LockPool
    <2>2. CASE pool /\ (Goto(t, "space") \/ Goto(t, "connect"))
      BY <2>1, <2>2, SchemaMove DEF SchemaFirst, InPool
    <2>3. CASE ~pool /\ (Goto(t, "lock") \/ Goto(t, "create"))
      BY <2>1, <2>3, SchemaMove DEF SchemaFirst, InPool
    <2>4. QED
      BY <1>2, <2>2, <2>3 DEF ReadPool, LockPool, Published, PoolInHand
  <1>3. ASSUME NEW t \in Threads, CreatePool(t) PROVE SchemaFirst'
    <2>1. UNCHANGED checked /\ pc[t] = "create" /\ ~pool
      BY <1>3 DEF CreatePool, SchemaFirst
    <2>2. CASE UNCHANGED <<pool, migrated>> /\ GivesUp(t)
      <3>1. PICK l \in {"timedout", "failed", "idle"} : Goto(t, l)
        BY <2>2 DEF GivesUp
      <3>2. QED
        BY <2>1, <2>2, <3>1, SchemaMove DEF SchemaFirst, InPool
    <2>3. CASE pool' = TRUE /\ migrated' = TRUE /\ PoolInHand(t)
      <3>1. PICK l \in {"space", "connect"} : Goto(t, l)
        BY <2>3 DEF PoolInHand
      <3>2. \A u \in Threads : pc'[u] # "create"
        <4>1. \A u \in Threads : u # t => pc[u] # "create"
          BY <2>1 DEF TypeOK
        <4>2. QED
          BY <3>1, <4>1 DEF TypeOK, Goto
      <3>3. QED
        BY <2>3, <3>2 DEF SchemaFirst
    <2>4. QED
      BY <1>3, <2>2, <2>3 DEF CreatePool
  <1>4. ASSUME NEW t \in Threads, ReadSpace(t) \/ LockSpace(t) \/ ConnectForPass(t) \/ Pass(t)
        PROVE  SchemaFirst'
    <2>1. UNCHANGED <<pool, migrated>> /\ pool
      BY <1>4 DEF ReadSpace, LockSpace, ConnectForPass, Pass, SchemaFirst, InPool
    <2>2. PICK l \in {"connect", "spacelock", "passconnect", "pass", "idle"} : Goto(t, l)
      BY <1>4 DEF ReadSpace, LockSpace, ConnectForPass, Pass
    <2>3. QED
      BY <2>1, <2>2, SchemaMove DEF InPool
  <1>5. ASSUME NEW t \in Threads, Connect(t) \/ Unlatch(t) \/ Use(t) PROVE SchemaFirst'
    <2>1. UNCHANGED <<pool, migrated, checked>> /\ pool
      BY <1>5 DEF Connect, Unlatch, Use, SchemaFirst, InPool
    <2>2. PICK l \in {"unlatch", "use", "timedout", "failed", "idle"} : Goto(t, l)
      BY <1>5 DEF Connect, Unlatch, Use, GivesUp
    <2>3. QED
      BY <2>1, <2>2, SchemaMove DEF InPool
  <1>6. ASSUME NEW t \in Threads, TimedOut(t) \/ Latch(t) PROVE SchemaFirst'
    <2>1. UNCHANGED <<pool, migrated, checked>>
      BY <1>6 DEF TimedOut, Latch
    <2>2. PICK l \in {"idle", "failed"} : Goto(t, l)
      BY <1>6 DEF TimedOut, Latch
    <2>3. QED
      BY <2>1, <2>2, SchemaMove DEF SchemaFirst, InPool
  <1>7. CASE Tick \/ Outage \/ Recovery
    <2>1. UNCHANGED <<pool, migrated, checked, pc>>
      BY <1>7 DEF Tick, Outage, Recovery
    <2>2. QED
      BY <2>1 DEF SchemaFirst
  <1>8. CASE Restart
    BY <1>8 DEF Restart, SchemaFirst, InPool
  <1>9. CASE UNCHANGED vars
    BY <1>9 DEF vars, SchemaFirst
  <1>10. QED
    BY <1>1, <1>2, <1>3, <1>4, <1>5, <1>6, <1>7, <1>8, <1>9 DEF Next, Step

LEMMA SchemaInit == Init => SchemaFirst
    BY DEF Init, SchemaFirst, InPool

\* get_pool: whoever has a connection of the pool in hand, or is about to get
\* one, finds the migrations committed, however many first callers race.
THEOREM SchemaBeforeUsers == Spec => []UsersSeeTheSchema
  <1>1. TypeOK /\ SchemaFirst => UsersSeeTheSchema
    BY DEF SchemaFirst, UsersSeeTheSchema, InPool
  <1>2. QED
    BY <1>1, TypeInit, TypeStep, SchemaInit, SchemaStep, PTL DEF Spec

-----------------------------------------------------------------------------
(* A newer failure stands *)

\* A thread since whose entry a failure was latched entered at an older
\* generation, so its own success will not match.
GenerationsKeepUp ==
    /\ \A t \in BestEffort :
          /\ seen[t] <= gen
          /\ t \in newer /\ pc[t] # "idle" => seen[t] < gen
    /\ \A t \in Threads : pc[t] = "unlatch" => t \in BestEffort

LEMMA GenerationStep == TypeOK /\ GenerationsKeepUp /\ [Next]_vars => GenerationsKeepUp'
  <1> SUFFICES ASSUME TypeOK, GenerationsKeepUp, [Next]_vars PROVE GenerationsKeepUp'
    OBVIOUS
  <1> BestEffort \subseteq Threads
    BY PoolConstants
  <1> USE DEF latch, Goto
  <1>1. ASSUME NEW t \in Threads, EnterProbe(t) PROVE GenerationsKeepUp'
    <2>1. CASE UNCHANGED <<pc, seen, newer>>
      BY <1>1, <2>1 DEF EnterProbe, GenerationsKeepUp
    <2>2. CASE Goto(t, "pool") /\ seen' = [seen EXCEPT ![t] = gen] /\ newer' = newer \ {t}
      BY <1>1, <2>2 DEF EnterProbe, GenerationsKeepUp, TypeOK
    <2>3. QED
      BY <1>1, <2>1, <2>2 DEF EnterProbe
  <1>2. ASSUME NEW t \in Threads, Enter(t) PROVE GenerationsKeepUp'
    BY <1>2 DEF Enter, GenerationsKeepUp, TypeOK
  <1>3. ASSUME NEW t \in Threads, Latch(t) PROVE GenerationsKeepUp'
    BY <1>3 DEF Latch, GenerationsKeepUp, TypeOK
  <1>4. ASSUME NEW t \in Threads,
               ReadPool(t) \/ LockPool(t) \/ CreatePool(t) \/ ReadSpace(t) \/ LockSpace(t)
               \/ ConnectForPass(t) \/ Pass(t) \/ Connect(t) \/ Unlatch(t) \/ Use(t) \/ TimedOut(t)
        PROVE  GenerationsKeepUp'
    <2>1. UNCHANGED <<gen, seen, newer>> /\ pc[t] # "idle"
      BY <1>4 DEF ReadPool, LockPool, CreatePool, ReadSpace, LockSpace, ConnectForPass, Pass,
                  Connect, Unlatch, Use, TimedOut
    <2>2. \A u \in Threads : u # t => pc'[u] = pc[u]
      BY <1>4 DEF ReadPool, LockPool, CreatePool, ReadSpace, LockSpace, ConnectForPass, Pass,
                  Connect, Unlatch, Use, TimedOut, PoolInHand, GivesUp, TypeOK
    <2>3. pc'[t] = "unlatch" => t \in BestEffort
      BY <1>4 DEF ReadPool, LockPool, CreatePool, ReadSpace, LockSpace, ConnectForPass, Pass,
                  Connect, Unlatch, Use, TimedOut, PoolInHand, GivesUp, TypeOK
    <2>4. QED
      BY <2>1, <2>2, <2>3 DEF GenerationsKeepUp
  <1>5. CASE Tick \/ Outage \/ Recovery
    BY <1>5 DEF Tick, Outage, Recovery, GenerationsKeepUp
  <1>6. CASE Restart
    BY <1>6 DEF Restart, GenerationsKeepUp
  <1>7. CASE UNCHANGED vars
    BY <1>7 DEF vars, GenerationsKeepUp
  <1>8. QED
    BY <1>1, <1>2, <1>3, <1>4, <1>5, <1>6, <1>7 DEF Next, Step

LEMMA GenerationInit == Init => GenerationsKeepUp
    BY PoolConstants DEF Init, GenerationsKeepUp

\* Only _unlatch clears the latch within a process, and only of failures its
\* caller has seen.
LEMMA OnlyUnlatchClears ==
    ASSUME TypeOK, GenerationsKeepUp, [Next]_vars,
           until # 0, until' = 0, restarts' = restarts
    PROVE  \E t \in BestEffort \ newer : pc[t] = "unlatch" /\ pc'[t] = "use"
  <1>1. ASSUME NEW t \in Threads, Unlatch(t)
        PROVE  \E u \in BestEffort \ newer : pc[u] = "unlatch" /\ pc'[u] = "use"
    <2>1. gen = seen[t] /\ pc[t] = "unlatch" /\ pc'[t] = "use"
      BY <1>1 DEF Unlatch, Unlatches, Goto, TypeOK
    <2>2. t \in BestEffort /\ t \notin newer
      BY <2>1 DEF GenerationsKeepUp, TypeOK
    <2>3. QED
      BY <2>1, <2>2
  <1>2. ASSUME NEW t \in Threads, Latch(t) PROVE FALSE
    BY <1>2, PoolConstants DEF Latch, TypeOK
  <1>3. ASSUME NEW t \in Threads, EnterProbe(t) \/ Enter(t) PROVE FALSE
    BY <1>3 DEF EnterProbe, Enter, latch
  <1>4. ASSUME NEW t \in Threads,
               ReadPool(t) \/ LockPool(t) \/ CreatePool(t) \/ ReadSpace(t) \/ LockSpace(t)
               \/ ConnectForPass(t) \/ Pass(t) \/ Connect(t) \/ Use(t) \/ TimedOut(t)
        PROVE  FALSE
    BY <1>4 DEF ReadPool, LockPool, CreatePool, ReadSpace, LockSpace, ConnectForPass, Pass,
                Connect, Use, TimedOut, latch
  <1>5. CASE Tick \/ Outage \/ Recovery
    BY <1>5 DEF Tick, Outage, Recovery, latch
  <1>6. CASE Restart
    BY <1>6 DEF Restart, TypeOK
  <1>7. CASE UNCHANGED vars
    BY <1>7 DEF vars, latch
  <1>8. QED
    BY <1>1, <1>2, <1>3, <1>4, <1>5, <1>6, <1>7 DEF Next, Step

\* _unlatch: a success clears no failure that was latched after its own probe
\* entered, for any number of threads and any interleaving.
THEOREM NewerFailuresStand == Spec => NewerFailureStands
  <1>1. TypeOK /\ GenerationsKeepUp /\ [Next]_vars =>
          [ until # 0 /\ until' = 0 /\ restarts' = restarts =>
              \E t \in BestEffort \ newer : pc[t] = "unlatch" /\ pc'[t] = "use" ]_vars
    BY OnlyUnlatchClears
  <1>2. QED
    BY <1>1, TypeInit, TypeStep, GenerationInit, GenerationStep, PTL DEF Spec, NewerFailureStands

-----------------------------------------------------------------------------
(* Provenance of the vectors *)

\* The marker tells the truth about the configured model; after a pass that
\* could be made it names it; and knowledge-base callers come after the pass.
Provenance ==
    /\ MarkerIsHonest
    /\ checked /\ pending => marker = {model}
    /\ \A t \in Threads \ BestEffort : pc[t] \in {"connect", "use"} => checked

LEMMA ProvenanceStep ==
    ASSUME RollBack = FALSE
    PROVE  TypeOK /\ SchemaFirst /\ GenerationsKeepUp /\ Provenance /\ [Next]_vars
             => Provenance'
  <1> SUFFICES ASSUME TypeOK, SchemaFirst, GenerationsKeepUp, Provenance, [Next]_vars PROVE Provenance'
    OBVIOUS
  <1> USE DEF database, space, Goto, MarkerIsHonest
  <1>1. ASSUME NEW t \in Threads,
               EnterProbe(t) \/ Enter(t) \/ Unlatch(t) \/ Latch(t) \/ TimedOut(t)
        PROVE  Provenance'
    <2>1. UNCHANGED <<marker, vectors, model, checked, pending>>
      BY <1>1 DEF EnterProbe, Enter, Unlatch, Latch, TimedOut
    <2>2. \A u \in Threads \ BestEffort : pc'[u] \in {"connect", "use"} => pc[u] \in {"connect", "use"}
      BY <1>1 DEF EnterProbe, Enter, Unlatch, Latch, TimedOut, TypeOK, GenerationsKeepUp
    <2>3. QED
      BY <2>1, <2>2 DEF Provenance
  <1>2. ASSUME NEW t \in Threads, ReadPool(t) \/ LockPool(t) PROVE Provenance'
    <2>1. UNCHANGED <<marker, vectors, model, checked, pending>>
      BY <1>2 DEF ReadPool, LockPool
    <2>2. \A u \in Threads \ BestEffort : pc'[u] \in {"connect", "use"} => pc[u] \in {"connect", "use"}
      BY <1>2 DEF ReadPool, LockPool, PoolInHand, NeedsSpace, TypeOK
    <2>3. QED
      BY <2>1, <2>2 DEF Provenance
  <1>3. ASSUME NEW t \in Threads, CreatePool(t) PROVE Provenance'
    <2>1. UNCHANGED <<marker, vectors, model, checked>> /\ ~checked
      BY <1>3 DEF CreatePool, SchemaFirst
    <2>2. \A u \in Threads \ BestEffort : pc'[u] \in {"connect", "use"} => pc[u] \in {"connect", "use"}
      BY <1>3 DEF CreatePool, PoolInHand, NeedsSpace, GivesUp, TypeOK
    <2>3. QED
      BY <2>1, <2>2 DEF Provenance
  <1>4. ASSUME NEW t \in Threads, ReadSpace(t) \/ LockSpace(t) \/ ConnectForPass(t) \/ Connect(t)
        PROVE  Provenance'
    <2>1. UNCHANGED <<marker, vectors, model, checked, pending>>
      BY <1>4 DEF ReadSpace, LockSpace, ConnectForPass, Connect
    <2>2. \A u \in Threads \ BestEffort : pc'[u] \in {"connect", "use"} =>
             pc[u] \in {"connect", "use"} \/ checked
      BY <1>4 DEF ReadSpace, LockSpace, ConnectForPass, Connect, GivesUp, TypeOK
    <2>3. QED
      BY <2>1, <2>2 DEF Provenance
  <1>5. ASSUME NEW t \in Threads, Pass(t) PROVE Provenance'
    <2>1. CASE EnsureEmbedDim /\ checked' = TRUE
      <3>1. UNCHANGED <<model, pending>>
        BY <1>5 DEF Pass
      <3>2. CASE pending
        <4>1. marker' = {model} /\ vectors' \subseteq {model}
          BY <2>1, <3>2 DEF EnsureEmbedDim, ModelChanged, Provenance
        <4>2. QED
          BY <2>1, <3>1, <4>1 DEF Provenance
      <3>3. CASE ~pending
        BY <2>1, <3>1, <3>3 DEF EnsureEmbedDim, Provenance
      <3>4. QED
        BY <3>2, <3>3
    <2>2. CASE UNCHANGED <<marker, vectors, checked>> /\ Goto(t, "idle")
      <3>1. UNCHANGED <<model, pending>>
        BY <1>5 DEF Pass
      <3>2. QED
        BY <2>2, <3>1 DEF Provenance, TypeOK
    <2>3. QED
      BY <1>5, <2>1, <2>2 DEF Pass
  <1>6. ASSUME NEW t \in Threads, Use(t) PROVE Provenance'
    <2>1. UNCHANGED <<marker, model, checked, pending>> /\ vectors' \subseteq vectors \cup {model}
      BY <1>6 DEF Use
    <2>2. \A u \in Threads \ BestEffort : pc'[u] \in {"connect", "use"} => pc[u] \in {"connect", "use"}
      BY <1>6 DEF Use, TypeOK
    <2>3. QED
      BY <2>1, <2>2 DEF Provenance
  <1>7. CASE Tick \/ Outage \/ Recovery
    BY <1>7 DEF Tick, Outage, Recovery, Provenance
  <1>8. CASE Restart
    <2>1. UNCHANGED <<marker, vectors>> /\ checked' = FALSE /\ pc' = [u \in Threads |-> "idle"]
      BY <1>8 DEF Restart
    <2>2. model' = model \/ model' \notin marker
      BY <1>8, RollBack = FALSE DEF Restart
    <2>3. QED
      BY <2>1, <2>2 DEF Provenance
  <1>9. CASE UNCHANGED vars
    BY <1>9 DEF vars, Provenance
  <1>10. QED
    BY <1>1, <1>2, <1>3, <1>4, <1>5, <1>6, <1>7, <1>8, <1>9 DEF Next, Step

LEMMA ProvenanceInit == Init => Provenance
    BY DEF Init, Provenance, MarkerIsHonest

\* The marker's invariant with the ones it needs.
LEMMA ProvenanceInvariant ==
    ASSUME RollBack = FALSE
    PROVE  Spec => [](TypeOK /\ Provenance)
  <1>1. TypeOK /\ SchemaFirst /\ GenerationsKeepUp /\ Provenance /\ [Next]_vars
          => (TypeOK /\ SchemaFirst /\ GenerationsKeepUp /\ Provenance)'
    BY TypeStep, SchemaStep, GenerationStep, ProvenanceStep
  <1>2. QED
    BY <1>1, TypeInit, SchemaInit, GenerationInit, ProvenanceInit, PTL DEF Spec

\* _ensure_embed_dim: unless a former model is configured again, the marker
\* never names the configured model while a vector of another is stored: the
\* pass replaces the vectors in the transaction that rewrites the marker, and
\* a write that follows a deferred pass leaves the marker as it was.
THEOREM ProvenanceIsKept ==
    ASSUME RollBack = FALSE
    PROVE  Spec => []MarkerIsHonest
  <1>1. Provenance => MarkerIsHonest
    BY DEF Provenance
  <1>2. QED
    BY <1>1, ProvenanceInvariant, PTL

\* connect: a knowledge-base caller, past the embedding pass, reads and writes
\* vectors only after the pass, and when the pass could be made, only when the
\* configured model, which the marker names, produced all of them.
THEOREM UsersComeAfterThePass ==
    ASSUME RollBack = FALSE
    PROVE  Spec => []SpaceIsProven
  <1>1. Provenance => SpaceIsProven
    BY DEF Provenance, MarkerIsHonest, SpaceIsProven
  <1>2. QED
    BY <1>1, ProvenanceInvariant, PTL

=============================================================================

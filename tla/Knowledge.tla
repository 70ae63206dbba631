------------------------------ MODULE Knowledge ------------------------------
(***************************************************************************)
(* The knowledge base behind stores.get_store: a deployment has chosen one *)
(* store, and whichever it is, its callers see the abstract table.         *)
(***************************************************************************)
EXTENDS KnowledgeSync, KnowledgePg

CONSTANTS
    Deployments,        \* of {"postgres", "s3", "file"}: the ones checked
    OldRows,            \* what a base may hold before
    OldFiles

\* Learnings stored before: known by their ids, which no call of Callers minted.
StoredBefore(rows) ==
    /\ IsFiniteSet(rows)
    /\ \A r \in rows : /\ r = [id |-> r.id, text |-> r.text, source |-> r.source]
                       /\ r.id[1] \notin Callers
                       /\ \A s \in rows : s.id = r.id => s = r

ASSUME KnowledgeAssumption ==
    /\ \A c \in Callers : Model[c] \notin {Absent, Unmarked}
    /\ candidate_k \in Nat
    /\ \A req \in Requests : req.op = "ingest" =>
          /\ req.cap \in Nat \ {0}
          /\ req.items \in Seq(Range(req.items))
          /\ \A k \in Range(req.items) : k = Key(k.text, k.source)
    /\ \A rows \in OldRows : StoredBefore(rows)
    /\ \A f \in OldFiles :
          /\ f = Files(f.rows, f.vecs, f.space)
          /\ StoredBefore(f.rows)
          /\ DOMAIN f.vecs = IdsOf(f.rows)
          /\ f.space # Unmarked => \A r \in f.rows : f.vecs[r.id] = Embedded(r, f.space)

vars == <<store, file, work, table, vec, txn, call, ever>>

\* get_store, once per deployment.
Init ==
    /\ store \in Deployments
    /\ IF store = "postgres"
       THEN /\ file = NoFile
            /\ work = [c \in Callers |-> Rest]
            /\ \E rows \in OldRows : StartsFromTable(rows)
       ELSE /\ table = {} /\ vec = [i \in {} |-> 0]
            /\ txn = [c \in Callers |-> NoTxn]
            /\ \E f \in OldFiles : StartsFrom(f)

FileStore(c) == store # "postgres" /\ SyncStep(c) /\ UNCHANGED <<table, vec, txn>>

PostgresStore(c) == store = "postgres" /\ PgStep(c) /\ UNCHANGED <<store, file, work>>

Next == \E c \in Callers : FileStore(c) \/ PostgresStore(c)

FileWork(c) ==
    /\ store # "postgres" /\ Works(c) /\ Remembers
    /\ UNCHANGED <<store, table, vec, txn>>

PostgresWork(c) ==
    /\ store = "postgres" /\ Proceeds(c) /\ PgRemembers
    /\ UNCHANGED <<store, file, work>>

PostgresDeadlock(c) ==
    /\ store = "postgres" /\ Deadlocked(c) /\ PgRemembers
    /\ UNCHANGED <<store, file, work>>

\* A call runs on until it ends, and Postgres finds every deadlock; nobody
\* has to make another call.
Fairness ==
    \A c \in Callers :
        /\ WF_vars(FileWork(c) \/ PostgresWork(c))
        /\ WF_vars(PostgresDeadlock(c))

Spec == Init /\ [][Next]_vars
FairSpec == Spec /\ Fairness

-----------------------------------------------------------------------------

\* Shapes of the state; what a call works on it works on only while it is on.
TypeOK ==
    /\ store \in {"postgres", "s3", "file"}
    /\ \A c \in Callers :
         /\ call[c].phase \in {"idle", "pending", "looked", "ended"}
         /\ call[c].n \in 0 .. MaxCalls
         /\ call[c].got.is \in {"none", "failed", "stored", "updated", "absent",
                                 "duplicate", "deleted", "found"}
    /\ IF store = "postgres" THEN PgTypeOK ELSE SyncTypeOK

\* Every stored learning has the one embedding of the text it has now, made by
\* the model the base is marked with, and a deleted one leaves none behind:
\* lost races, re-embeddings by a process with another model, and updates that
\* overlap included (sqlite_store._open, update_learning; ingest.update).
VectorsOfTheirText ==
    IF store = "postgres" THEN EmbeddingMatches ELSE VectorsMatch

Rows == IF store = "postgres" THEN table ELSE file.rows

Base == INSTANCE KnowledgeBase WITH rows <- Rows

\* Postgres and the file on S3 implement the abstract table: each call takes
\* effect in one step and at most once, no concurrent call undoes what another
\* was told it did, and every answer is what the table made true (stores.Store;
\* sqlite_store._mutate; ingest.ingest, update, forget; retrieve.query).
ImplementsBase ==
    /\ Base!BaseInit
    /\ [][store # "file" => Base!BaseNext]_<<Rows, call, ever>>

\* Every call ends: races are lost MAX_RETRIES times at most, and no call waits
\* for ever for a lock or a key another one holds (_mutate; db's transactions).
CallsEnd == \A c \in Callers : Busy(c) ~> ~Busy(c)

\* "Write data if the file is unchanged since token (else raise)"
\* (FileObjectStore.save).
WritesUnchanged ==
    [][\A c \in Callers :
         work[c].pc = "truncate" /\ work'[c].pc = "fill" => file = work[c].base]_vars

=============================================================================

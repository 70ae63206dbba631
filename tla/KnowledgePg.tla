----------------------------- MODULE KnowledgePg -----------------------------
(***************************************************************************)
(* The knowledge base in Postgres: sidecar/ingest.py and                   *)
(* sidecar/retrieve.py, at READ COMMITTED.  A statement is a step.  What   *)
(* the database does with two transactions is Postgres's: a unique key     *)
(* that another transaction has inserted and not committed, and a row      *)
(* another transaction has locked, are waited for, and of transactions     *)
(* that wait for each other one is made to fail.                           *)
(***************************************************************************)
EXTENDS KnowledgeCalls

VARIABLES
    table,              \* the committed learnings
    vec,                \* the text each row's embedding was made of
    txn                 \* the transaction each call has open

pgVars == <<table, vec, txn, call, ever>>

NoTxn == [at |-> "none", added |-> {}, lock |-> {}, read |-> UNSET]

StartsFromTable(rows) ==
    /\ table = rows
    /\ vec = [id \in IdsOf(rows) |-> (CHOOSE r \in rows : r.id = id).text]
    /\ txn = [c \in Callers |-> NoTxn]
    /\ call = [c \in Callers |-> Idle]
    /\ ever = KeysOf(rows)

InTxn(c, at) == txn[c].at = at
Asked(c, phase, op) == call[c].phase = phase /\ call[c].req.op = op

\* The connection goes back to the pool; what was not committed is gone.
Closes(c) == txn' = [txn EXCEPT ![c] = NoTxn]

Uncommitted(c) == UNION {KeysOf(txn[d].added) : d \in Callers \ {c}}
Locked(c) == UNION {txn[d].lock : d \in Callers \ {c}}

-----------------------------------------------------------------------------
(* ingest: one read transaction, the embedder, one transaction for all. *)

ExistingKeys(c) ==
    /\ Asked(c, "pending", "ingest")
    /\ LooksAt(c, table)
    /\ UNCHANGED <<table, vec, txn>>

Embeds(c) ==
    /\ Asked(c, "looked", "ingest") /\ InTxn(c, "none") /\ call[c].todo # <<>>
    /\ txn' = [txn EXCEPT ![c].at = "insert"]
    /\ UNCHANGED <<table, vec, call>>

\* The next item: ON CONFLICT (repo, text, source) DO NOTHING.
NextItem(c) == call[c].todo[Cardinality(txn[c].added) + 1]

InsertsItem(c) ==
    /\ InTxn(c, "insert")
    /\ Cardinality(txn[c].added) < Len(call[c].todo)
    /\ LET k == NextItem(c)
       IN  \/ /\ k \in KeysOf(table)
              /\ call' = [call EXCEPT ![c].todo = RemoveAt(@, Cardinality(txn[c].added) + 1),
                                      ![c].skipped = @ + 1]
              /\ UNCHANGED txn
           \/ /\ k \notin KeysOf(table) \cup Uncommitted(c)
              /\ txn' = [txn EXCEPT ![c].added = @ \cup {MintedRow(c, k)}]
              /\ UNCHANGED call
    /\ UNCHANGED <<table, vec>>

Commits(c) ==
    /\ Asked(c, "looked", "ingest")
    /\ call[c].todo = <<>> \/ InTxn(c, "insert")
    /\ Cardinality(txn[c].added) = Len(call[c].todo)
    /\ table' = table \cup txn[c].added
    /\ vec' = [id \in DOMAIN vec \cup IdsOf(txn[c].added) |->
                 IF id \in DOMAIN vec THEN vec[id]
                 ELSE (CHOOSE r \in txn[c].added : r.id = id).text]
    /\ LET n == Cardinality(txn[c].added)
       IN  Ends(c, Answer("stored", n, call[c].skipped, {})) \/ Ends(c, Failed)
    /\ Closes(c)

-----------------------------------------------------------------------------
(* update: the row is locked from the reading of its text to the commit. *)

\* SELECT text ... FOR UPDATE, of no such row or of one nobody has locked.
LocksRow(c) ==
    /\ Asked(c, "pending", "update") /\ InTxn(c, "none")
    /\ LET id == call[c].req.id
       IN  \/ /\ id \notin IdsOf(table)
              /\ Ends(c, Answer("absent", 0, 0, {}))
              /\ UNCHANGED txn
           \/ \E r \in table :
                /\ r.id = id
                /\ id \notin Locked(c)
                /\ txn' = [txn EXCEPT ![c].at = "update", ![c].lock = {id},
                                      ![c].read = r.text]
                /\ UNCHANGED call
    /\ UNCHANGED <<table, vec>>

KeepsItsLocks(c) == txn' = [txn EXCEPT ![c].at = "none"]             \* mutant

\* A UniqueViolation rolls back as it leaves the transaction.
RollsBack(c) == Closes(c)

UpdatesRow(c) ==
    /\ InTxn(c, "update")
    /\ \E r \in {r \in table : r.id = call[c].req.id} :
         LET req == call[c].req
             s == Changed(req, r)
         IN  \/ /\ Clashes(req, r, table)
                /\ Ends(c, Answer("duplicate", 0, 0, {}))
                /\ RollsBack(c)
                /\ UNCHANGED <<table, vec>>
             \/ /\ ~Clashes(req, r, table)
                /\ KeyOf(s) \notin Uncommitted(c)
                /\ table' = (table \ {r}) \cup {s}
                /\ vec' = IF s.text # txn[c].read THEN [vec EXCEPT ![r.id] = s.text]
                                                  ELSE vec
                /\ Ends(c, Answer("updated", 0, 0, {s})) \/ Ends(c, Failed)
                /\ Closes(c)

-----------------------------------------------------------------------------
(* forget: one DELETE, which waits for the rows it chose. *)

ChoosesRows(c) ==
    /\ Asked(c, "pending", "forget")
    /\ call' = [call EXCEPT ![c].phase = "looked",
                            ![c].snap = IdsOf(Selected(call[c].req, table))]
    /\ UNCHANGED <<table, vec, txn>>

DeletesRows(c) ==
    /\ Asked(c, "looked", "forget")
    /\ call[c].snap \cap Locked(c) = {}
    /\ LET gone == {r \in Selected(call[c].req, table) : r.id \in call[c].snap}
       IN  /\ table' = table \ gone
           /\ vec' = [id \in DOMAIN vec \ IdsOf(gone) |-> vec[id]]
           /\ Ends(c, Answer("deleted", Cardinality(gone), 0, {})) \/ Ends(c, Failed)
    /\ UNCHANGED txn

-----------------------------------------------------------------------------
(* query: the semantic pass, then the scoped one, each of what is committed. *)

FindsNearest(c) ==
    /\ Asked(c, "pending", "query")
    /\ \E window \in Nearest({r \in table : ~Dark(r)}, candidate_k) : Sees(c, window)
    /\ txn' = [txn EXCEPT ![c].at = "scoped"]
    /\ UNCHANGED <<table, vec>>

FindsScoped(c) ==
    /\ InTxn(c, "scoped")
    /\ \E scoped \in Nearest({r \in table : ~Dark(r) /\ Scope[r.text] # "all"},
                             candidate_k) :
         Sees(c, {r \in call[c].got.rows : r.id \notin IdsOf(scoped)} \cup scoped)
    /\ txn' = [txn EXCEPT ![c].at = "merged"]
    /\ UNCHANGED <<table, vec>>

\* list_learnings, get_learning, repos: one statement.
Lists(c) ==
    /\ Asked(c, "pending", "list")
    /\ Sees(c, table)
    /\ txn' = [txn EXCEPT ![c].at = "merged"]
    /\ UNCHANGED <<table, vec>>

Found(c) ==
    /\ InTxn(c, "merged")
    /\ Finds(c)
    /\ Closes(c)
    /\ UNCHANGED <<table, vec>>

-----------------------------------------------------------------------------

\* The embedder or the database raises; the transaction, if any, is undone.
Raises(c) ==
    /\ Busy(c)
    /\ Ends(c, Failed)
    /\ Closes(c)
    /\ UNCHANGED <<table, vec>>

WaitsFor(c, d) ==
    /\ InTxn(c, "insert")
    /\ Cardinality(txn[c].added) < Len(call[c].todo)
    /\ NextItem(c) \notin KeysOf(table)
    /\ NextItem(c) \in KeysOf(txn[d].added)

\* deadlock detected: Postgres makes one of the two fail.
Deadlocked(c) ==
    /\ \E d \in Callers \ {c} : WaitsFor(c, d) /\ WaitsFor(d, c)
    /\ Ends(c, Failed)
    /\ Closes(c)
    /\ UNCHANGED <<table, vec>>

PgAsks(c) == (Begin(c) \/ SendAgain(c)) /\ UNCHANGED <<table, vec, txn>>

PgRemembers == ever' = ever \cup KeysOf(table')

\* The steps that nothing but another transaction delays.
Proceeds(c) ==
    \/ ExistingKeys(c) \/ Embeds(c) \/ InsertsItem(c) \/ Commits(c)
    \/ LocksRow(c) \/ UpdatesRow(c) \/ ChoosesRows(c) \/ DeletesRows(c)
    \/ FindsNearest(c) \/ FindsScoped(c) \/ Lists(c) \/ Found(c)

PgStep(c) ==
    /\ Proceeds(c) \/ PgAsks(c) \/ Raises(c) \/ Deadlocked(c)
    /\ PgRemembers

-----------------------------------------------------------------------------

\* Every row's embedding was made of the text the row has (update: the
\* decision to embed again holds until it is written).
EmbeddingMatches ==
    /\ DOMAIN vec = IdsOf(table)
    /\ \A r \in table : vec[r.id] = r.text

\* A row is locked by one transaction, and only while its call is on.
PgTypeOK ==
    /\ vec \in [IdsOf(table) -> {r.text : r \in table} \cup DOMAIN Scope]
    /\ \A c \in Callers :
         /\ txn[c].at \in {"none", "insert", "update", "scoped", "merged"}
         /\ Cardinality(txn[c].lock) <= 1
         /\ txn[c].at # "none" => Busy(c)

=============================================================================

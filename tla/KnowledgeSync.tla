---------------------------- MODULE KnowledgeSync ----------------------------
(***************************************************************************)
(* The knowledge base as one sqlite file in object storage:                *)
(* sidecar/sqlite_store.py over sidecar/objectstore.py.  Every call loads  *)
(* the file, works on its copy, and saves the copy back on the condition   *)
(* that the object is still the one it loaded.  S3 and R2 test the         *)
(* condition and put in one request; on a local disk the test, the         *)
(* truncation of the file and the writing of the bytes are three steps.    *)
(* Opening a copy re-embeds every row when the file's marker is not the    *)
(* process's own model.                                                    *)
(***************************************************************************)
EXTENDS KnowledgeCalls

CONSTANTS
    Absent, Unmarked,   \* in place of the model a file is marked with: there
                        \* is no object, or it has no embed_model marker
    Model,              \* the embedding model of each caller's process
    MAX_RETRIES

VARIABLES
    store,              \* the deployment: "s3" or "file" here
    file,               \* the object: its rows, their vectors and the marker
    work                \* the copy each call is working on

syncVars == <<store, file, work, call, ever>>

Files(rows, vecs, space) == [rows |-> rows, vecs |-> vecs, space |-> space]

\* The object does not exist.
NoFile == Files({}, [id \in {} |-> Absent], Absent)

Rest == [pc |-> "rest", then |-> "rest", base |-> NoFile, next |-> NoFile, tries |-> 0, told |-> Silence]

StartsFrom(f) ==
    /\ file = f
    /\ work = [c \in Callers |-> Rest]
    /\ call = [c \in Callers |-> Idle]
    /\ ever = KeysOf(f.rows)

Embedded(r, m) == [text |-> r.text, model |-> m]

\* Every learning embedded again, by the model that opens the file.
migrate_dim(f, m) ==
    Files(f.rows,
          [id \in IdsOf(f.rows) |-> Embedded(CHOOSE r \in f.rows : r.id = id, m)], m)

\* A file that holds nothing and was never stamped is fresh.
Fresh(f) == f.space \in {Absent, Unmarked} /\ f.rows = {}

Migrates(f, m) == ~Fresh(f) /\ f.space # m

Opened(f, m) == IF Migrates(f, m) THEN migrate_dim(f, m) ELSE [f EXCEPT !.space = m]

-----------------------------------------------------------------------------
(* Reads *)

At(c, pc) == work[c].pc = pc

\* _read: the answer comes from the copy; a copy that had to be migrated is
\* owed to the store.
Reads(c) ==
    work' = [work EXCEPT ![c] =
        [Rest EXCEPT !.pc = "answer", !.base = file,
                     !.next = IF Migrates(file, Model[c]) THEN Opened(file, Model[c])
                                                          ELSE NoFile]]

existing_keys(c) ==
    /\ At(c, "rest") /\ call[c].phase = "pending" /\ call[c].req.op = "ingest"
    /\ LooksAt(c, file.rows)
    /\ Reads(c)
    /\ UNCHANGED file

\* The nearest rows of the whole file, the window widened by the dark rows it
\* may hold; the dark ones are dropped afterwards.
Widened(rows) == candidate_k + Cardinality({r \in rows : Dark(r)})

query(c) ==
    /\ At(c, "rest") /\ call[c].phase = "pending" /\ call[c].req.op = "query"
    /\ \E knn \in Nearest(file.rows, Widened(file.rows)) :
         Sees(c, {r \in knn : ~Dark(r)})
    /\ Reads(c)
    /\ UNCHANGED file

\* list_learnings, get_learning, repos: every row that matches.
list_learnings(c) ==
    /\ At(c, "rest") /\ call[c].phase = "pending" /\ call[c].req.op = "list"
    /\ Sees(c, file.rows)
    /\ Reads(c)
    /\ UNCHANGED file

\* A migration that loses its race is dropped; the next opening repeats it.
Owed(c) == work[c].next # NoFile

WriteBack(c) ==
    \/ /\ Owed(c) /\ file = work[c].base /\ store = "s3"
       /\ file' = work[c].next
    \/ /\ ~Owed(c) \/ file # work[c].base
       /\ UNCHANGED file

Answered(c) ==
    /\ At(c, "answer")
    /\ WriteBack(c)
    /\ \/ Finds(c) /\ work' = [work EXCEPT ![c] = Rest]
       \/ /\ call[c].req.op = "ingest" /\ call[c].todo = <<>>
          /\ Ends(c, Answer("stored", 0, call[c].skipped, {}))
          /\ work' = [work EXCEPT ![c] = Rest]
       \/ /\ call[c].req.op = "ingest" /\ call[c].todo # <<>>
          /\ work' = [work EXCEPT ![c] = [Rest EXCEPT !.pc = "load"]]
          /\ UNCHANGED call

-----------------------------------------------------------------------------
(* Writes: what one attempt makes of its copy. *)

\* INSERT OR IGNORE, row by row; the vectors were computed before the attempt.
WithItems(c, f) ==
    LET new == {MintedRow(c, k) : k \in Range(call[c].todo) \ KeysOf(f.rows)}
    IN  Files(f.rows \cup new,
              [id \in IdsOf(f.rows \cup new) |->
                 IF id \in IdsOf(new)
                 THEN Embedded(CHOOSE r \in new : r.id = id, Model[c])
                 ELSE f.vecs[id]], f.space)

StoredAnswer(c, f) ==
    LET n == Cardinality(Range(call[c].todo) \ KeysOf(f.rows))
    IN  Answer("stored", n, call[c].skipped + Len(call[c].todo) - n, {})

\* Decided once, on the copy of the first attempt.
ReEmbedsFirstTime(c, r) ==                                           \* mutant
    Changed(call[c].req, r).text # r.text /\ work[c].tries = 0

\* The text is embedded again when it differs from the one in this copy.
ReEmbeds(c, r) == Changed(call[c].req, r).text # r.text

WithChange(c, f, r) ==
    LET s == Changed(call[c].req, r)
    IN  Files((f.rows \ {r}) \cup {s},
              IF ReEmbeds(c, r) THEN [f.vecs EXCEPT ![r.id] = Embedded(s, Model[c])]
                                ELSE f.vecs, f.space)

\* The rows go, and their vectors with them.
WithoutRows(f, gone) ==
    Files(f.rows \ gone, [id \in IdsOf(f.rows \ gone) |-> f.vecs[id]], f.space)

-----------------------------------------------------------------------------
(* Writes: the attempts. *)

Loads(c, next, told) ==
    work' = [work EXCEPT ![c].pc = "save", ![c].base = file, ![c].next = next,
                         ![c].told = told]

LoadIngest(c) ==
    /\ At(c, "load") /\ call[c].req.op = "ingest"
    /\ LET f == Opened(file, Model[c]) IN Loads(c, WithItems(c, f), StoredAnswer(c, f))
    /\ UNCHANGED <<file, call>>

Writing(c, op) ==
    /\ At(c, "load") \/ (At(c, "rest") /\ call[c].phase = "pending")
    /\ call[c].req.op = op

update_learning(c) ==
    /\ Writing(c, "update")
    /\ LET f == Opened(file, Model[c])
           req == call[c].req
           mine == {r \in f.rows : r.id = req.id}
       IN  \/ /\ mine = {}
              /\ Loads(c, f, Answer("absent", 0, 0, {}))
              /\ UNCHANGED call
           \/ \E r \in mine :
                \/ /\ Clashes(req, r, f.rows)
                   /\ Ends(c, Answer("duplicate", 0, 0, {}))
                   /\ work' = [work EXCEPT ![c] = Rest]
                \/ /\ ~Clashes(req, r, f.rows)
                   /\ Loads(c, WithChange(c, f, r),
                            Answer("updated", 0, 0, {Changed(req, r)}))
                   /\ UNCHANGED call
    /\ UNCHANGED file

forget(c) ==
    /\ Writing(c, "forget")
    /\ LET f == Opened(file, Model[c])
           gone == Selected(call[c].req, f.rows)
       IN  /\ Loads(c, WithoutRows(f, gone), Answer("deleted", Cardinality(gone), 0, {}))
           /\ call' = [call EXCEPT ![c].phase = "looked", ![c].snap = IdsOf(gone)]
    /\ UNCHANGED file

Unconditional(c) == TRUE                                             \* mutant

\* PutObject with If-Match (If-None-Match when there was no object).
Unchanged(c) == file = work[c].base

Saved(c) ==
    /\ store = "s3"
    /\ At(c, "save") /\ Unchanged(c)
    /\ file' = work[c].next
    /\ work' = [work EXCEPT ![c] = Rest]
    /\ Ends(c, work[c].told)

\* The put is applied and its answer never arrives: an error, not a race.
SavedUnheard(c) ==
    /\ store = "s3"
    /\ At(c, "save") /\ Unchanged(c)
    /\ file' = work[c].next
    /\ work' = [work EXCEPT ![c] = Rest]
    /\ Ends(c, Failed)

\* FileObjectStore.save, of a write or of an owed migration: compare the
\* hashes, ...
Checked(c) ==
    /\ store = "file"
    /\ At(c, "save") \/ (At(c, "answer") /\ Owed(c))
    /\ Unchanged(c)
    /\ work' = [work EXCEPT ![c].pc = "truncate", ![c].then = work[c].pc]
    /\ UNCHANGED <<file, call>>

\* ... open the file for writing, which leaves it empty ...
Truncated(c) ==
    /\ At(c, "truncate")
    /\ file' = [NoFile EXCEPT !.space = Unmarked]
    /\ work' = [work EXCEPT ![c].pc = "fill"]
    /\ UNCHANGED call

\* ... and write the bytes.
Filled(c) ==
    /\ At(c, "fill")
    /\ file' = work[c].next
    /\ \/ /\ work[c].then = "save"
          /\ work' = [work EXCEPT ![c] = Rest]
          /\ Ends(c, work[c].told)
       \/ /\ work[c].then = "answer"
          /\ work' = [work EXCEPT ![c] = [Rest EXCEPT !.pc = "answer"]]
          /\ UNCHANGED call

\* One of MAX_RETRIES attempts is left.
AttemptLeft(c) == work[c].tries + 1 < MAX_RETRIES

Raced(c) ==
    /\ At(c, "save") /\ file # work[c].base
    /\ \/ /\ AttemptLeft(c)
          /\ work' = [work EXCEPT ![c].pc = "load", ![c].tries = @ + 1,
                                  ![c].base = NoFile, ![c].next = NoFile,
                                  ![c].told = Silence]
          /\ UNCHANGED call
       \/ /\ ~AttemptLeft(c)
          /\ work' = [work EXCEPT ![c] = Rest]
          /\ Ends(c, Failed)
    /\ UNCHANGED file

\* The embedder or the object store raises, or the process dies.
Fails(c) ==
    /\ Busy(c)
    /\ work' = [work EXCEPT ![c] = Rest]
    /\ Ends(c, Failed)
    /\ UNCHANGED file

Asks(c) == (Begin(c) \/ SendAgain(c)) /\ UNCHANGED <<file, work>>

Remembers == ever' = ever \cup KeysOf(file'.rows)

\* The steps of a call already made.
Works(c) ==
    \/ existing_keys(c) \/ query(c) \/ list_learnings(c) \/ Answered(c) 
    \/ LoadIngest(c) \/ update_learning(c) \/ forget(c) \/ Saved(c) \/ Checked(c)
    \/ Truncated(c) \/ Filled(c) \/ Raced(c)

SyncStep(c) ==
    /\ Works(c) \/ Asks(c) \/ SavedUnheard(c) \/ Fails(c)
    /\ Remembers
    /\ UNCHANGED store

-----------------------------------------------------------------------------

\* Every stored learning has exactly one vector, of the text it has now and
\* of the model the file is marked with, and no deleted one keeps its own.
VectorsMatch ==
    /\ DOMAIN file.vecs = IdsOf(file.rows)
    /\ file.space # Unmarked =>
         \A r \in file.rows : file.vecs[r.id] = Embedded(r, file.space)

SyncTypeOK ==
    /\ file = Files(file.rows, file.vecs, file.space)
    /\ \A c \in Callers :
         /\ work[c].pc \in {"rest", "answer", "load", "save", "truncate", "fill"}
         /\ work[c].tries \in 0 .. MAX_RETRIES - 1
         /\ work[c].pc # "rest" => Busy(c)

=============================================================================

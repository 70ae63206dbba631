--------------------------- MODULE KnowledgeCalls ---------------------------
(***************************************************************************)
(* The calls a knowledge store answers (sidecar/stores.py), whichever      *)
(* store it is: what a caller asks, what it is told, and the caller that   *)
(* sends a bounded ingest again until nothing of it remains.               *)
(*                                                                         *)
(* One repository.  A learning is known by its KEY, the (text, source)     *)
(* pair the stores hold unique; globs, topic and expiry ride along and     *)
(* only the globs matter, as the text's Scope.                             *)
(***************************************************************************)
EXTENDS Integers, FiniteSets, SequencesExt

CONSTANTS
    Callers,            \* processes and threads that use the store
    Requests,           \* what they may ask for
    MaxCalls,           \* bound: calls of one caller
    Scope,              \* of a text: "all" (no globs), "hit" or "miss"
    Rank,               \* of a text: its distance to the query asked
    DIGEST_SOURCE, digest_retrieval, candidate_k, top_k,
    UNSET

VARIABLES
    call,               \* the call each caller has in progress
    ever                \* the keys the store has ever held

Key(t, s) == [text |-> t, source |-> s]
KeyOf(r) == Key(r.text, r.source)
KeysOf(rows) == {KeyOf(r) : r \in rows}
IdsOf(rows) == {r.id : r \in rows}

Ingest(items, cap) == [op |-> "ingest", items |-> items, cap |-> cap]
Update(id, t, s) == [op |-> "update", id |-> id, text |-> t, source |-> s]
Forget(by, val) == [op |-> "forget", by |-> by, val |-> val]
Query == [op |-> "query"]
Listing == [op |-> "list"]

Answer(is, n, m, rows) == [is |-> is, n |-> n, m |-> m, rows |-> rows]
Silence == Answer("none", 0, 0, {})
Failed == Answer("failed", 0, 0, {})

Idle ==
    [n |-> 0, pass |-> 0, phase |-> "idle", req |-> Query, todo |-> <<>>,
     skipped |-> 0, snap |-> {}, got |-> Silence]

AtMost(n, S) == IF Cardinality(S) < n THEN Cardinality(S) ELSE n

\* The items that are neither stored nor repeat an earlier item, by their place.
NewItems(items, existing) ==
    {i \in DOMAIN items : /\ items[i] \notin existing
                          /\ \A j \in 1 .. i - 1 : items[j] # items[i]}

UpTo(S, i) == Cardinality({j \in S : j <= i})

\* The first cap of the places in new.
FirstOf(items, new, cap) ==
    [n \in 1 .. AtMost(cap, new) |-> items[CHOOSE i \in new : UpTo(new, i) = n]]

\* Deferred items counted among the skipped ones.
partitionSkippingDeferred(items, existing, cap) ==                   \* mutant
    LET new == NewItems(items, existing)
    IN  [todo |-> FirstOf(items, new, cap), skipped |-> Len(items) - AtMost(cap, new)]

\* What to embed, and how many are already stored or repeat an earlier item; the
\* new ones past the cap are deferred.
partition(items, existing, cap) ==
    LET new == NewItems(items, existing)
    IN  [todo |-> FirstOf(items, new, cap), skipped |-> Len(items) - Cardinality(new)]

\* Each attempt of a call to store an item mints an id of its own.
MintedRow(c, k) ==
    [id |-> <<c, call[c].n, call[c].pass, k>>, text |-> k.text,
     source |-> k.source]

Selected(req, rows) ==
    {r \in rows : CASE req.by = "id" -> r.id = req.val
                    [] req.by = "source" -> r.source = req.val
                    [] OTHER -> TRUE}

\* The row an update leaves behind.
Changed(req, r) ==
    [r EXCEPT !.text = IF req.text = UNSET THEN @ ELSE req.text,
              !.source = IF req.source = UNSET THEN @ ELSE req.source]

\* Some other row already has the key the update asks for.
Clashes(req, r, rows) == KeyOf(Changed(req, r)) \in KeysOf(rows \ {r})

Dark(r) == r.source = DIGEST_SOURCE /\ ~digest_retrieval
InScope(r) == Scope[r.text] # "miss"

NearestFirst(S, A) == \A a \in A, b \in S \ A : Rank[a.text] <= Rank[b.text]

\* The k nearest of S: one set, up to ties.
Nearest(S, k) ==
    {A \in SUBSET S : Cardinality(A) = AtMost(k, S) /\ NearestFirst(S, A)}

-----------------------------------------------------------------------------

Ends(c, got) ==
    call' = [call EXCEPT ![c].phase = "ended", ![c].got = got, ![c].snap = {},
                         ![c].todo = <<>>, ![c].skipped = 0]

Busy(c) == call[c].phase \in {"pending", "looked"}

Remaining(c) == Len(call[c].req.items) - call[c].got.n - call[c].got.m

Stored(c) ==
    call[c].phase = "ended" /\ call[c].req.op = "ingest" /\ call[c].got.is = "stored"

\* The batch is sent again while it makes progress, at most two times more
\* often than it has items.
DrainDue(c) ==
    /\ Stored(c)
    /\ Remaining(c) > 0
    /\ call[c].got.n > 0
    /\ call[c].pass < Len(call[c].req.items) + 2

Begin(c) ==
    /\ call[c].phase \in {"idle", "ended"}
    /\ ~DrainDue(c)
    /\ call[c].n < MaxCalls
    /\ \E req \in Requests :
         call' = [call EXCEPT ![c] =
                    [Idle EXCEPT !.n = call[c].n + 1, !.pass = 1,
                                 !.phase = "pending", !.req = req]]

SendAgain(c) ==
    /\ DrainDue(c)
    /\ call' = [call EXCEPT ![c].phase = "pending", ![c].pass = @ + 1,
                            ![c].got = Silence]

\* The first look of an ingest: what is stored is neither embedded nor sent.
LooksAt(c, rows) ==
    LET p == partition(call[c].req.items, KeysOf(rows), call[c].req.cap)
    IN  call' = [call EXCEPT ![c].phase = "looked", ![c].todo = p.todo,
                             ![c].skipped = p.skipped]

Sees(c, window) ==
    call' = [call EXCEPT ![c].phase = "looked", ![c].got.rows = window]

\* A query reports the best of what it saw, a listing all of it.
Finds(c) ==
    /\ call[c].phase = "looked"
    /\ \/ /\ call[c].req.op = "query"
          /\ \E best \in Nearest({r \in call[c].got.rows : InScope(r)}, top_k) :
               Ends(c, Answer("found", 0, 0, best))
       \/ /\ call[c].req.op = "list"
          /\ Ends(c, Answer("found", 0, 0, call[c].got.rows))

\* A batch told to be drained has had every item in the store, then or before.
DrainedIsStored ==
    \A c \in Callers :
        Stored(c) /\ Remaining(c) = 0 =>
            \A i \in DOMAIN call[c].req.items : call[c].req.items[i] \in ever

=============================================================================

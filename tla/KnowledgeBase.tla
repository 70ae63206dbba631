---------------------------- MODULE KnowledgeBase ----------------------------
(***************************************************************************)
(* What a knowledge store promises its callers (the Store protocol of      *)
(* sidecar/stores.py): a table of learnings on which a call takes effect   *)
(* in one step, once, whatever else is going on, and a caller that hears   *)
(* nothing but a failure does not know whether it did.  There is no file,  *)
(* no transaction, no embedding and no retry here.                         *)
(***************************************************************************)
EXTENDS KnowledgeCalls

VARIABLE rows

kbVars == <<rows, call, ever>>

BaseInit == call = [c \in Callers |-> Idle] /\ ever = KeysOf(rows)

Is(c, phase, op) == call[c].phase = phase /\ call[c].req.op = op

BaseLook(c) == Is(c, "pending", "ingest") /\ LooksAt(c, rows) /\ UNCHANGED rows

\* An item somebody else stored in the meantime is skipped.
BaseSkip(c) ==
    /\ Is(c, "looked", "ingest")
    /\ \E i \in DOMAIN call[c].todo :
         /\ call[c].todo[i] \in KeysOf(rows)
         /\ call' = [call EXCEPT ![c].todo = RemoveAt(@, i), ![c].skipped = @ + 1]
    /\ UNCHANGED rows

BaseStore(c) ==
    /\ Is(c, "looked", "ingest")
    /\ LET todo == call[c].todo
           new == Range(todo) \ KeysOf(rows)
           told == Answer("stored", Cardinality(new),
                          call[c].skipped + Len(todo) - Cardinality(new), {})
       IN  /\ rows' = rows \cup {MintedRow(c, k) : k \in new}
           /\ Ends(c, told) \/ Ends(c, Failed)

BaseUpdate(c) ==
    /\ Is(c, "pending", "update")
    /\ LET req == call[c].req
           mine == {r \in rows : r.id = req.id}
       IN  \/ /\ mine = {}
              /\ Ends(c, Answer("absent", 0, 0, {}))
              /\ UNCHANGED rows
           \/ \E r \in mine :
                \/ /\ Clashes(req, r, rows)
                   /\ Ends(c, Answer("duplicate", 0, 0, {}))
                   /\ UNCHANGED rows
                \/ /\ ~Clashes(req, r, rows)
                   /\ rows' = (rows \ {r}) \cup {Changed(req, r)}
                   /\ \/ Ends(c, Answer("updated", 0, 0, {Changed(req, r)}))
                      \/ Ends(c, Failed)

\* A deletion chooses its rows at one instant ...
BaseSelect(c) ==
    /\ Busy(c) /\ call[c].req.op = "forget"
    /\ call' = [call EXCEPT ![c].phase = "looked",
                            ![c].snap = IdsOf(Selected(call[c].req, rows))]
    /\ UNCHANGED rows

\* ... and removes the ones that still match.
BaseRemove(c) ==
    /\ Is(c, "looked", "forget")
    /\ LET gone == {r \in Selected(call[c].req, rows) : r.id \in call[c].snap}
       IN  /\ rows' = rows \ gone
           /\ Ends(c, Answer("deleted", Cardinality(gone), 0, {})) \/ Ends(c, Failed)

\* A query sees the nearest rows that are not dark: at least candidate_k of
\* them when there are that many.
Window(S) ==
    {A \in SUBSET S : Cardinality(A) >= AtMost(candidate_k, S) /\ NearestFirst(S, A)}

\* A listing sees every row.
BaseList(c) == Is(c, "pending", "list") /\ Sees(c, rows) /\ UNCHANGED rows

BaseFind(c) ==
    /\ Is(c, "pending", "query")
    /\ \E window \in Window({r \in rows : ~Dark(r)}) : Sees(c, window)
    /\ UNCHANGED rows

\* It may look a second time, at the scoped rows only; a row seen twice is
\* reported as it was seen last.
BaseFindScoped(c) ==
    /\ Is(c, "looked", "query")
    /\ \E scoped \in Nearest({r \in rows : ~Dark(r) /\ Scope[r.text] # "all"},
                             candidate_k) :
         Sees(c, {r \in call[c].got.rows : r.id \notin IdsOf(scoped)} \cup scoped)
    /\ UNCHANGED rows

BaseFound(c) ==
    /\ Finds(c)
    /\ UNCHANGED rows

BaseFail(c) == Busy(c) /\ Ends(c, Failed) /\ UNCHANGED rows

BaseAsk(c) == (Begin(c) \/ SendAgain(c)) /\ UNCHANGED rows

BaseNext ==
    /\ \E c \in Callers :
         \/ BaseAsk(c) \/ BaseLook(c) \/ BaseSkip(c) \/ BaseStore(c)
         \/ BaseUpdate(c) \/ BaseSelect(c) \/ BaseRemove(c) \/ BaseList(c)
         \/ BaseFind(c) \/ BaseFindScoped(c) \/ BaseFound(c) \/ BaseFail(c)
    /\ ever' = ever \cup KeysOf(rows')

\* An answer is the state of the table when the call took effect, and a call
\* takes effect at most once: the table changes only as a call ends.
BaseSpec == BaseInit /\ [][BaseNext]_kbVars

=============================================================================

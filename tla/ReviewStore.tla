---------------------------- MODULE ReviewStore ----------------------------
(***************************************************************************)
(* The primitives of sidecar/review_state.py: the two tables of the review *)
(* ledger (review_findings, review_coverage) and the statements that read  *)
(* and write them.  A table is a sequence of rows in insertion order, a    *)
(* row's id is its index.  Each write operator returns the table after the *)
(* statement; whether the statement is reached and whether its answer is   *)
(* seen is the caller's business (module ReviewLedger).                    *)
(*                                                                         *)
(* Times are ticks of the store's clock.  `horizon' stands for             *)
(* now() - RETENTION_DAYS: a row is inside the retention window when its   *)
(* timestamp is greater.  A ledger is modelled for one (repo, pr), so a    *)
(* lane is a seat.                                                         *)
(***************************************************************************)
EXTENDS Naturals, Sequences, FiniteSets

FINDING_STATUSES == {"open", "fixed", "rejected", "stale"}

\* What a verdict closed, and therefore what a published claim may re-raise.
REOPENABLE_STATUSES == {"fixed", "rejected"}

\* The row record_findings inserts for one claim.
NewFinding(seat, round, head, claim, now) ==
    [seat |-> seat, round |-> round, head |-> head, claim |-> claim,
     status |-> "open", reopened |-> 0, updated |-> now]

\* The row record_coverage inserts for one examined region.
NewCoverage(seat, round, head, region, now) ==
    [seat |-> seat, round |-> round, head |-> head, file |-> region.file,
     hollow |-> region.hollow, expired |-> FALSE, created |-> now]

-----------------------------------------------------------------------------
(* Reads.  A read returns a set of row ids; the ORDER BY of the statement   *)
(* decides which ones its LIMIT keeps.                                      *)

\* ORDER BY round, created_at, id.  The index is the insertion order, and
\* siblings of one insert are ordered by id: arbitrarily but fixedly.
Older(t, i, j) ==
    \/ t[i].round < t[j].round
    \/ t[i].round = t[j].round /\ i < j

\* ORDER BY updated_at DESC, id DESC.
SettledLater(t, i, j) ==
    \/ t[i].updated > t[j].updated
    \/ t[i].updated = t[j].updated /\ i > j

OpenRows(t, seat, horizon) ==
    {i \in DOMAIN t : /\ t[i].seat = seat
                      /\ t[i].status = "open"
                      /\ t[i].updated > horizon}

SettledRows(t, seat, horizon) ==
    {i \in DOMAIN t : /\ t[i].seat = seat
                      /\ t[i].status \in REOPENABLE_STATUSES
                      /\ t[i].updated > horizon}

LiveRowsOfAnyTree(c, seat, horizon) ==                                  \* mutant
    {i \in DOMAIN c : c[i].seat = seat /\ c[i].created > horizon}

LiveRows(c, seat, horizon) ==
    {i \in DOMAIN c : /\ c[i].seat = seat
                      /\ ~c[i].expired
                      /\ c[i].created > horizon}

\* The oldest `limit' open rows.
open_findings(t, seat, horizon, limit) ==
    LET rows == OpenRows(t, seat, horizon)
    IN  {i \in rows : Cardinality({j \in rows : Older(t, j, i)}) < limit}

\* The `limit' most recently closed rows a verdict closed.
settled_findings(t, seat, horizon, limit) ==
    LET rows == SettledRows(t, seat, horizon)
    IN  {i \in rows : Cardinality({j \in rows : SettledLater(t, j, i)}) < limit}

\* The `limit' newest unexpired coverage rows.
live_coverage(c, seat, horizon, limit) ==
    LET rows == LiveRows(c, seat, horizon)
    IN  {i \in rows : Cardinality({j \in rows : Older(c, i, j)}) < limit}

\* The label after those in use; 1 when none is.
TopPlusOne(used) ==
    IF used = {} THEN 1 ELSE (CHOOSE n \in used : \A m \in used : m <= n) + 1

next_round_findings(t, c, seat) ==                                      \* mutant
    TopPlusOne({t[i].round : i \in {k \in DOMAIN t : t[k].seat = seat}})

\* coalesce(max(round), 0) + 1 over every row of the lane in both tables.
next_round(t, c, seat) ==
    LET used == {t[i].round : i \in {k \in DOMAIN t : t[k].seat = seat}}
                  \cup {c[i].round : i \in {k \in DOMAIN c : c[k].seat = seat}}
    IN  TopPlusOne(used)

-----------------------------------------------------------------------------
(* Writes.                                                                  *)

\* Whether the UPDATE of transition, reopen and touch_findings matches row i.
Matches(t, seat, i, statuses) ==
    /\ i \in DOMAIN t
    /\ t[i].seat = seat
    /\ t[i].status \in statuses

\* The SET clauses.
Closed(row, status, now) == [row EXCEPT !.status = status, !.updated = now]
Reopened(row, now) ==
    [row EXCEPT !.status = "open", !.reopened = row.reopened + 1, !.updated = now]
Touched(row, now) == [row EXCEPT !.updated = now]
Expired(row) == [row EXCEPT !.expired = TRUE]

transition(t, seat, id, status, now) ==
    [i \in DOMAIN t |-> IF i = id /\ Matches(t, seat, i, {"open"})
                        THEN Closed(t[i], status, now) ELSE t[i]]

reopen(t, seat, id, now) ==
    [i \in DOMAIN t |-> IF i = id /\ Matches(t, seat, i, REOPENABLE_STATUSES)
                        THEN Reopened(t[i], now) ELSE t[i]]

touch_findings(t, seat, ids, now) ==
    [i \in DOMAIN t |-> IF i \in ids /\ Matches(t, seat, i, {"open"})
                        THEN Touched(t[i], now) ELSE t[i]]

\* One transaction: the claims become consecutive rows with one timestamp.
record_findings(t, seat, round, head, claims, now) ==
    t \o [k \in DOMAIN claims |-> NewFinding(seat, round, head, claims[k], now)]

record_coverage(c, seat, round, head, regions, now) ==
    c \o [k \in DOMAIN regions |-> NewCoverage(seat, round, head, regions[k], now)]

\* An empty set of files expires nothing.
expire_coverage_of_all(c, seat, files) ==                               \* mutant
    [i \in DOMAIN c |-> IF c[i].file \in files THEN Expired(c[i]) ELSE c[i]]

expire_coverage(c, seat, files) ==
    [i \in DOMAIN c |-> IF c[i].seat = seat /\ c[i].file \in files
                        THEN Expired(c[i]) ELSE c[i]]
=============================================================================

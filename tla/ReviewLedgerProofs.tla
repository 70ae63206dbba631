-------------------------- MODULE ReviewLedgerProofs -------------------------
(***************************************************************************)
(* Theorems about ReviewLedger for every number of jobs, seats, claims and *)
(* files.  Type correctness, lane isolation and the lifecycle of a row     *)
(* hold when jobs overlap and calls degrade; what the ledger keeps for the *)
(* rounds to come, while the concurrency group keeps the jobs of one pull  *)
(* request apart.                                                          *)
(*                                                                         *)
(* The invariant the latter rest on says what a branch has in hand: which  *)
(* of the ids it carries from call to call still address open rows of its  *)
(* seat, and which of the findings it published are already placed on one. *)
(* It is stable because the branches at work are of one job, so that       *)
(* nobody else writes to a working branch's seat.                          *)
(***************************************************************************)
EXTENDS ReviewLedger, SequenceTheorems, FiniteSetTheorems, WellFoundedInduction, TLAPS

-----------------------------------------------------------------------------
(* What the write statements do to a row and to a table.                   *)

\* The fields no statement ever changes.
SameClaim(x, y) == x.claim = y.claim /\ x.seat = y.seat /\ x.round = y.round

LEMMA ClosedRow ==
    ASSUME NEW x \in Finding, NEW n \in Nat, NEW st \in FINDING_STATUSES
    PROVE  /\ Closed(x, st, n) \in Finding
           /\ Closed(x, st, n).status = st
           /\ Closed(x, st, n).reopened = x.reopened
           /\ SameClaim(x, Closed(x, st, n))
BY DEF Finding, Closed, SameClaim

LEMMA ReopenedRow ==
    ASSUME NEW x \in Finding, NEW n \in Nat
    PROVE  /\ Reopened(x, n) \in Finding
           /\ Reopened(x, n).status = "open"
           /\ Reopened(x, n).reopened = x.reopened + 1
           /\ Reopened(x, n).updated = n
           /\ SameClaim(x, Reopened(x, n))
<1> DEFINE k == x.reopened + 1
<1>1. k \in Nat /\ "open" \in FINDING_STATUSES
  BY DEF Finding, FINDING_STATUSES
<1> HIDE DEF k
<1>2. LET y == [x EXCEPT !.status = "open", !.reopened = k, !.updated = n]
      IN  /\ y \in Finding /\ y.status = "open" /\ y.reopened = k /\ y.updated = n
          /\ SameClaim(x, y)
  BY <1>1 DEF Finding, SameClaim
<1>3. QED
  BY <1>2 DEF Reopened, k

LEMMA TouchedRow ==
    ASSUME NEW x \in Finding, NEW n \in Nat
    PROVE  /\ Touched(x, n) \in Finding
           /\ Touched(x, n).status = x.status
           /\ Touched(x, n).reopened = x.reopened
           /\ Touched(x, n).updated = n
           /\ SameClaim(x, Touched(x, n))
BY DEF Finding, Touched, SameClaim

LEMMA CoverageUpdate ==
    ASSUME NEW x \in Coverage
    PROVE  Expired(x) \in Coverage /\ Expired(x).seat = x.seat
BY DEF Coverage, Expired

LEMMA RowOf ==
    ASSUME NEW S, NEW t \in Seq(S), NEW i \in DOMAIN t
    PROVE  t[i] \in S /\ i \in Nat /\ i # 0
BY LenProperties, ElementOfSeq

LEMMA TransitionTable ==
    ASSUME NEW t \in Seq(Finding), NEW s, NEW id, NEW st \in FINDING_STATUSES,
           NEW n \in Nat
    PROVE  /\ transition(t, s, id, st, n) \in Seq(Finding)
           /\ DOMAIN transition(t, s, id, st, n) = DOMAIN t
<1> DEFINE u == transition(t, s, id, st, n)
<1>1. u \in [DOMAIN t -> Finding]
  BY RowOf, ClosedRow DEF transition
<1>2. QED
  BY <1>1, LenProperties, SeqDef

LEMMA ReopenTable ==
    ASSUME NEW t \in Seq(Finding), NEW s, NEW id, NEW n \in Nat
    PROVE  /\ reopen(t, s, id, n) \in Seq(Finding)
           /\ DOMAIN reopen(t, s, id, n) = DOMAIN t
<1> DEFINE u == reopen(t, s, id, n)
<1>1. u \in [DOMAIN t -> Finding]
  BY RowOf, ReopenedRow DEF reopen
<1>2. QED
  BY <1>1, LenProperties, SeqDef

LEMMA TouchTable ==
    ASSUME NEW t \in Seq(Finding), NEW s, NEW ids, NEW n \in Nat
    PROVE  /\ touch_findings(t, s, ids, n) \in Seq(Finding)
           /\ DOMAIN touch_findings(t, s, ids, n) = DOMAIN t
<1> DEFINE u == touch_findings(t, s, ids, n)
<1>1. u \in [DOMAIN t -> Finding]
  BY RowOf, TouchedRow DEF touch_findings
<1>2. QED
  BY <1>1, LenProperties, SeqDef

LEMMA ExpireTable ==
    ASSUME NEW c \in Seq(Coverage), NEW s, NEW fs
    PROVE  /\ expire_coverage(c, s, fs) \in Seq(Coverage)
           /\ DOMAIN expire_coverage(c, s, fs) = DOMAIN c
<1> DEFINE u == expire_coverage(c, s, fs)
<1>1. u \in [DOMAIN c -> Coverage]
  BY RowOf, CoverageUpdate DEF expire_coverage
<1>2. QED
  BY <1>1, LenProperties, SeqDef

\* Appending rows keeps the old ones in place.
LEMMA AppendRows ==
    ASSUME NEW S, NEW t \in Seq(S), NEW u \in Seq(S)
    PROVE  /\ t \o u \in Seq(S)
           /\ DOMAIN t \subseteq DOMAIN (t \o u)
           /\ \A i \in DOMAIN t : (t \o u)[i] = t[i]
           /\ \A i \in DOMAIN (t \o u) :
                i \notin DOMAIN t => \E k \in DOMAIN u : (t \o u)[i] = u[k]
           /\ \A k \in DOMAIN u :
                /\ Len(t) + k \in DOMAIN (t \o u)
                /\ (t \o u)[Len(t) + k] = u[k]
<1>1. /\ t \o u \in Seq(S) /\ Len(t \o u) = Len(t) + Len(u)
      /\ Len(t) \in Nat /\ Len(u) \in Nat
      /\ DOMAIN t = 1..Len(t) /\ DOMAIN u = 1..Len(u)
      /\ DOMAIN (t \o u) = 1..(Len(t) + Len(u))
  BY ConcatProperties, LenProperties
<1>2. \A i \in 1 .. Len(t) + Len(u) :
         (t \o u)[i] = IF i <= Len(t) THEN t[i] ELSE u[i - Len(t)]
  BY ConcatProperties
<1>3. \A i \in DOMAIN (t \o u) :
         i \notin DOMAIN t => i - Len(t) \in DOMAIN u /\ (t \o u)[i] = u[i - Len(t)]
  BY <1>1, <1>2
<1>4. \A k \in DOMAIN u : Len(t) + k \in 1 .. Len(t) + Len(u) /\ ~(Len(t) + k <= Len(t))
                          /\ Len(t) + k - Len(t) = k
  BY <1>1
<1>5. \A k \in DOMAIN u : (t \o u)[Len(t) + k] = u[k]
  BY <1>2, <1>4
<1>6. QED
  BY <1>1, <1>2, <1>3, <1>4, <1>5

\* The rows one insert adds.
InsertedFindings(s, rd, h, cs, n) == [k \in DOMAIN cs |-> NewFinding(s, rd, h, cs[k], n)]
InsertedCoverage(s, rd, h, rs, n) == [k \in DOMAIN rs |-> NewCoverage(s, rd, h, rs[k], n)]

LEMMA RecordRows ==
    ASSUME NEW s \in Seats, NEW rd \in Nat, NEW h \in Jobs,
           NEW cs \in Seq(Claims), NEW n \in Nat
    PROVE  LET u == InsertedFindings(s, rd, h, cs, n)
           IN  /\ u \in Seq(Finding)
               /\ DOMAIN u = DOMAIN cs
               /\ \A k \in DOMAIN u : u[k].seat = s /\ u[k].claim = cs[k]
                                      /\ u[k].status = "open" /\ u[k].updated = n
<1> DEFINE u == [k \in DOMAIN cs |-> NewFinding(s, rd, h, cs[k], n)]
<1>1. \A c \in Claims : NewFinding(s, rd, h, c, n) \in Finding
  BY DEF NewFinding, Finding, FINDING_STATUSES
<1>2. \A k \in DOMAIN cs : u[k] \in Finding
  BY <1>1, RowOf
<1>3. Len(cs) \in Nat /\ DOMAIN cs = 1..Len(cs)
  BY LenProperties
<1>4. u \in [1..Len(cs) -> Finding]
  BY <1>2, <1>3
<1>5. u \in Seq(Finding)
  BY <1>3, <1>4, SeqDef
<1>6. QED
  BY <1>5 DEF NewFinding, InsertedFindings

LEMMA RecordCoverageRows ==
    ASSUME NEW s \in Seats, NEW rd \in Nat, NEW h \in Jobs,
           NEW rs \in Seq(Regions), NEW n \in Nat
    PROVE  /\ InsertedCoverage(s, rd, h, rs, n) \in Seq(Coverage)
           /\ \A k \in DOMAIN InsertedCoverage(s, rd, h, rs, n) :
                 InsertedCoverage(s, rd, h, rs, n)[k].seat = s
<1> DEFINE u == [k \in DOMAIN rs |-> NewCoverage(s, rd, h, rs[k], n)]
<1>1. \A x \in Regions : NewCoverage(s, rd, h, x, n) \in Coverage
  BY DEF NewCoverage, Coverage, Regions
<1>2. \A k \in DOMAIN rs : u[k] \in Coverage
  BY <1>1, RowOf
<1>3. Len(rs) \in Nat /\ DOMAIN rs = 1..Len(rs)
  BY LenProperties
<1>4. u \in [1..Len(rs) -> Coverage]
  BY <1>2, <1>3
<1>5. u \in Seq(Coverage)
  BY <1>3, <1>4, SeqDef
<1>6. QED
  BY <1>5 DEF NewCoverage, InsertedCoverage

-----------------------------------------------------------------------------
(* The greatest element of a finite set under a total order, which is what *)
(* a `latest row' and a `max(round)' are.                                  *)

IsTop(T, R, x) == x \in T /\ \A y \in T : y = x \/ <<y, x>> \in R

LEMMA FiniteTop ==
    ASSUME NEW S, IsFiniteSet(S), S # {}, NEW R,
           \A x, y \in S : x = y \/ <<x, y>> \in R \/ <<y, x>> \in R,
           \A x, y, z \in S : <<x, y>> \in R /\ <<y, z>> \in R => <<x, z>> \in R
    PROVE  \E x \in S : IsTop(S, R, x)
<1> DEFINE Topless == {T \in SUBSET S : T # {} /\ ~ \E x \in T : IsTop(T, R, x)}
<1>1. SUFFICES ASSUME S \in Topless PROVE FALSE
  OBVIOUS
<1>2. Topless \subseteq FiniteSubsetsOf(S)
  BY FS_FiniteSubsetsOfFinite
<1>3. PICK T \in Topless :
         \A U \in Topless : ~(<<U, T>> \in StrictSubsetOrdering(S))
  <2> HIDE DEF Topless
  <2>1. QED
    BY <1>1, <1>2, WFMin, FS_StrictSubsetOrderingWellFounded
<1>4. PICK x \in T : TRUE
  OBVIOUS
<1> DEFINE U == T \ {x}
<1>5. CASE U = {}
  <2>1. IsTop(T, R, x)
    BY <1>5 DEF IsTop
  <2>2. QED
    BY <2>1
<1>6. CASE U # {}
  <2>1. <<U, T>> \in StrictSubsetOrdering(S)
    BY DEF StrictSubsetOrdering
  <2>2. U \notin Topless
    BY <1>3, <2>1
  <2>3. PICK y \in U : IsTop(U, R, y)
    BY <1>6, <2>2
  <2>4. IsTop(T, R, x) \/ IsTop(T, R, y)
    BY <2>3 DEF IsTop
  <2>5. QED
    BY <2>3, <2>4
<1>7. QED
  BY <1>5, <1>6

\* The labels a lane has in use.
RoundsUsed(t, c, seat) ==
    {t[i].round : i \in {k \in DOMAIN t : t[k].seat = seat}}
      \cup {c[i].round : i \in {k \in DOMAIN c : c[k].seat = seat}}

\* If there are any, one is the greatest.
LEMMA GreatestRound ==
    ASSUME NEW t \in Seq(Finding), NEW c \in Seq(Coverage), NEW seat
    PROVE  LET used == RoundsUsed(t, c, seat)
           IN  used \subseteq Nat /\ (used # {} => \E n \in used : \A m \in used : m <= n)
<1> DEFINE D == {k \in DOMAIN t : t[k].seat = seat}
           E == {k \in DOMAIN c : c[k].seat = seat}
           A == {t[i].round : i \in D}
           B == {c[i].round : i \in E}
           used == A \cup B
           R == {p \in Nat \X Nat : p[1] < p[2]}
<1>1. IsFiniteSet(D) /\ IsFiniteSet(E)
  <2>1. /\ Len(t) \in Nat /\ D \in SUBSET (1..Len(t))
        /\ Len(c) \in Nat /\ E \in SUBSET (1..Len(c))
    BY LenProperties
  <2>2. IsFiniteSet(1..Len(t)) /\ IsFiniteSet(1..Len(c))
    BY <2>1, FS_Interval
  <2> HIDE DEF D, E
  <2>3. QED
    BY <2>1, <2>2, FS_Subset
<1>2. A \subseteq Nat /\ B \subseteq Nat
  <2>1. /\ \A i \in D : t[i] \in Finding
        /\ \A i \in E : c[i] \in Coverage
    BY RowOf
  <2>2. /\ \A x \in Finding : x.round \in Nat
        /\ \A x \in Coverage : x.round \in Nat
    BY DEF Finding, Coverage
  <2>3. QED
    BY <2>1, <2>2
<1>3. IsFiniteSet(A)
  <2> DEFINE f == [i \in D |-> t[i].round]
  <2>1. f \in Surjection(D, A)
    BY DEF Surjection
  <2> HIDE DEF f, D, A
  <2>2. QED
    BY <1>1, <2>1, FS_Surjection
<1>4. IsFiniteSet(B)
  <2> DEFINE f == [i \in E |-> c[i].round]
  <2>1. f \in Surjection(E, B)
    BY DEF Surjection
  <2> HIDE DEF f, E, B
  <2>2. QED
    BY <1>1, <2>1, FS_Surjection
<1>5. IsFiniteSet(used) /\ used \subseteq Nat
  <2> HIDE DEF A, B
  <2>1. QED
    BY <1>2, <1>3, <1>4, FS_Union
<1> HIDE DEF used
<1>6. ASSUME used # {} PROVE \E n \in used : \A m \in used : m <= n
  <2>1. /\ \A x, y \in used : x = y \/ <<x, y>> \in R \/ <<y, x>> \in R
        /\ \A x, y, z \in used : <<x, y>> \in R /\ <<y, z>> \in R => <<x, z>> \in R
        /\ \A x, y \in used : <<x, y>> \in R => x <= y
    BY <1>5
  <2> HIDE DEF R
  <2>2. PICK n \in used : IsTop(used, R, n)
    BY <1>5, <1>6, <2>1, FiniteTop
  <2>3. n <= n
    BY <1>5
  <2>4. \A m \in used : m <= n
    BY <2>1, <2>2, <2>3 DEF IsTop
  <2>5. QED
    BY <2>4
<1>7. used = RoundsUsed(t, c, seat)
  BY DEF used, RoundsUsed
<1>8. QED
  BY <1>5, <1>6, <1>7

\* So next_round is a natural number.
LEMMA NextRoundType ==
    ASSUME NEW t \in Seq(Finding), NEW c \in Seq(Coverage), NEW seat
    PROVE  next_round(t, c, seat) \in Nat
<1> DEFINE used == RoundsUsed(t, c, seat)
<1>1. used \subseteq Nat /\ (used # {} => \E n \in used : \A m \in used : m <= n)
  BY GreatestRound
<1>2. next_round(t, c, seat)
        = IF used = {} THEN 1 ELSE (CHOOSE n \in used : \A m \in used : m <= n) + 1
  BY DEF next_round, TopPlusOne, RoundsUsed
<1> HIDE DEF used
<1>3. CASE used # {}
  <2> DEFINE last == CHOOSE k \in used : \A m \in used : m <= k
  <2>1. last \in Nat
    BY <1>1, <1>3
  <2>2. next_round(t, c, seat) = last + 1
    BY <1>2, <1>3
  <2> HIDE DEF last
  <2>3. QED
    BY <2>1, <2>2
<1>4. QED
  BY <1>2, <1>3

\* The rows of one claim have a latest one, in either order of the reads.
LEMMA LatestRow ==
    ASSUME findings \in Seq(Finding), NEW rows \in SUBSET DOMAIN findings
    PROVE  /\ rows = {} => LatestOf(rows) = 0 /\ LastClosedOf(rows) = 0
           /\ rows # {} => LatestOf(rows) \in rows /\ LastClosedOf(rows) \in rows
<1> DEFINE R == {p \in rows \X rows : Older(findings, p[1], p[2])}
           Q == {p \in rows \X rows : SettledLater(findings, p[2], p[1])}
<1>1. IsFiniteSet(rows)
  <2>1. rows \in SUBSET (1..Len(findings)) /\ Len(findings) \in Nat
    BY LenProperties
  <2>2. QED
    BY <2>1, FS_Interval, FS_Subset
<1>2. \A i \in rows : i \in Nat /\ findings[i].round \in Nat /\ findings[i].updated \in Nat
  <2>1. \A i \in rows : i \in Nat /\ findings[i] \in Finding
    BY RowOf
  <2>2. \A x \in Finding : x.round \in Nat /\ x.updated \in Nat
    BY DEF Finding
  <2>3. QED
    BY <2>1, <2>2
<1>3. /\ \A x, y \in rows : x = y \/ <<x, y>> \in R \/ <<y, x>> \in R
      /\ \A x, y, z \in rows : <<x, y>> \in R /\ <<y, z>> \in R => <<x, z>> \in R
      /\ \A x, y \in rows : <<x, y>> \in R => Older(findings, x, y)
  BY <1>2 DEF Older
<1>4. /\ \A x, y \in rows : x = y \/ <<x, y>> \in Q \/ <<y, x>> \in Q
      /\ \A x, y, z \in rows : <<x, y>> \in Q /\ <<y, z>> \in Q => <<x, z>> \in Q
      /\ \A x, y \in rows : <<x, y>> \in Q => SettledLater(findings, y, x)
  BY <1>2 DEF SettledLater
<1> HIDE DEF R, Q
<1>5. CASE rows # {}
  <2>1. PICK x \in rows : IsTop(rows, R, x)
    BY <1>1, <1>3, <1>5, FiniteTop
  <2>2. \A j \in rows : j = x \/ Older(findings, j, x)
    BY <1>3, <2>1 DEF IsTop
  <2>3. LatestOf(rows) \in rows
    BY <1>5, <2>2 DEF LatestOf
  <2>4. PICK y \in rows : IsTop(rows, Q, y)
    BY <1>1, <1>4, <1>5, FiniteTop
  <2>5. \A j \in rows : j = y \/ SettledLater(findings, y, j)
    BY <1>4, <2>4 DEF IsTop
  <2>6. LastClosedOf(rows) \in rows
    BY <1>5, <2>5 DEF LastClosedOf
  <2>7. QED
    BY <1>5, <2>3, <2>6
<1>6. CASE rows = {}
  BY <1>6 DEF LatestOf, LastClosedOf
<1>7. QED
  BY <1>5, <1>6

-----------------------------------------------------------------------------
(* Type correctness *)

LEMMA RunsOf ==
    ASSUME NEW r \in Runs
    PROVE  JobOf(r) \in Jobs /\ SeatOf(r) \in Seats
BY DEF Runs, JobOf, SeatOf

LEMMA OutcomeType ==
    ASSUME TypeOK, NEW r \in Runs, NEW o \in Outcomes,
           Outcome(r, o) \/ UNCHANGED <<down, faults>>
    PROVE  down' \in [Jobs -> BOOLEAN] /\ faults' \in 0..MaxFaults
<1>1. CASE UNCHANGED <<down, faults>>
  BY <1>1 DEF TypeOK
<1>2. CASE Outcome(r, o)
  BY <1>2, RunsOf, LedgerConstants DEF TypeOK, Outcome, Unreachable
<1>3. QED
  BY <1>1, <1>2

LEMMA BatchOutcomeType ==
    ASSUME TypeOK, NEW r \in Runs, NEW o \in Outcomes, NEW e,
           BatchOutcome(r, e, o)
    PROVE  down' \in [Jobs -> BOOLEAN] /\ faults' \in 0..MaxFaults
BY OutcomeType DEF BatchOutcome

LEMMA WriteFindingsType ==
    ASSUME TypeOK, NEW o \in Outcomes, NEW t \in Seq(Finding),
           DOMAIN findings \subseteq DOMAIN t, WriteFindings(o, t)
    PROVE  /\ findings' \in Seq(Finding) /\ coverage' \in Seq(Coverage)
           /\ now' \in Nat /\ horizon' \in Nat
           /\ DOMAIN findings \subseteq DOMAIN findings'
           /\ DOMAIN coverage \subseteq DOMAIN coverage'
BY DEF TypeOK, WriteFindings

LEMMA WriteCoverageType ==
    ASSUME TypeOK, NEW o \in Outcomes, NEW c \in Seq(Coverage),
           DOMAIN coverage \subseteq DOMAIN c, WriteCoverage(o, c)
    PROVE  /\ findings' \in Seq(Finding) /\ coverage' \in Seq(Coverage)
           /\ now' \in Nat /\ horizon' \in Nat
           /\ DOMAIN findings \subseteq DOMAIN findings'
           /\ DOMAIN coverage \subseteq DOMAIN coverage'
BY DEF TypeOK, WriteCoverage

LEMMA ReadOnlyType ==
    ASSUME TypeOK, ReadOnly
    PROVE  /\ findings' \in Seq(Finding) /\ coverage' \in Seq(Coverage)
           /\ now' \in Nat /\ horizon' \in Nat
           /\ DOMAIN findings \subseteq DOMAIN findings'
           /\ DOMAIN coverage \subseteq DOMAIN coverage'
BY DEF TypeOK, ReadOnly

\* Growing tables keep every id valid.
LEMMA RefsGrow ==
    ASSUME NEW s \in RunState, Refs(s),
           DOMAIN findings \subseteq DOMAIN findings',
           DOMAIN coverage \subseteq DOMAIN coverage'
    PROVE  Refs(s)'
BY DEF Refs

\* A step of one branch, given what it does to its memory and to the store.
LEMMA RunStep ==
    ASSUME TypeOK, NEW r \in Runs, NEW s \in RunState, Become(r, s), Refs(s),
           findings' \in Seq(Finding), coverage' \in Seq(Coverage),
           now' \in Nat, horizon' \in Nat,
           DOMAIN findings \subseteq DOMAIN findings',
           DOMAIN coverage \subseteq DOMAIN coverage',
           down' \in [Jobs -> BOOLEAN], faults' \in 0..MaxFaults
    PROVE  TypeOK'
<1>1. run' \in [Runs -> RunState]
  BY DEF TypeOK, Become
<1>2. \A q \in Runs : Refs(run'[q])
  BY DEF TypeOK, Become
<1>3. \A q \in Runs : run'[q] \in RunState
  BY <1>1
<1>4. ASSUME NEW q \in Runs PROVE Refs(run[q])'
  BY <1>2, <1>3 DEF Refs
<1>5. QED
  BY <1>1, <1>4 DEF TypeOK

LEMMA IdleState ==
    /\ Idle \in RunState /\ Finished \in RunState /\ Crashed \in RunState
    /\ Refs(Idle) /\ Refs(Finished) /\ Refs(Crashed)
<1>1. /\ << >> \in Seq(Claims) /\ << >> \in Seq(Regions)
      /\ Len(<< >>) = 0
  BY EmptySeq
<1>2. Idle \in RunState
  BY <1>1 DEF Idle, RunState, Pcs, Terminal
<1>3. /\ Finished \in RunState /\ Crashed \in RunState
  BY <1>2 DEF RunState, Finished, Crashed, Pcs, Terminal
<1>4. Refs(Idle)
  BY <1>1 DEF Idle, Refs
<1>5. Refs(Finished) /\ Refs(Crashed)
  BY <1>1 DEF Idle, Finished, Crashed, Refs
<1>6. QED
  BY <1>2, <1>3, <1>4, <1>5

LEMMA StartType ==
    ASSUME TypeOK, NEW r \in Runs, Start(r) PROVE TypeOK'
<1>1. PICK m \in Modes, h \in Heads :
         Become(r, [run[r] EXCEPT !.pc = "expire", !.mode = m, !.head = h])
  BY DEF Start
<1> DEFINE s == [run[r] EXCEPT !.pc = "expire", !.mode = m, !.head = h]
<1>2. run[r] \in RunState /\ Refs(run[r]) /\ run[r].at = 1
  BY DEF TypeOK, Refs, Start
<1>3. s \in RunState
  BY <1>2, LedgerConstants DEF RunState, Pcs
<1>4. Refs(s)
  BY <1>2 DEF Refs, RunState
<1>5. ReadOnly /\ UNCHANGED <<down, faults>>
  BY DEF Start, Internal
<1>6. QED
  BY <1>1, <1>3, <1>4, <1>5, RunStep, ReadOnlyType DEF TypeOK

LEMMA ExpireTouchedType ==
    ASSUME TypeOK, NEW r \in Runs, NEW o \in Outcomes, ExpireTouched(r, o) PROVE TypeOK'
<1> DEFINE s == [run[r] EXCEPT !.pc = IF run[r].mode.findings THEN "open" ELSE "cover"]
           c == expire_coverage(coverage, SeatOf(r), run[r].head.touched)
<1>1. run[r] \in RunState /\ Refs(run[r])
  BY DEF TypeOK
<1>2. s \in RunState /\ Refs(s) /\ Become(r, s)
  BY <1>1 DEF RunState, Pcs, Refs, ExpireTouched
<1>3. c \in Seq(Coverage) /\ DOMAIN c = DOMAIN coverage
  BY ExpireTable DEF TypeOK
<1>4. WriteCoverage(o, c) /\ BatchOutcome(r, run[r].head.touched = {}, o)
  BY DEF ExpireTouched
<1> HIDE DEF s, c
<1>5. QED
  BY <1>2, <1>3, <1>4, RunStep, WriteCoverageType, BatchOutcomeType

LEMMA ReadOpenType ==
    ASSUME TypeOK, NEW r \in Runs, NEW o \in Outcomes, ReadOpen(r, o) PROVE TypeOK'
<1> DEFINE read == IF Answered(o)
                   THEN open_findings(findings, SeatOf(r), horizon, MAX_OPEN_FINDINGS)
                   ELSE {}
           gone == {i \in read : FileOf[findings[i].claim] \in run[r].head.gone}
           s == [run[r] EXCEPT !.pc = IF gone = {} THEN "cover" ELSE "retire",
                               !.offered = read \ gone, !.todo = gone]
<1>1. run[r] \in RunState /\ Refs(run[r]) /\ run[r].at = 1
  BY DEF TypeOK, Refs, ReadOpen
<1>2. Become(r, s) /\ ReadOnly /\ Outcome(r, o)
  BY DEF ReadOpen
<1>3. read \subseteq DOMAIN findings /\ gone \subseteq read
  BY DEF open_findings, OpenRows
<1> HIDE DEF gone, read
<1>4. read \subseteq Nat
  BY <1>3, RowOf DEF TypeOK
<1>5. s \in RunState /\ Refs(s)
  BY <1>1, <1>3, <1>4 DEF RunState, Pcs, Refs
<1> HIDE DEF s
<1>6. QED
  BY <1>2, <1>5, RunStep, ReadOnlyType, OutcomeType

LEMMA RetireMissingType ==
    ASSUME TypeOK, NEW r \in Runs, NEW o \in Outcomes, RetireMissing(r, o) PROVE TypeOK'
<1>1. PICK i \in run[r].todo :
          /\ WriteFindings(o, transition(findings, SeatOf(r), i, "stale", now))
          /\ Become(r, [run[r] EXCEPT
                          !.todo = run[r].todo \ {i},
                          !.pc = IF run[r].todo = {i} THEN "cover" ELSE "retire"])
  BY DEF RetireMissing
<1> DEFINE t == transition(findings, SeatOf(r), i, "stale", now)
           s == [run[r] EXCEPT !.todo = run[r].todo \ {i},
                               !.pc = IF run[r].todo = {i} THEN "cover" ELSE "retire"]
<1>2. run[r] \in RunState /\ Refs(run[r]) /\ run[r].at = 1
  BY DEF TypeOK, Refs, RetireMissing
<1>3. s \in RunState /\ Refs(s)
  BY <1>2 DEF RunState, Pcs, Refs
<1>4. t \in Seq(Finding) /\ DOMAIN t = DOMAIN findings
  <2>1. "stale" \in FINDING_STATUSES
    BY DEF FINDING_STATUSES
  <2>2. QED
    BY <2>1, TransitionTable DEF TypeOK
<1>5. Outcome(r, o)
  BY DEF RetireMissing
<1> HIDE DEF s, t
<1>6. QED
  BY <1>1, <1>3, <1>4, <1>5, RunStep, WriteFindingsType, OutcomeType DEF s, t

LEMMA ReadCoverageType ==
    ASSUME TypeOK, NEW r \in Runs, NEW o \in Outcomes, ReadCoverage(r, o) PROVE TypeOK'
<1> DEFINE read == IF Answered(o)
                   THEN live_coverage(coverage, SeatOf(r), horizon, MAX_LIVE_COVERAGE)
                   ELSE {}
           kept == {i \in read : ~coverage[i].hollow}
           dead == {coverage[i].file : i \in kept} \cap run[r].head.gone
           show == Rendered({i \in kept : coverage[i].file \notin dead})
           s == [run[r] EXCEPT !.pc = IF dead = {} THEN "round" ELSE "dead",
                               !.dead = dead, !.shown = show]
<1>1. run[r] \in RunState /\ Refs(run[r]) /\ run[r].at = 1
  BY DEF TypeOK, Refs, ReadCoverage
<1>2. Become(r, s) /\ ReadOnly /\ Outcome(r, o)
  BY DEF ReadCoverage
<1>3. read \subseteq DOMAIN coverage
  BY DEF live_coverage, LiveRows
<1>4. show \subseteq DOMAIN coverage
  BY <1>3 DEF Rendered
<1>5. dead \subseteq Files
  BY <1>1 DEF RunState
<1> HIDE DEF read, kept, dead, show
<1>6. show \subseteq Nat
  BY <1>4, RowOf DEF TypeOK
<1>7. s \in RunState /\ Refs(s)
  BY <1>1, <1>4, <1>5, <1>6 DEF RunState, Pcs, Refs
<1> HIDE DEF s
<1>8. QED
  BY <1>2, <1>7, RunStep, ReadOnlyType, OutcomeType

LEMMA ExpireDeadType ==
    ASSUME TypeOK, NEW r \in Runs, NEW o \in Outcomes, ExpireDead(r, o) PROVE TypeOK'
<1> DEFINE s == [run[r] EXCEPT !.pc = "round"]
           c == expire_coverage(coverage, SeatOf(r), run[r].dead)
<1>1. run[r] \in RunState /\ Refs(run[r])
  BY DEF TypeOK
<1>2. s \in RunState /\ Refs(s) /\ Become(r, s)
  BY <1>1 DEF RunState, Pcs, Refs, ExpireDead
<1>3. c \in Seq(Coverage) /\ DOMAIN c = DOMAIN coverage
  BY ExpireTable DEF TypeOK
<1>4. WriteCoverage(o, c) /\ Outcome(r, o)
  BY DEF ExpireDead
<1> HIDE DEF s, c
<1>5. QED
  BY <1>2, <1>3, <1>4, RunStep, WriteCoverageType, OutcomeType

LEMMA ReadRoundType ==
    ASSUME TypeOK, NEW r \in Runs, NEW o \in Outcomes, ReadRound(r, o) PROVE TypeOK'
<1> DEFINE n == IF Answered(o) THEN next_round(findings, coverage, SeatOf(r)) ELSE 1
           s == [run[r] EXCEPT !.pc = "review", !.round = n]
<1>1. run[r] \in RunState /\ Refs(run[r]) /\ run[r].at = 1
  BY DEF TypeOK, Refs, ReadRound
<1>2. Become(r, s) /\ ReadOnly /\ Outcome(r, o)
  BY DEF ReadRound
<1>3. n \in Nat
  BY NextRoundType DEF TypeOK
<1> HIDE DEF n
<1>4. s \in RunState /\ Refs(s)
  BY <1>1, <1>3 DEF RunState, Pcs, Refs
<1> HIDE DEF s
<1>5. QED
  BY <1>2, <1>4, RunStep, ReadOnlyType, OutcomeType

LEMMA ReviewType ==
    ASSUME TypeOK, NEW r \in Runs, Review(r) PROVE TypeOK'
<1>1. PICK said \in [run[r].offered -> Verdicts],
           publish \in Publications, examined \in Examinations :
          LET closing == {i \in run[r].offered : Closes(said[i])}
          IN  Become(r, [run[r] EXCEPT
                !.fixed = {i \in run[r].offered : said[i] = "fixed"},
                !.rejected = {i \in run[r].offered : said[i] = "rejected"},
                !.todo = closing,
                !.touch = {i \in run[r].offered : Reasserts(said[i])},
                !.still = StillOpen(r, closing),
                !.publish = publish,
                !.examined = examined,
                !.pc = IF ~run[r].mode.findings THEN "coverage"
                       ELSE IF closing # {} THEN "verdicts"
                       ELSE IF publish # << >> THEN "settled"
                       ELSE "touch"])
  BY DEF Review
<1> DEFINE closing == {i \in run[r].offered : Closes(said[i])}
           fix == {i \in run[r].offered : said[i] = "fixed"}
           rej == {i \in run[r].offered : said[i] = "rejected"}
           tch == {i \in run[r].offered : Reasserts(said[i])}
           rows(c) == {i \in run[r].offered \ closing : findings[i].claim = c}
           stl == [c \in Claims |-> LatestOf(rows(c))]
           dest == IF ~run[r].mode.findings THEN "coverage"
                   ELSE IF closing # {} THEN "verdicts"
                   ELSE IF publish # << >> THEN "settled"
                   ELSE "touch"
           s == [run[r] EXCEPT !.fixed = fix, !.rejected = rej, !.todo = closing,
                   !.touch = tch, !.still = stl, !.publish = publish,
                   !.examined = examined, !.pc = dest]
<1>2. Become(r, s)
  BY <1>1 DEF StillOpen
<1>3. run[r] \in RunState /\ Refs(run[r]) /\ run[r].at = 1
  BY DEF TypeOK, Refs, Review
<1>4. /\ publish \in Seq(Claims) /\ examined \in Seq(Regions)
      /\ Len(publish) \in Nat /\ (publish # << >> => Len(publish) >= 1)
  BY LedgerConstants, LenProperties, EmptySeq
<1>5. \A c \in Claims : rows(c) \in SUBSET DOMAIN findings
  BY <1>3 DEF Refs
<1>6. \A c \in Claims : stl[c] \in DOMAIN findings \cup {0}
  BY <1>5, LatestRow DEF TypeOK
<1>7. stl \in [Claims -> Nat]
  BY <1>6, RowOf DEF TypeOK
<1>8. /\ fix \subseteq run[r].offered /\ rej \subseteq run[r].offered
      /\ tch \subseteq run[r].offered /\ closing \subseteq run[r].offered
      /\ dest \in Pcs /\ (dest \in {"settled", "match"} => publish # << >>)
  BY DEF Pcs
<1> HIDE DEF fix, rej, tch, closing, stl, dest
<1>9. s \in RunState
  BY <1>3, <1>4, <1>7, <1>8 DEF RunState
<1>10. Refs(s)
  BY <1>3, <1>4, <1>6, <1>8 DEF RunState, Refs
<1>11. ReadOnly /\ UNCHANGED <<down, faults>>
  BY DEF Review, Internal
<1> HIDE DEF s
<1>12. QED
  BY <1>2, <1>9, <1>10, <1>11, RunStep, ReadOnlyType DEF TypeOK

LEMMA ReviewFailsType ==
    ASSUME TypeOK, NEW r \in Runs, ReviewFails(r) PROVE TypeOK'
<1>1. Become(r, Crashed) /\ ReadOnly /\ UNCHANGED <<down, faults>>
  BY DEF ReviewFails, Internal
<1>2. QED
  BY <1>1, IdleState, RunStep, ReadOnlyType DEF TypeOK

LEMMA ApplyVerdictType ==
    ASSUME TypeOK, NEW r \in Runs, NEW o \in Outcomes, ApplyVerdict(r, o) PROVE TypeOK'
<1>1. PICK i \in run[r].todo :
          /\ WriteFindings(o, transition(findings, SeatOf(r), i,
                                 IF i \in run[r].fixed THEN "fixed" ELSE "rejected", now))
          /\ Become(r, [run[r] EXCEPT
                          !.todo = run[r].todo \ {i},
                          !.pc = IF run[r].todo # {i} THEN "verdicts"
                                 ELSE IF run[r].publish # << >> THEN "settled"
                                 ELSE "touch"])
  BY DEF ApplyVerdict
<1> DEFINE st == IF i \in run[r].fixed THEN "fixed" ELSE "rejected"
           t == transition(findings, SeatOf(r), i, st, now)
           dest == IF run[r].todo # {i} THEN "verdicts"
                   ELSE IF run[r].publish # << >> THEN "settled"
                   ELSE "touch"
           s == [run[r] EXCEPT !.todo = run[r].todo \ {i}, !.pc = dest]
<1>2. run[r] \in RunState /\ Refs(run[r]) /\ run[r].at = 1
  BY DEF TypeOK, Refs, ApplyVerdict
<1>3. run[r].publish # << >> => Len(run[r].publish) >= 1
  BY <1>2, LenProperties, EmptySeq DEF RunState
<1>4. dest \in Pcs /\ dest # "match" /\ (dest = "settled" => run[r].publish # << >>)
  BY DEF Pcs
<1>5. st \in FINDING_STATUSES
  BY DEF FINDING_STATUSES
<1>6. Become(r, s) /\ WriteFindings(o, t) /\ Outcome(r, o)
  BY <1>1 DEF ApplyVerdict
<1> HIDE DEF st, dest
<1>7. s \in RunState
  BY <1>2, <1>4 DEF RunState
<1>8. Refs(s)
  BY <1>2, <1>3, <1>4 DEF RunState, Refs
<1>9. t \in Seq(Finding) /\ DOMAIN t = DOMAIN findings
  BY <1>5, TransitionTable DEF TypeOK
<1> HIDE DEF s, t
<1>10. QED
  BY <1>6, <1>7, <1>8, <1>9, RunStep, WriteFindingsType, OutcomeType

LEMMA ReadSettledType ==
    ASSUME TypeOK, NEW r \in Runs, NEW o \in Outcomes, ReadSettled(r, o) PROVE TypeOK'
<1> DEFINE read == IF Answered(o)
                   THEN settled_findings(findings, SeatOf(r), horizon, MAX_SETTLED_FINDINGS)
                   ELSE {}
           rows(c) == {i \in read : findings[i].claim = c}
           cnd == [c \in Claims |-> LastClosedOf(rows(c))]
           s == [run[r] EXCEPT !.pc = "match", !.cand = cnd]
<1>1. run[r] \in RunState /\ Refs(run[r]) /\ run[r].at <= Len(run[r].publish)
  BY DEF TypeOK, Refs, ReadSettled
<1>2. Become(r, s) /\ ReadOnly /\ Outcome(r, o)
  BY DEF ReadSettled
<1>3. read \subseteq DOMAIN findings
  BY DEF settled_findings, SettledRows
<1>4. \A c \in Claims : rows(c) \in SUBSET DOMAIN findings
  BY <1>3
<1>5. \A c \in Claims : cnd[c] \in DOMAIN findings \cup {0}
  BY <1>4, LatestRow DEF TypeOK
<1>6. cnd \in [Claims -> Nat]
  BY <1>5, RowOf DEF TypeOK
<1> HIDE DEF cnd
<1>7. s \in RunState
  BY <1>1, <1>6 DEF RunState, Pcs
<1>8. Refs(s)
  BY <1>1, <1>5 DEF RunState, Refs
<1> HIDE DEF s
<1>9. QED
  BY <1>2, <1>7, <1>8, RunStep, ReadOnlyType, OutcomeType

\* The finding the loop is at, and where the loop goes after it.
LEMMA MatchCursor ==
    ASSUME TypeOK, NEW r \in Runs, run[r].pc = "match"
    PROVE  /\ Claim(r) \in Claims
           /\ run[r].at \in DOMAIN run[r].publish
           /\ NextMatch(r) \in {"match", "touch"}
           /\ run[r].at + 1 \in Nat /\ run[r].at + 1 >= 1
           /\ run[r].at + 1 <= Len(run[r].publish) + 1
           /\ NextMatch(r) = "match" => run[r].at + 1 <= Len(run[r].publish)
<1>1. run[r] \in RunState /\ Refs(run[r])
  BY DEF TypeOK
<1>2. /\ run[r].publish \in Seq(Claims) /\ run[r].at \in Nat
      /\ run[r].at >= 1 /\ run[r].at <= Len(run[r].publish)
  BY <1>1 DEF RunState, Refs
<1>3. Len(run[r].publish) \in Nat /\ DOMAIN run[r].publish = 1..Len(run[r].publish)
  BY <1>2, LenProperties
<1>4. run[r].at \in DOMAIN run[r].publish
  BY <1>2, <1>3
<1>5. Claim(r) \in Claims
  BY <1>2, <1>4, RowOf DEF Claim
<1>6. QED
  BY <1>2, <1>3, <1>4, <1>5 DEF NextMatch

LEMMA DedupeCarriedType ==
    ASSUME TypeOK, NEW r \in Runs, DedupeCarried(r) PROVE TypeOK'
<1> DEFINE i == run[r].still[Claim(r)]
           s == [run[r] EXCEPT !.pc = NextMatch(r), !.at = run[r].at + 1,
                               !.touch = run[r].touch \cup {i}]
<1>1. run[r] \in RunState /\ Refs(run[r])
  BY DEF TypeOK
<1>2. Become(r, s) /\ ReadOnly /\ UNCHANGED <<down, faults>> /\ run[r].pc = "match"
  BY DEF DedupeCarried, Internal
<1>3. i \in DOMAIN findings /\ i \in Nat
  BY <1>1, <1>2, MatchCursor DEF Refs, RunState, DedupeCarried
<1> HIDE DEF i
<1>4. s \in RunState
  BY <1>1, <1>2, <1>3, MatchCursor DEF RunState, Pcs
<1>5. Refs(s)
  BY <1>1, <1>2, <1>3, MatchCursor DEF RunState, Refs
<1> HIDE DEF s
<1>6. QED
  BY <1>2, <1>4, <1>5, RunStep, ReadOnlyType DEF TypeOK

LEMMA DedupeTwinType ==
    ASSUME TypeOK, NEW r \in Runs, DedupeTwin(r) PROVE TypeOK'
<1> DEFINE s == [run[r] EXCEPT !.pc = NextMatch(r), !.at = run[r].at + 1]
<1>1. run[r] \in RunState /\ Refs(run[r])
  BY DEF TypeOK
<1>2. Become(r, s) /\ ReadOnly /\ UNCHANGED <<down, faults>> /\ run[r].pc = "match"
  BY DEF DedupeTwin, Internal
<1>3. s \in RunState
  BY <1>1, <1>2, MatchCursor DEF RunState, Pcs
<1>4. Refs(s)
  BY <1>1, <1>2, MatchCursor DEF RunState, Refs
<1> HIDE DEF s
<1>5. QED
  BY <1>2, <1>3, <1>4, RunStep, ReadOnlyType DEF TypeOK

LEMMA ReraiseType ==
    ASSUME TypeOK, NEW r \in Runs, NEW o \in Outcomes, Reraise(r, o) PROVE TypeOK'
<1> DEFINE c == Claim(r)
           i == run[r].cand[c]
           done == Raised(r, o, i)
           t == reopen(findings, SeatOf(r), i, now)
           cnd == [run[r].cand EXCEPT ![c] = 0]
           stl == IF done THEN [run[r].still EXCEPT ![c] = i] ELSE run[r].still
           frs == IF done THEN run[r].fresh ELSE Append(run[r].fresh, c)
           s == [run[r] EXCEPT !.pc = NextMatch(r), !.at = run[r].at + 1,
                               !.cand = cnd, !.still = stl, !.fresh = frs]
<1>1. run[r] \in RunState /\ Refs(run[r])
  BY DEF TypeOK
<1>2. /\ Become(r, s) /\ WriteFindings(o, t) /\ Outcome(r, o)
      /\ run[r].pc = "match" /\ i # 0
  BY DEF Reraise, Unmatched
<1>3. c \in Claims
  BY <1>2, MatchCursor
<1>4. i \in DOMAIN findings /\ i \in Nat
  BY <1>1, <1>2, <1>3 DEF Refs, RunState
<1>5. t \in Seq(Finding) /\ DOMAIN t = DOMAIN findings
  BY ReopenTable DEF TypeOK
<1> HIDE DEF c, i, done, t
<1>6. /\ cnd \in [Claims -> Nat]
      /\ \A d \in Claims : cnd[d] \in DOMAIN findings \cup {0}
  BY <1>1, <1>3 DEF RunState, Refs
<1>7. /\ stl \in [Claims -> Nat]
      /\ \A d \in Claims : stl[d] \in DOMAIN findings \cup {0}
  BY <1>1, <1>3, <1>4 DEF RunState, Refs
<1>8. frs \in Seq(Claims)
  BY <1>1, <1>3, AppendProperties DEF RunState
<1> HIDE DEF cnd, stl, frs
<1>9. s \in RunState
  BY <1>1, <1>2, <1>6, <1>7, <1>8, MatchCursor DEF RunState, Pcs
<1>10. Refs(s)
  BY <1>1, <1>2, <1>6, <1>7, MatchCursor DEF RunState, Refs
<1> HIDE DEF s
<1>11. QED
  BY <1>2, <1>5, <1>9, <1>10, RunStep, WriteFindingsType, OutcomeType

LEMMA MatchFreshType ==
    ASSUME TypeOK, NEW r \in Runs, MatchFresh(r) PROVE TypeOK'
<1> DEFINE frs == Append(run[r].fresh, Claim(r))
           s == [run[r] EXCEPT !.pc = NextMatch(r), !.at = run[r].at + 1, !.fresh = frs]
<1>1. run[r] \in RunState /\ Refs(run[r])
  BY DEF TypeOK
<1>2. Become(r, s) /\ ReadOnly /\ UNCHANGED <<down, faults>> /\ run[r].pc = "match"
  BY DEF MatchFresh, Unmatched, Internal
<1>3. frs \in Seq(Claims)
  BY <1>1, <1>2, MatchCursor, AppendProperties DEF RunState
<1> HIDE DEF frs
<1>4. s \in RunState
  BY <1>1, <1>2, <1>3, MatchCursor DEF RunState, Pcs
<1>5. Refs(s)
  BY <1>1, <1>2, MatchCursor DEF RunState, Refs
<1> HIDE DEF s
<1>6. QED
  BY <1>2, <1>4, <1>5, RunStep, ReadOnlyType DEF TypeOK

LEMMA TouchType ==
    ASSUME TypeOK, NEW r \in Runs, NEW o \in Outcomes, Touch(r, o) PROVE TypeOK'
<1> DEFINE t == touch_findings(findings, SeatOf(r), run[r].touch, now)
           s == [run[r] EXCEPT !.pc = "record"]
<1>1. run[r] \in RunState /\ Refs(run[r])
  BY DEF TypeOK
<1>2. Become(r, s) /\ WriteFindings(o, t) /\ BatchOutcome(r, run[r].touch = {}, o)
  BY DEF Touch
<1>3. s \in RunState /\ Refs(s)
  BY <1>1 DEF RunState, Pcs, Refs
<1>4. t \in Seq(Finding) /\ DOMAIN t = DOMAIN findings
  BY TouchTable DEF TypeOK
<1> HIDE DEF s, t
<1>5. QED
  BY <1>2, <1>3, <1>4, RunStep, WriteFindingsType, BatchOutcomeType

LEMMA RecordFindingsType ==
    ASSUME TypeOK, NEW r \in Runs, NEW o \in Outcomes, RecordFindings(r, o) PROVE TypeOK'
<1> DEFINE u == InsertedFindings(SeatOf(r), run[r].round, JobOf(r), run[r].fresh, now)
           t == record_findings(findings, SeatOf(r), run[r].round, JobOf(r),
                                run[r].fresh, now)
           s == [run[r] EXCEPT !.pc = IF Applied(o) THEN "coverage" ELSE "unrecorded"]
<1>1. run[r] \in RunState /\ Refs(run[r])
  BY DEF TypeOK
<1>2. Become(r, s) /\ WriteFindings(o, t) /\ BatchOutcome(r, run[r].fresh = << >>, o)
  BY DEF RecordFindings
<1>3. s \in RunState /\ Refs(s)
  BY <1>1 DEF RunState, Pcs, Refs
<1>4. u \in Seq(Finding)
  <2>1. /\ run[r].round \in Nat /\ run[r].fresh \in Seq(Claims) /\ now \in Nat
        /\ SeatOf(r) \in Seats /\ JobOf(r) \in Jobs
    BY <1>1, RunsOf DEF TypeOK, RunState
  <2>2. QED
    BY <2>1, RecordRows
<1>5. t \in Seq(Finding) /\ DOMAIN findings \subseteq DOMAIN t
  <2>1. t = findings \o u
    BY DEF record_findings, InsertedFindings
  <2> HIDE DEF t, u
  <2>2. QED
    BY <1>4, <2>1, AppendRows DEF TypeOK
<1> HIDE DEF s, t
<1>6. QED
  BY <1>2, <1>3, <1>5, RunStep, WriteFindingsType, BatchOutcomeType

LEMMA RecordCoverageType ==
    ASSUME TypeOK, NEW r \in Runs, NEW o \in Outcomes, RecordCoverage(r, o) PROVE TypeOK'
<1> DEFINE u == InsertedCoverage(SeatOf(r), run[r].round, JobOf(r), run[r].examined, now)
           c == record_coverage(coverage, SeatOf(r), run[r].round, JobOf(r),
                                run[r].examined, now)
<1>1. run[r] \in RunState
  BY DEF TypeOK
<1>2. /\ Become(r, Finished) /\ WriteCoverage(o, c)
      /\ BatchOutcome(r, run[r].examined = << >>, o)
  BY DEF RecordCoverage
<1>3. u \in Seq(Coverage)
  <2>1. /\ run[r].round \in Nat /\ run[r].examined \in Seq(Regions) /\ now \in Nat
        /\ SeatOf(r) \in Seats /\ JobOf(r) \in Jobs
    BY <1>1, RunsOf DEF TypeOK, RunState
  <2>2. QED
    BY <2>1, RecordCoverageRows
<1>4. c \in Seq(Coverage) /\ DOMAIN coverage \subseteq DOMAIN c
  <2>1. c = coverage \o u
    BY DEF record_coverage, InsertedCoverage
  <2> HIDE DEF c, u
  <2>2. QED
    BY <1>3, <2>1, AppendRows DEF TypeOK
<1> HIDE DEF c
<1>5. QED
  BY <1>2, <1>4, IdleState, RunStep, WriteCoverageType, BatchOutcomeType

LEMMA SkipCoverageType ==
    ASSUME TypeOK, NEW r \in Runs, SkipCoverage(r) PROVE TypeOK'
<1>1. Become(r, Finished) /\ ReadOnly /\ UNCHANGED <<down, faults>>
  BY DEF SkipCoverage, Internal
<1>2. QED
  BY <1>1, IdleState, RunStep, ReadOnlyType DEF TypeOK

LEMMA CancelType ==
    ASSUME TypeOK, NEW p \in Jobs, Cancel(p) PROVE TypeOK'
<1>1. UNCHANGED <<findings, coverage, now, horizon, down, faults>>
  BY DEF Cancel, Internal, ReadOnly
<1>2. /\ run' \in [Runs -> RunState]
      /\ \A r \in Runs : Refs(run'[r])
  BY IdleState DEF Cancel, TypeOK
<1>3. ASSUME NEW r \in Runs PROVE Refs(run[r])'
  BY <1>1, <1>2 DEF Refs
<1>4. QED
  BY <1>1, <1>2, <1>3 DEF TypeOK

LEMMA LapseType ==
    ASSUME TypeOK, Lapse PROVE TypeOK'
<1>1. UNCHANGED <<findings, coverage, now, run, down, faults>> /\ horizon' \in Nat
  BY DEF Lapse, TypeOK
<1>2. ASSUME NEW r \in Runs PROVE Refs(run[r])'
  BY <1>1 DEF TypeOK, Refs
<1>3. QED
  BY <1>1, <1>2 DEF TypeOK

LEMMA InitType == Init => TypeOK
<1>1. << >> \in Seq(Finding) /\ << >> \in Seq(Coverage)
  BY EmptySeq
<1>2. QED
  BY <1>1, IdleState, LedgerConstants DEF Init, TypeOK, Refs

\* One step of the system is one of these.
LEMMA StepCases ==
    ASSUME Next
    PROVE  \/ \E r \in Runs :
                 \/ Start(r) \/ Review(r) \/ ReviewFails(r)
                 \/ DedupeCarried(r) \/ DedupeTwin(r) \/ MatchFresh(r) \/ SkipCoverage(r)
           \/ \E r \in Runs, o \in Outcomes : Call(r, o)
           \/ \E p \in Jobs : Cancel(p)
           \/ Lapse
BY DEF Next, Step

LEMMA TypeStep == TypeOK /\ [Next]_vars => TypeOK'
<1> SUFFICES ASSUME TypeOK, [Next]_vars PROVE TypeOK'
  OBVIOUS
<1>1. CASE UNCHANGED vars
  <2>1. \A r \in Runs : Refs(run[r])'
    BY <1>1 DEF vars, TypeOK, Refs
  <2>2. QED
    BY <1>1, <2>1 DEF vars, TypeOK
<1>2. ASSUME NEW r \in Runs, NEW o \in Outcomes, Call(r, o) PROVE TypeOK'
  BY <1>2, ExpireTouchedType, ReadOpenType, RetireMissingType, ReadCoverageType,
     ExpireDeadType, ReadRoundType, ApplyVerdictType, ReadSettledType, ReraiseType,
     TouchType, RecordFindingsType, RecordCoverageType DEF Call
<1>3. CASE Next
  BY <1>2, <1>3, StepCases, StartType, ReviewType, ReviewFailsType, DedupeCarriedType,
     DedupeTwinType, MatchFreshType, SkipCoverageType, CancelType, LapseType
<1>4. QED
  BY <1>1, <1>3

\* Type correctness: the tables stay well formed, and every id a branch keeps
\* from carry_in to settle still addresses a row, for any number of jobs,
\* seats, claims and degraded calls, overlapping jobs included.
THEOREM TypeCorrect == Spec => []TypeOK
  BY TypeStep, InitType, PTL DEF Spec

-----------------------------------------------------------------------------
(* What a statement may do to the rows of a table *)

\* t becomes u by a statement of one seat: rows stay where they are and in
\* their seat, rows of other seats do not change, new rows are of the seat.
OfSeat(t, u, seat) ==
    /\ DOMAIN t \subseteq DOMAIN u
    /\ \A i \in DOMAIN t : u[i].seat = t[i].seat /\ (t[i].seat # seat => u[i] = t[i])
    /\ \A i \in DOMAIN u : i \notin DOMAIN t => u[i].seat = seat

LEMMA OtherLanes ==
    ASSUME NEW t, NEW u, NEW seat, NEW s, OfSeat(t, u, seat), s # seat
    PROVE  SeatFindings(u, s) = SeatFindings(t, s)
  <1>1. {k \in DOMAIN u : u[k].seat = s} = {k \in DOMAIN t : t[k].seat = s}
    BY DEF OfSeat
  <1>2. \A k \in {j \in DOMAIN t : t[j].seat = s} : u[k] = t[k]
    BY DEF OfSeat
  <1>3. QED
    BY <1>1, <1>2 DEF SeatFindings

LEMMA TransitionOfSeat ==
    ASSUME NEW t \in Seq(Finding), NEW seat, NEW id, NEW st \in FINDING_STATUSES, NEW n \in Nat
    PROVE  OfSeat(t, transition(t, seat, id, st, n), seat)
  BY RowOf, ClosedRow DEF OfSeat, transition, Matches, SameClaim

LEMMA ReopenOfSeat ==
    ASSUME NEW t \in Seq(Finding), NEW seat, NEW id, NEW n \in Nat
    PROVE  OfSeat(t, reopen(t, seat, id, n), seat)
  BY RowOf, ReopenedRow DEF OfSeat, reopen, Matches, SameClaim

LEMMA TouchOfSeat ==
    ASSUME NEW t \in Seq(Finding), NEW seat, NEW ids, NEW n \in Nat
    PROVE  OfSeat(t, touch_findings(t, seat, ids, n), seat)
  BY RowOf, TouchedRow DEF OfSeat, touch_findings, Matches, SameClaim

LEMMA ExpireOfSeat ==
    ASSUME NEW c \in Seq(Coverage), NEW seat, NEW fs
    PROVE  OfSeat(c, expire_coverage(c, seat, fs), seat)
  BY RowOf, CoverageUpdate DEF OfSeat, expire_coverage

LEMMA RecordOfSeat ==
    ASSUME NEW t \in Seq(Finding), NEW s \in Seats, NEW rd \in Nat, NEW h \in Jobs,
           NEW cs \in Seq(Claims), NEW n \in Nat
    PROVE  OfSeat(t, record_findings(t, s, rd, h, cs, n), s)
  <1> DEFINE u == InsertedFindings(s, rd, h, cs, n)
  <1>1. u \in Seq(Finding) /\ \A k \in DOMAIN u : u[k].seat = s
    BY RecordRows
  <1>2. record_findings(t, s, rd, h, cs, n) = t \o u
    BY DEF record_findings, InsertedFindings
  <1> HIDE DEF u
  <1>3. QED
    BY <1>1, <1>2, AppendRows DEF OfSeat

LEMMA RecordCoverageOfSeat ==
    ASSUME NEW c \in Seq(Coverage), NEW s \in Seats, NEW rd \in Nat, NEW h \in Jobs,
           NEW rs \in Seq(Regions), NEW n \in Nat
    PROVE  OfSeat(c, record_coverage(c, s, rd, h, rs, n), s)
  <1> DEFINE u == InsertedCoverage(s, rd, h, rs, n)
  <1>1. u \in Seq(Coverage) /\ \A k \in DOMAIN u : u[k].seat = s
    <2>1. u \in Seq(Coverage)
      BY RecordCoverageRows
    <2>2. \A k \in DOMAIN u : u[k].seat = s
      BY RecordCoverageRows
    <2>3. QED
      BY <2>1, <2>2
  <1>2. record_coverage(c, s, rd, h, rs, n) = c \o u
    BY DEF record_coverage, InsertedCoverage
  <1> HIDE DEF u
  <1>3. QED
    BY <1>1, <1>2, AppendRows DEF OfSeat

LEMMA SameTable ==
    ASSUME NEW t, NEW seat
    PROVE  OfSeat(t, t, seat)
  BY DEF OfSeat

-----------------------------------------------------------------------------
(* Lane isolation *)

\* The step of one branch on the store: only rows of its seat, and not
\* without a trace in the branch's own memory.
StepOfLane(r) ==
    /\ OfSeat(findings, findings', SeatOf(r))
    /\ OfSeat(coverage, coverage', SeatOf(r))
    /\ run'[r] # run[r] \/ UNCHANGED <<findings, coverage>>

LEMMA FindingsWrite ==
    ASSUME NEW r \in Runs, NEW o, NEW t, WriteFindings(o, t),
           OfSeat(findings, t, SeatOf(r)), run'[r] # run[r]
    PROVE  StepOfLane(r)
  BY SameTable DEF StepOfLane, WriteFindings

LEMMA CoverageWrite ==
    ASSUME NEW r \in Runs, NEW o, NEW c, WriteCoverage(o, c),
           OfSeat(coverage, c, SeatOf(r)), run'[r] # run[r]
    PROVE  StepOfLane(r)
  BY SameTable DEF StepOfLane, WriteCoverage

LEMMA NoWrite ==
    ASSUME NEW r \in Runs, ReadOnly
    PROVE  StepOfLane(r)
  BY SameTable DEF StepOfLane, ReadOnly

\* A branch whose new memory is at another place has changed.
LEMMA Moved ==
    ASSUME TypeOK, NEW r \in Runs, NEW s, Become(r, s), s # run[r]
    PROVE  run'[r] # run[r]
  BY DEF TypeOK, Become

LEMMA CallOfLane ==
    ASSUME TypeOK, NEW r \in Runs, NEW o \in Outcomes, Call(r, o)
    PROVE  StepOfLane(r)
  <1>1. run[r] \in RunState /\ SeatOf(r) \in Seats /\ JobOf(r) \in Jobs
    BY RunsOf DEF TypeOK
  <1>2. findings \in Seq(Finding) /\ coverage \in Seq(Coverage) /\ now \in Nat
    BY DEF TypeOK
  <1>3. CASE ExpireTouched(r, o)
    <2>1. run'[r].pc # run[r].pc
      BY <1>1, <1>3 DEF ExpireTouched, Become, TypeOK, RunState
    <2>2. QED
      BY <1>2, <1>3, <2>1, ExpireOfSeat, CoverageWrite DEF ExpireTouched
  <1>4. CASE ReadOpen(r, o) \/ ReadCoverage(r, o) \/ ReadRound(r, o) \/ ReadSettled(r, o)
    BY <1>4, NoWrite DEF ReadOpen, ReadCoverage, ReadRound, ReadSettled
  <1>5. CASE RetireMissing(r, o)
    <2>1. PICK i \in run[r].todo :
            /\ WriteFindings(o, transition(findings, SeatOf(r), i, "stale", now))
            /\ Become(r, [run[r] EXCEPT
                            !.todo = run[r].todo \ {i},
                            !.pc = IF run[r].todo = {i} THEN "cover" ELSE "retire"])
      BY <1>5 DEF RetireMissing
    <2>2. run'[r].todo # run[r].todo
      BY <1>1, <2>1 DEF Become, TypeOK, RunState
    <2>3. QED
      BY <1>2, <2>1, <2>2, TransitionOfSeat, FindingsWrite DEF FINDING_STATUSES
  <1>6. CASE ExpireDead(r, o)
    <2>1. run'[r].pc # run[r].pc
      BY <1>1, <1>6 DEF ExpireDead, Become, TypeOK, RunState
    <2>2. QED
      BY <1>2, <1>6, <2>1, ExpireOfSeat, CoverageWrite DEF ExpireDead
  <1>7. CASE ApplyVerdict(r, o)
    <2>1. PICK i \in run[r].todo :
            /\ WriteFindings(o, transition(findings, SeatOf(r), i,
                                   IF i \in run[r].fixed THEN "fixed" ELSE "rejected", now))
            /\ Become(r, [run[r] EXCEPT
                            !.todo = run[r].todo \ {i},
                            !.pc = IF run[r].todo # {i} THEN "verdicts"
                                   ELSE IF run[r].publish # << >> THEN "settled"
                                   ELSE "touch"])
      BY <1>7 DEF ApplyVerdict
    <2>2. run'[r].todo # run[r].todo
      BY <1>1, <2>1 DEF Become, TypeOK, RunState
    <2>3. (IF i \in run[r].fixed THEN "fixed" ELSE "rejected") \in FINDING_STATUSES
      BY DEF FINDING_STATUSES
    <2>4. QED
      BY <1>2, <2>1, <2>2, <2>3, TransitionOfSeat, FindingsWrite
  <1>8. CASE Reraise(r, o)
    <2>1. run'[r].at = run[r].at + 1 /\ run[r].at \in Nat
      BY <1>1, <1>8 DEF Reraise, Become, TypeOK, RunState
    <2>2. run'[r] # run[r]
      BY <2>1
    <2>3. QED
      BY <1>2, <1>8, <2>2, ReopenOfSeat, FindingsWrite DEF Reraise
  <1>9. CASE Touch(r, o)
    <2>1. run'[r].pc # run[r].pc
      BY <1>1, <1>9 DEF Touch, Become, TypeOK, RunState
    <2>2. QED
      BY <1>2, <1>9, <2>1, TouchOfSeat, FindingsWrite DEF Touch
  <1>10. CASE RecordFindings(r, o)
    <2>1. run'[r].pc # run[r].pc
      BY <1>1, <1>10 DEF RecordFindings, Become, TypeOK, RunState
    <2>2. run[r].round \in Nat /\ run[r].fresh \in Seq(Claims)
      BY <1>1 DEF RunState
    <2>3. QED
      BY <1>1, <1>2, <1>10, <2>1, <2>2, RecordOfSeat, FindingsWrite DEF RecordFindings
  <1>11. CASE RecordCoverage(r, o)
    <2>1. run'[r].pc # run[r].pc
      BY <1>1, <1>11 DEF RecordCoverage, AfterRecord, Become, TypeOK, Finished, Idle
    <2>2. run[r].round \in Nat /\ run[r].examined \in Seq(Regions)
      BY <1>1 DEF RunState
    <2>3. QED
      BY <1>1, <1>2, <1>11, <2>1, <2>2, RecordCoverageOfSeat, CoverageWrite DEF RecordCoverage
  <1>12. QED
    BY <1>3, <1>4, <1>5, <1>6, <1>7, <1>8, <1>9, <1>10, <1>11 DEF Call

\* The claim LaneIsolation makes of one step.
LaneStep ==
    \A s \in Seats :
       (\A r \in Runs : SeatOf(r) = s => run'[r] = run[r]) =>
          /\ SeatFindings(findings', s) = SeatFindings(findings, s)
          /\ SeatFindings(coverage', s) = SeatFindings(coverage, s)

LEMMA LanesStayApart == TypeOK /\ [Next]_vars => LaneStep
  <1> SUFFICES ASSUME TypeOK, [Next]_vars PROVE LaneStep
    OBVIOUS
  <1>1. CASE UNCHANGED <<findings, coverage>>
    BY <1>1 DEF LaneStep
  <1>2. ASSUME NEW r \in Runs, NEW o \in Outcomes, Call(r, o) PROVE LaneStep
    <2>1. StepOfLane(r)
      BY <1>2, CallOfLane
    <2>2. CASE UNCHANGED <<findings, coverage>>
      BY <1>1, <2>2
    <2>3. CASE run'[r] # run[r]
      <3>1. ASSUME NEW s \in Seats, s # SeatOf(r)
            PROVE  /\ SeatFindings(findings', s) = SeatFindings(findings, s)
                   /\ SeatFindings(coverage', s) = SeatFindings(coverage, s)
        BY <2>1, <3>1, OtherLanes DEF StepOfLane
      <3>2. QED
        BY <2>3, <3>1 DEF LaneStep
    <2>4. QED
      BY <2>1, <2>2, <2>3 DEF StepOfLane
  <1>3. CASE Next
    BY <1>1, <1>2, <1>3, StepCases
       DEF Start, Review, ReviewFails, DedupeCarried, DedupeTwin, MatchFresh, SkipCoverage,
           Cancel, Lapse, Internal, ReadOnly
  <1>4. CASE UNCHANGED vars
    BY <1>1, <1>4 DEF vars
  <1>5. QED
    BY <1>3, <1>4

\* The seats of a run are threads over shared tables: no step that is not of a
\* seat's own branches changes a row of the seat or adds one, in any
\* interleaving of any number of jobs and seats.
THEOREM SeatsIsolated == Spec => LaneIsolation
  <1>1. TypeOK /\ [Next]_vars =>
          [ \A s \in Seats :
              (\A r \in Runs : SeatOf(r) = s => run'[r] = run[r]) =>
                 /\ SeatFindings(findings', s) = SeatFindings(findings, s)
                 /\ SeatFindings(coverage', s) = SeatFindings(coverage, s) ]_vars
    BY LanesStayApart DEF LaneStep
  <1>2. QED
    BY <1>1, TypeCorrect, PTL DEF Spec, LaneIsolation

-----------------------------------------------------------------------------
(* What each statement may do to a row *)

LEMMA TransitionRow ==
    ASSUME NEW t \in Seq(Finding), NEW seat, NEW id, NEW st \in FINDING_STATUSES, NEW n \in Nat,
           NEW i \in DOMAIN t
    PROVE  LET u == transition(t, seat, id, st, n)
           IN  \/ u[i] = t[i]
               \/ /\ i = id /\ t[i].seat = seat /\ t[i].status = "open"
                  /\ u[i].status = st /\ u[i].reopened = t[i].reopened
                  /\ SameClaim(t[i], u[i])
  BY RowOf, ClosedRow DEF transition, Matches

LEMMA ReopenRow ==
    ASSUME NEW t \in Seq(Finding), NEW seat, NEW id, NEW n \in Nat, NEW i \in DOMAIN t
    PROVE  LET u == reopen(t, seat, id, n)
           IN  \/ u[i] = t[i]
               \/ /\ i = id /\ t[i].seat = seat /\ t[i].status \in REOPENABLE_STATUSES
                  /\ u[i].status = "open" /\ u[i].reopened = t[i].reopened + 1
                  /\ SameClaim(t[i], u[i])
  BY RowOf, ReopenedRow DEF reopen, Matches

LEMMA TouchRow ==
    ASSUME NEW t \in Seq(Finding), NEW seat, NEW ids, NEW n \in Nat, NEW i \in DOMAIN t
    PROVE  LET u == touch_findings(t, seat, ids, n)
           IN  u[i].status = t[i].status /\ u[i].reopened = t[i].reopened /\ SameClaim(t[i], u[i])
  BY RowOf, TouchedRow DEF touch_findings, SameClaim

LEMMA RecordRow ==
    ASSUME NEW t \in Seq(Finding), NEW s \in Seats, NEW rd \in Nat, NEW h \in Jobs,
           NEW cs \in Seq(Claims), NEW n \in Nat
    PROVE  LET u == record_findings(t, s, rd, h, cs, n)
           IN  DOMAIN t \subseteq DOMAIN u /\ \A i \in DOMAIN t : u[i] = t[i]
  <1> DEFINE w == InsertedFindings(s, rd, h, cs, n)
  <1>1. w \in Seq(Finding)
    BY RecordRows
  <1>2. record_findings(t, s, rd, h, cs, n) = t \o w
    BY DEF record_findings, InsertedFindings
  <1> HIDE DEF w
  <1>3. QED
    BY <1>1, <1>2, AppendRows

-----------------------------------------------------------------------------
(* What a branch remembers between its calls *)

\* The rows it is retiring are of files the head lacks; the rows it is closing
\* were offered to it and got a closing verdict; the rows it may re-raise
\* have the claim they are filed under.
Remembers(s) ==
    /\ s.pc = "retire" =>
          \A i \in s.todo : i \in DOMAIN findings /\ FileOf[findings[i].claim] \in s.head.gone
    /\ s.pc = "verdicts" =>
          \A i \in s.todo : i \in s.offered /\ (i \in s.fixed \/ i \in s.rejected)
    /\ s.pc = "match" =>
          \A c \in Claims : s.cand[c] # 0 =>
             s.cand[c] \in DOMAIN findings /\ findings[s.cand[c]].claim = c

Memory == \A r \in Runs : Remembers(run[r])

KeepsClaims ==
    /\ DOMAIN findings \subseteq DOMAIN findings'
    /\ \A i \in DOMAIN findings : findings'[i].claim = findings[i].claim

LawfulRows ==
    /\ DOMAIN findings \subseteq DOMAIN findings'
    /\ \A i \in DOMAIN findings : LawfulChange(i)

LEMMA LawfulKeepsClaims == LawfulRows => KeepsClaims
  BY DEF LawfulRows, KeepsClaims, LawfulChange

LEMMA SameRow ==
    ASSUME NEW i \in DOMAIN findings, findings'[i] = findings[i]
    PROVE  LawfulChange(i)
  BY DEF LawfulChange

LEMMA SameRows ==
    ASSUME UNCHANGED findings
    PROVE  LawfulRows
  BY SameRow DEF LawfulRows

\* What a branch remembers stays true while rows keep their claims.
LEMMA RemembersOn ==
    ASSUME NEW s, Remembers(s), KeepsClaims
    PROVE  Remembers(s)'
  BY DEF Remembers, KeepsClaims

LEMMA MemoryStep ==
    ASSUME TypeOK, Memory, KeepsClaims, NEW r \in Runs, NEW s, Become(r, s), Remembers(s)
    PROVE  Memory'
  <1>1. ASSUME NEW q \in Runs PROVE Remembers(run'[q])
    BY DEF TypeOK, Become, Memory
  <1>2. \A q \in Runs : Remembers(run'[q])
    BY <1>1
  <1>3. ASSUME NEW q \in Runs PROVE Remembers(run[q])'
    BY <1>1, <1>3 DEF Remembers, KeepsClaims
  <1>4. QED
    BY <1>3 DEF Memory

LEMMA Forgets ==
    ASSUME NEW s, s.pc \notin {"retire", "verdicts", "match"}
    PROVE  Remembers(s)
  BY DEF Remembers

-----------------------------------------------------------------------------
(* What each action does to the rows and to what the branches remember *)

\* A step that writes no finding and leaves a branch with nothing to remember.
LEMMA QuietStep ==
    ASSUME TypeOK, Memory, UNCHANGED findings, NEW r \in Runs, NEW s, Become(r, s), Remembers(s)
    PROVE  LawfulRows /\ Memory'
  <1>1. LawfulRows
    BY SameRows
  <1>2. QED
    BY <1>1, LawfulKeepsClaims, MemoryStep

LEMMA ElsewhereStep ==
    ASSUME TypeOK, Memory, UNCHANGED findings, NEW r \in Runs, NEW s, Become(r, s),
           s.pc \notin {"retire", "verdicts", "match"}
    PROVE  LawfulRows /\ Memory'
  BY QuietStep, Forgets

LEMMA StartLawful ==
    ASSUME TypeOK, Memory, NEW r \in Runs, Start(r) PROVE LawfulRows /\ Memory'
  <1>1. PICK m \in Modes, h \in Heads :
           Become(r, [run[r] EXCEPT !.pc = "expire", !.mode = m, !.head = h])
    BY DEF Start
  <1> DEFINE s == [run[r] EXCEPT !.pc = "expire", !.mode = m, !.head = h]
  <1>2. s.pc = "expire" /\ UNCHANGED findings
    BY DEF TypeOK, RunState, Start, Internal, ReadOnly
  <1> HIDE DEF s
  <1>3. QED
    BY <1>1, <1>2, ElsewhereStep DEF s

LEMMA ExpireTouchedLawful ==
    ASSUME TypeOK, Memory, NEW r \in Runs, NEW o \in Outcomes, ExpireTouched(r, o)
    PROVE  LawfulRows /\ Memory'
  <1> DEFINE s == [run[r] EXCEPT !.pc = IF run[r].mode.findings THEN "open" ELSE "cover"]
  <1>1. s.pc \in {"open", "cover"} /\ UNCHANGED findings /\ Become(r, s)
    BY DEF TypeOK, RunState, ExpireTouched, WriteCoverage
  <1> HIDE DEF s
  <1>2. QED
    BY <1>1, ElsewhereStep

LEMMA ReadOpenLawful ==
    ASSUME TypeOK, Memory, NEW r \in Runs, NEW o \in Outcomes, ReadOpen(r, o)
    PROVE  LawfulRows /\ Memory'
  <1> DEFINE read == IF Answered(o)
                     THEN open_findings(findings, SeatOf(r), horizon, MAX_OPEN_FINDINGS)
                     ELSE {}
             gone == {i \in read : FileOf[findings[i].claim] \in run[r].head.gone}
             s == [run[r] EXCEPT !.pc = IF gone = {} THEN "cover" ELSE "retire",
                                 !.offered = read \ gone, !.todo = gone]
  <1>1. Become(r, s) /\ UNCHANGED findings
    BY DEF ReadOpen, ReadOnly
  <1>2. \A i \in gone : i \in DOMAIN findings
                        /\ FileOf[findings[i].claim] \in run[r].head.gone
    BY DEF open_findings, OpenRows
  <1> HIDE DEF gone, read
  <1>3. s.pc \in {"cover", "retire"} /\ s.todo = gone /\ s.head = run[r].head
    BY DEF TypeOK, RunState
  <1> HIDE DEF s
  <1>4. Remembers(s)
    BY <1>2, <1>3 DEF Remembers
  <1>5. QED
    BY <1>1, <1>4, QuietStep

LEMMA RetireMissingLawful ==
    ASSUME TypeOK, Memory, NEW r \in Runs, NEW o \in Outcomes, RetireMissing(r, o)
    PROVE  LawfulRows /\ Memory'
  <1>1. PICK i \in run[r].todo :
            /\ WriteFindings(o, transition(findings, SeatOf(r), i, "stale", now))
            /\ Become(r, [run[r] EXCEPT
                            !.todo = run[r].todo \ {i},
                            !.pc = IF run[r].todo = {i} THEN "cover" ELSE "retire"])
    BY DEF RetireMissing
  <1> DEFINE t == transition(findings, SeatOf(r), i, "stale", now)
             s == [run[r] EXCEPT !.todo = run[r].todo \ {i},
                                 !.pc = IF run[r].todo = {i} THEN "cover" ELSE "retire"]
  <1>2. \A j \in run[r].todo :
           j \in DOMAIN findings /\ FileOf[findings[j].claim] \in run[r].head.gone
    BY DEF Memory, Remembers, RetireMissing
  <1>3. findings \in Seq(Finding) /\ now \in Nat /\ "stale" \in FINDING_STATUSES
        /\ SeatOf(r) \in Seats
    BY RunsOf DEF TypeOK, FINDING_STATUSES
  <1>4. (findings' = t \/ findings' = findings) /\ DOMAIN t = DOMAIN findings
    BY <1>1, <1>3, TransitionTable DEF WriteFindings
  <1>5. ASSUME NEW j \in DOMAIN findings PROVE LawfulChange(j)
    <2>1. \/ t[j] = findings[j]
          \/ /\ j = i /\ findings[j].seat = SeatOf(r) /\ findings[j].status = "open"
             /\ t[j].status = "stale" /\ t[j].reopened = findings[j].reopened
             /\ SameClaim(findings[j], t[j])
      BY <1>3, TransitionRow
    <2> HIDE DEF t
    <2>2. QED
      BY <1>2, <1>4, <2>1, SameRow DEF LawfulChange, SameClaim
  <1>6. LawfulRows
    BY <1>4, <1>5 DEF LawfulRows
  <1>7. /\ s.todo \subseteq run[r].todo /\ s.pc \in {"cover", "retire"}
        /\ s.head = run[r].head
    BY DEF TypeOK, RunState
  <1>8. Become(r, s)
    BY <1>1
  <1> HIDE DEF s
  <1>9. Remembers(s)
    BY <1>2, <1>7 DEF Remembers
  <1>10. QED
    BY <1>6, <1>8, <1>9, LawfulKeepsClaims, MemoryStep

LEMMA ReadCoverageLawful ==
    ASSUME TypeOK, Memory, NEW r \in Runs, NEW o \in Outcomes, ReadCoverage(r, o)
    PROVE  LawfulRows /\ Memory'
  <1> DEFINE read == IF Answered(o)
                     THEN live_coverage(coverage, SeatOf(r), horizon, MAX_LIVE_COVERAGE)
                     ELSE {}
             kept == {i \in read : ~coverage[i].hollow}
             dead == {coverage[i].file : i \in kept} \cap run[r].head.gone
             seen == Rendered({i \in kept : coverage[i].file \notin dead})
             s == [run[r] EXCEPT !.pc = IF dead = {} THEN "round" ELSE "dead",
                                 !.dead = dead, !.shown = seen]
  <1>1. Become(r, s) /\ UNCHANGED findings
    BY DEF ReadCoverage, ReadOnly
  <1> HIDE DEF dead, seen
  <1>2. s.pc \in {"round", "dead"}
    BY DEF TypeOK, RunState
  <1> HIDE DEF s
  <1>3. QED
    BY <1>1, <1>2, ElsewhereStep

LEMMA ExpireDeadLawful ==
    ASSUME TypeOK, Memory, NEW r \in Runs, NEW o \in Outcomes, ExpireDead(r, o)
    PROVE  LawfulRows /\ Memory'
  <1> DEFINE s == [run[r] EXCEPT !.pc = "round"]
  <1>1. s.pc = "round" /\ UNCHANGED findings /\ Become(r, s)
    BY DEF TypeOK, RunState, ExpireDead, WriteCoverage
  <1> HIDE DEF s
  <1>2. QED
    BY <1>1, ElsewhereStep

LEMMA ReadRoundLawful ==
    ASSUME TypeOK, Memory, NEW r \in Runs, NEW o \in Outcomes, ReadRound(r, o)
    PROVE  LawfulRows /\ Memory'
  <1> DEFINE n == IF Answered(o) THEN next_round(findings, coverage, SeatOf(r)) ELSE 1
             s == [run[r] EXCEPT !.pc = "review", !.round = n]
  <1>1. UNCHANGED findings /\ Become(r, s)
    BY DEF ReadRound, ReadOnly
  <1> HIDE DEF n
  <1>2. s.pc = "review"
    BY DEF TypeOK, RunState
  <1> HIDE DEF s
  <1>3. QED
    BY <1>1, <1>2, ElsewhereStep

LEMMA ReviewLawful ==
    ASSUME TypeOK, Memory, NEW r \in Runs, Review(r) PROVE LawfulRows /\ Memory'
  <1>1. PICK said \in [run[r].offered -> Verdicts],
             publish \in Publications, examined \in Examinations :
             LET closing == {i \in run[r].offered : Closes(said[i])}
             IN  Become(r, [run[r] EXCEPT
                   !.fixed = {i \in run[r].offered : said[i] = "fixed"},
                   !.rejected = {i \in run[r].offered : said[i] = "rejected"},
                   !.todo = closing,
                   !.touch = {i \in run[r].offered : Reasserts(said[i])},
                   !.still = StillOpen(r, closing),
                   !.publish = publish,
                   !.examined = examined,
                   !.pc = IF ~run[r].mode.findings THEN "coverage"
                          ELSE IF closing # {} THEN "verdicts"
                          ELSE IF publish # << >> THEN "settled"
                          ELSE "touch"])
    BY DEF Review
  <1> DEFINE closing == {i \in run[r].offered : Closes(said[i])}
             fix == {i \in run[r].offered : said[i] = "fixed"}
             rej == {i \in run[r].offered : said[i] = "rejected"}
             tch == {i \in run[r].offered : Reasserts(said[i])}
             stl == StillOpen(r, closing)
             dest == IF ~run[r].mode.findings THEN "coverage"
                     ELSE IF closing # {} THEN "verdicts"
                     ELSE IF publish # << >> THEN "settled"
                     ELSE "touch"
             s == [run[r] EXCEPT !.fixed = fix, !.rejected = rej, !.todo = closing,
                     !.touch = tch, !.still = stl, !.publish = publish,
                     !.examined = examined, !.pc = dest]
  <1>2. Become(r, s) /\ UNCHANGED findings
    BY <1>1 DEF Review, Internal, ReadOnly
  <1>3. \A i \in closing : i \in run[r].offered /\ (i \in fix \/ i \in rej)
    BY DEF Closes
  <1>4. dest \in {"coverage", "verdicts", "settled", "touch"}
    OBVIOUS
  <1> HIDE DEF closing, fix, rej, tch, stl, dest
  <1>5. /\ s.pc = dest /\ s.todo = closing /\ s.offered = run[r].offered
        /\ s.fixed = fix /\ s.rejected = rej
    BY DEF TypeOK, RunState
  <1> HIDE DEF s
  <1>6. Remembers(s)
    BY <1>3, <1>4, <1>5 DEF Remembers
  <1>7. QED
    BY <1>2, <1>6, QuietStep

LEMMA EndsLawful ==
    ASSUME TypeOK, Memory, NEW r \in Runs, UNCHANGED findings,
           Become(r, Finished) \/ Become(r, Crashed)
    PROVE  LawfulRows /\ Memory'
  <1>1. Finished.pc = "done" /\ Crashed.pc = "crashed"
    BY DEF Finished, Crashed, Idle
  <1>2. QED
    BY <1>1, ElsewhereStep

LEMMA ApplyVerdictLawful ==
    ASSUME TypeOK, Memory, NEW r \in Runs, NEW o \in Outcomes, ApplyVerdict(r, o)
    PROVE  LawfulRows /\ Memory'
  <1>1. PICK i \in run[r].todo :
          /\ WriteFindings(o, transition(findings, SeatOf(r), i,
                                 IF i \in run[r].fixed THEN "fixed" ELSE "rejected", now))
          /\ Become(r, [run[r] EXCEPT
                          !.todo = run[r].todo \ {i},
                          !.pc = IF run[r].todo # {i} THEN "verdicts"
                                 ELSE IF run[r].publish # << >> THEN "settled"
                                 ELSE "touch"])
    BY DEF ApplyVerdict
  <1> DEFINE st == IF i \in run[r].fixed THEN "fixed" ELSE "rejected"
             t == transition(findings, SeatOf(r), i, st, now)
             dest == IF run[r].todo # {i} THEN "verdicts"
                     ELSE IF run[r].publish # << >> THEN "settled"
                     ELSE "touch"
             s == [run[r] EXCEPT !.todo = run[r].todo \ {i}, !.pc = dest]
  <1>2. \A j \in run[r].todo :
           j \in run[r].offered /\ (j \in run[r].fixed \/ j \in run[r].rejected)
    BY DEF Memory, Remembers, ApplyVerdict
  <1>3. findings \in Seq(Finding) /\ now \in Nat /\ SeatOf(r) \in Seats
    BY RunsOf DEF TypeOK
  <1>4. /\ st \in FINDING_STATUSES /\ st # "stale" /\ st # "open"
        /\ st = "fixed" => i \in run[r].offered \cap run[r].fixed
        /\ st = "rejected" => i \in run[r].offered \cap run[r].rejected
    BY <1>2 DEF FINDING_STATUSES
  <1>5. Become(r, s) /\ WriteFindings(o, t)
    BY <1>1
  <1>6. dest \in {"verdicts", "settled", "touch"}
    OBVIOUS
  <1> HIDE DEF st, dest
  <1>7. (findings' = t \/ findings' = findings) /\ DOMAIN t = DOMAIN findings
    BY <1>3, <1>4, <1>5, TransitionTable DEF WriteFindings
  <1>8. ASSUME NEW j \in DOMAIN findings PROVE LawfulChange(j)
    <2>1. \/ t[j] = findings[j]
          \/ /\ j = i /\ findings[j].seat = SeatOf(r) /\ findings[j].status = "open"
             /\ t[j].status = st /\ t[j].reopened = findings[j].reopened
             /\ SameClaim(findings[j], t[j])
      BY <1>3, <1>4, TransitionRow
    <2>2. st \in {"fixed", "rejected"}
      BY <1>4 DEF FINDING_STATUSES
    <2> HIDE DEF t
    <2>3. QED
      BY <1>4, <1>7, <2>1, <2>2, SameRow DEF LawfulChange, SameClaim
  <1>9. LawfulRows
    BY <1>7, <1>8 DEF LawfulRows
  <1>10. /\ s.todo \subseteq run[r].todo /\ s.pc = dest /\ s.offered = run[r].offered
         /\ s.fixed = run[r].fixed /\ s.rejected = run[r].rejected
    BY DEF TypeOK, RunState
  <1> HIDE DEF s
  <1>11. Remembers(s)
    BY <1>2, <1>6, <1>10 DEF Remembers
  <1>12. QED
    BY <1>5, <1>9, <1>11, LawfulKeepsClaims, MemoryStep

LEMMA ReadSettledLawful ==
    ASSUME TypeOK, Memory, NEW r \in Runs, NEW o \in Outcomes, ReadSettled(r, o)
    PROVE  LawfulRows /\ Memory'
  <1> DEFINE read == IF Answered(o)
                     THEN settled_findings(findings, SeatOf(r), horizon, MAX_SETTLED_FINDINGS)
                     ELSE {}
             rows(c) == {i \in read : findings[i].claim = c}
             cnd == [c \in Claims |-> LastClosedOf(rows(c))]
             s == [run[r] EXCEPT !.pc = "match", !.cand = cnd]
  <1>1. Become(r, s) /\ UNCHANGED findings
    BY DEF ReadSettled, ReadOnly
  <1>2. read \subseteq DOMAIN findings
    BY DEF settled_findings, SettledRows
  <1>3. ASSUME NEW c \in Claims, cnd[c] # 0
        PROVE  cnd[c] \in DOMAIN findings /\ findings[cnd[c]].claim = c
    <2>1. rows(c) \in SUBSET DOMAIN findings
      BY <1>2
    <2>2. cnd[c] \in rows(c)
      BY <1>3, <2>1, LatestRow DEF TypeOK
    <2>3. QED
      BY <2>1, <2>2
  <1> HIDE DEF cnd
  <1>4. s.pc = "match" /\ s.cand = cnd
    BY DEF TypeOK, RunState
  <1> HIDE DEF s
  <1>5. Remembers(s)
    BY <1>3, <1>4 DEF Remembers
  <1>6. QED
    BY <1>1, <1>5, QuietStep

\* The matching loop goes on with the candidates it has, or with fewer.
LEMMA LoopStep ==
    ASSUME TypeOK, Memory, UNCHANGED findings, NEW r \in Runs, run[r].pc = "match",
           NEW s, Become(r, s), s.cand = run[r].cand, s.pc \in {"match", "touch"}
    PROVE  LawfulRows /\ Memory'
  <1>1. Remembers(s)
    BY DEF Memory, Remembers
  <1>2. QED
    BY <1>1, QuietStep

LEMMA DedupeCarriedLawful ==
    ASSUME TypeOK, Memory, NEW r \in Runs, DedupeCarried(r) PROVE LawfulRows /\ Memory'
  <1> DEFINE next == NextMatch(r)
             tch == run[r].touch \cup {run[r].still[Claim(r)]}
             s == [run[r] EXCEPT !.pc = next, !.at = run[r].at + 1, !.touch = tch]
  <1>1. Become(r, s) /\ UNCHANGED findings /\ run[r].pc = "match"
    BY DEF DedupeCarried, Internal, ReadOnly
  <1>2. next \in {"match", "touch"}
    BY DEF NextMatch
  <1> HIDE DEF next, tch
  <1>3. s.pc = next /\ s.cand = run[r].cand
    BY DEF TypeOK, RunState
  <1> HIDE DEF s
  <1>4. QED
    BY <1>1, <1>2, <1>3, LoopStep

LEMMA DedupeTwinLawful ==
    ASSUME TypeOK, Memory, NEW r \in Runs, DedupeTwin(r) PROVE LawfulRows /\ Memory'
  <1> DEFINE next == NextMatch(r)
             s == [run[r] EXCEPT !.pc = next, !.at = run[r].at + 1]
  <1>1. Become(r, s) /\ UNCHANGED findings /\ run[r].pc = "match"
    BY DEF DedupeTwin, Internal, ReadOnly
  <1>2. next \in {"match", "touch"}
    BY DEF NextMatch
  <1> HIDE DEF next
  <1>3. s.pc = next /\ s.cand = run[r].cand
    BY DEF TypeOK, RunState
  <1> HIDE DEF s
  <1>4. QED
    BY <1>1, <1>2, <1>3, LoopStep

LEMMA MatchFreshLawful ==
    ASSUME TypeOK, Memory, NEW r \in Runs, MatchFresh(r) PROVE LawfulRows /\ Memory'
  <1> DEFINE next == NextMatch(r)
             frs == Append(run[r].fresh, Claim(r))
             s == [run[r] EXCEPT !.pc = next, !.at = run[r].at + 1, !.fresh = frs]
  <1>1. Become(r, s) /\ UNCHANGED findings /\ run[r].pc = "match"
    BY DEF MatchFresh, Unmatched, Internal, ReadOnly
  <1>2. next \in {"match", "touch"}
    BY DEF NextMatch
  <1> HIDE DEF next, frs
  <1>3. s.pc = next /\ s.cand = run[r].cand
    BY DEF TypeOK, RunState
  <1> HIDE DEF s
  <1>4. QED
    BY <1>1, <1>2, <1>3, LoopStep

LEMMA ReraiseLawful ==
    ASSUME TypeOK, Memory, NEW r \in Runs, NEW o \in Outcomes, Reraise(r, o)
    PROVE  LawfulRows /\ Memory'
  <1> DEFINE c == Claim(r)
             i == run[r].cand[c]
             done == Raised(r, o, i)
             t == reopen(findings, SeatOf(r), i, now)
             cnd == [run[r].cand EXCEPT ![c] = 0]
             stl == IF done THEN [run[r].still EXCEPT ![c] = i] ELSE run[r].still
             frs == IF done THEN run[r].fresh ELSE Append(run[r].fresh, c)
             next == NextMatch(r)
             s == [run[r] EXCEPT !.pc = next, !.at = run[r].at + 1,
                                 !.cand = cnd, !.still = stl, !.fresh = frs]
  <1>1. /\ Become(r, s) /\ WriteFindings(o, t)
        /\ run[r].pc = "match" /\ i # 0
    BY DEF Reraise, Unmatched
  <1>2. c \in Claims
    BY <1>1, MatchCursor
  <1>3. \A d \in Claims : run[r].cand[d] # 0 =>
           run[r].cand[d] \in DOMAIN findings /\ findings[run[r].cand[d]].claim = d
    BY <1>1 DEF Memory, Remembers
  <1>4. findings \in Seq(Finding) /\ now \in Nat /\ SeatOf(r) \in Seats
    BY RunsOf DEF TypeOK
  <1>5. (findings' = t \/ findings' = findings) /\ DOMAIN t = DOMAIN findings
    BY <1>1, <1>4, ReopenTable DEF WriteFindings
  <1>6. ASSUME NEW j \in DOMAIN findings PROVE LawfulChange(j)
    <2>1. \/ t[j] = findings[j]
          \/ /\ j = i /\ findings[j].seat = SeatOf(r)
             /\ findings[j].status \in REOPENABLE_STATUSES
             /\ t[j].status = "open" /\ t[j].reopened = findings[j].reopened + 1
             /\ SameClaim(findings[j], t[j])
      BY <1>4, ReopenRow
    <2>2. findings[i].claim = c
      BY <1>1, <1>2, <1>3
    <2> HIDE DEF t, i
    <2>3. QED
      BY <1>1, <1>5, <2>1, <2>2, SameRow
         DEF LawfulChange, SameClaim, REOPENABLE_STATUSES
  <1>7. LawfulRows
    BY <1>5, <1>6 DEF LawfulRows
  <1>8. next \in {"match", "touch"}
    BY DEF NextMatch
  <1>9. \A d \in Claims : cnd[d] # 0 => cnd[d] = run[r].cand[d]
    <2>1. run[r].cand \in [Claims -> Nat]
      BY DEF TypeOK, RunState
    <2> HIDE DEF c
    <2>2. QED
      BY <1>2, <2>1
  <1> HIDE DEF c, i, done, t, cnd, stl, frs, next
  <1>10. s.pc = next /\ s.cand = cnd
    BY DEF TypeOK, RunState
  <1> HIDE DEF s
  <1>11. Remembers(s)
    BY <1>3, <1>8, <1>9, <1>10 DEF Remembers
  <1>12. QED
    BY <1>1, <1>7, <1>11, LawfulKeepsClaims, MemoryStep

\* Rows that keep their status, their count and their claim change lawfully.
LEMMA SameLife ==
    ASSUME NEW t, DOMAIN findings \subseteq DOMAIN t, findings' = t \/ findings' = findings,
           \A j \in DOMAIN findings : /\ t[j].status = findings[j].status
                                      /\ t[j].reopened = findings[j].reopened
                                      /\ SameClaim(findings[j], t[j])
    PROVE  LawfulRows
  BY DEF LawfulRows, LawfulChange, SameClaim

LEMMA TouchLawful ==
    ASSUME TypeOK, Memory, NEW r \in Runs, NEW o \in Outcomes, Touch(r, o)
    PROVE  LawfulRows /\ Memory'
  <1> DEFINE t == touch_findings(findings, SeatOf(r), run[r].touch, now)
             s == [run[r] EXCEPT !.pc = "record"]
  <1>1. Become(r, s) /\ (findings' = t \/ findings' = findings)
    BY DEF Touch, WriteFindings
  <1>2. findings \in Seq(Finding) /\ now \in Nat
    BY DEF TypeOK
  <1>3. DOMAIN t = DOMAIN findings
    BY <1>2, TouchTable
  <1>4. \A j \in DOMAIN findings : /\ t[j].status = findings[j].status
                                   /\ t[j].reopened = findings[j].reopened
                                   /\ SameClaim(findings[j], t[j])
    BY <1>2, TouchRow
  <1> HIDE DEF t
  <1>5. LawfulRows
    BY <1>1, <1>3, <1>4, SameLife
  <1>6. s.pc = "record"
    BY DEF TypeOK, RunState
  <1> HIDE DEF s
  <1>7. QED
    BY <1>1, <1>5, <1>6, Forgets, LawfulKeepsClaims, MemoryStep

LEMMA RecordFindingsLawful ==
    ASSUME TypeOK, Memory, NEW r \in Runs, NEW o \in Outcomes, RecordFindings(r, o)
    PROVE  LawfulRows /\ Memory'
  <1> DEFINE t == record_findings(findings, SeatOf(r), run[r].round, JobOf(r),
                                  run[r].fresh, now)
             s == [run[r] EXCEPT !.pc = IF Applied(o) THEN "coverage" ELSE "unrecorded"]
  <1>1. Become(r, s) /\ (findings' = t \/ findings' = findings)
    BY DEF RecordFindings, WriteFindings
  <1>2. /\ run[r].round \in Nat /\ run[r].fresh \in Seq(Claims) /\ now \in Nat
        /\ SeatOf(r) \in Seats /\ JobOf(r) \in Jobs /\ findings \in Seq(Finding)
    BY RunsOf DEF TypeOK, RunState
  <1>3. DOMAIN findings \subseteq DOMAIN t /\ \A j \in DOMAIN findings : t[j] = findings[j]
    BY <1>2, RecordRow
  <1> HIDE DEF t
  <1>4. LawfulRows
    BY <1>1, <1>3, SameLife DEF SameClaim
  <1>5. s.pc \in {"coverage", "unrecorded"}
    BY DEF TypeOK, RunState
  <1> HIDE DEF s
  <1>6. QED
    BY <1>1, <1>4, <1>5, Forgets, LawfulKeepsClaims, MemoryStep

LEMMA CancelLawful ==
    ASSUME TypeOK, Memory, NEW p \in Jobs, Cancel(p) PROVE LawfulRows /\ Memory'
  <1>1. UNCHANGED findings
    BY DEF Cancel, Internal, ReadOnly
  <1>2. Crashed.pc = "crashed"
    BY DEF Crashed, Idle
  <1>3. Remembers(Crashed)
    BY <1>2, Forgets
  <1>4. \A q \in Runs : Remembers(run'[q])
    BY <1>3 DEF Cancel, Memory
  <1>5. ASSUME NEW q \in Runs PROVE Remembers(run[q])'
    BY <1>1, <1>4 DEF Remembers
  <1>6. QED
    BY <1>1, <1>5, SameRows DEF Memory

LEMMA StillLawful ==
    ASSUME Memory, UNCHANGED <<findings, run>> PROVE LawfulRows /\ Memory'
  <1>1. ASSUME NEW q \in Runs PROVE Remembers(run[q])'
    BY DEF Memory, Remembers
  <1>2. QED
    BY <1>1, SameRows DEF Memory

LEMMA LawfulStep == TypeOK /\ Memory /\ [Next]_vars => LawfulRows /\ Memory'
  <1> SUFFICES ASSUME TypeOK, Memory, [Next]_vars PROVE LawfulRows /\ Memory'
    OBVIOUS
  <1>1. CASE UNCHANGED vars
    BY <1>1, StillLawful DEF vars
  <1>2. ASSUME NEW r \in Runs, NEW o \in Outcomes, RecordCoverage(r, o)
        PROVE  LawfulRows /\ Memory'
    BY <1>2, EndsLawful DEF RecordCoverage, WriteCoverage
  <1>3. ASSUME NEW r \in Runs, NEW o \in Outcomes, Call(r, o) PROVE LawfulRows /\ Memory'
    BY <1>2, <1>3, ExpireTouchedLawful, ReadOpenLawful, RetireMissingLawful,
       ReadCoverageLawful, ExpireDeadLawful, ReadRoundLawful, ApplyVerdictLawful,
       ReadSettledLawful, ReraiseLawful, TouchLawful, RecordFindingsLawful DEF Call
  <1>4. ASSUME NEW r \in Runs, ReviewFails(r) \/ SkipCoverage(r) PROVE LawfulRows /\ Memory'
    BY <1>4, EndsLawful DEF ReviewFails, SkipCoverage, Internal, ReadOnly
  <1>5. CASE Lapse
    BY <1>5, StillLawful DEF Lapse
  <1>6. CASE Next
    BY <1>3, <1>4, <1>5, <1>6, StepCases, StartLawful, ReviewLawful, DedupeCarriedLawful,
       DedupeTwinLawful, MatchFreshLawful, CancelLawful
  <1>7. QED
    BY <1>1, <1>6

\* settle and carry_in: however branches, jobs and degraded calls interleave, a
\* row is closed only on a verdict its round was offered it for or because the
\* round's tree lacks the file, comes back only when a round of its seat
\* publishes the claim and is counted then, and never comes back from `stale'.
THEOREM LifecycleLawful == Spec => LawfulStatusChange
  <1>1. Init => Memory
    BY DEF Init, Memory, Remembers, Idle
  <1>2. TypeOK /\ Memory /\ [Next]_vars =>
          [ /\ DOMAIN findings \subseteq DOMAIN findings'
            /\ \A i \in DOMAIN findings : LawfulChange(i) ]_vars
    BY LawfulStep DEF LawfulRows
  <1>3. TypeOK /\ Memory /\ [Next]_vars => Memory'
    BY LawfulStep
  <1>4. QED
    BY <1>1, <1>2, <1>3, TypeCorrect, PTL DEF Spec, LawfulStatusChange

-----------------------------------------------------------------------------
(* What each statement does to the rows a round can be offered *)

SameClaims(t, u) == \A i \in DOMAIN t : i \in DOMAIN u /\ u[i].claim = t[i].claim

LEMMA OpenRow ==
    ASSUME NEW t, NEW seat, NEW h, NEW i
    PROVE  i \in OpenRows(t, seat, h) <=>
             i \in DOMAIN t /\ t[i].seat = seat /\ t[i].status = "open" /\ t[i].updated > h
  BY DEF OpenRows

LEMMA TransitionOpen ==
    ASSUME NEW t \in Seq(Finding), NEW seat, NEW id, NEW st \in FINDING_STATUSES \ {"open"},
           NEW n \in Nat, NEW h \in Nat
    PROVE  LET u == transition(t, seat, id, st, n)
           IN  /\ OpenRows(u, seat, h) = OpenRows(t, seat, h) \ {id}
               /\ SameClaims(t, u)
  <1> DEFINE u == transition(t, seat, id, st, n)
  <1>1. /\ DOMAIN u = DOMAIN t
        /\ \A i \in DOMAIN t :
             u[i] = IF i = id /\ Matches(t, seat, i, {"open"})
                    THEN Closed(t[i], st, n) ELSE t[i]
    BY DEF transition
  <1> HIDE DEF u
  <1>2. ASSUME NEW i \in DOMAIN t
        PROVE  /\ u[i].claim = t[i].claim
               /\ i \in OpenRows(u, seat, h) <=> i \in OpenRows(t, seat, h) /\ i # id
    <2>1. CASE u[i] = t[i] /\ ~(i = id /\ Matches(t, seat, i, {"open"}))
      BY <1>1, <2>1, OpenRow DEF Matches
    <2>2. CASE i = id /\ u[i] = Closed(t[i], st, n)
      BY <1>1, <2>2, OpenRow, ClosedRow, RowOf DEF SameClaim
    <2>3. QED
      BY <1>1, <2>1, <2>2
  <1>3. OpenRows(u, seat, h) \subseteq DOMAIN u /\ OpenRows(t, seat, h) \subseteq DOMAIN t
    BY DEF OpenRows
  <1>4. QED
    BY <1>1, <1>2, <1>3 DEF SameClaims, u

LEMMA ReopenOpen ==
    ASSUME NEW t \in Seq(Finding), NEW seat, NEW id, NEW n \in Nat, NEW h \in Nat, h < n
    PROVE  LET u == reopen(t, seat, id, n)
           IN  /\ OpenRows(u, seat, h)
                    = OpenRows(t, seat, h) \cup
                        (IF Matches(t, seat, id, REOPENABLE_STATUSES) THEN {id} ELSE {})
               /\ SameClaims(t, u)
  <1> DEFINE u == reopen(t, seat, id, n)
  <1>1. /\ DOMAIN u = DOMAIN t
        /\ \A i \in DOMAIN t :
             u[i] = IF i = id /\ Matches(t, seat, i, REOPENABLE_STATUSES)
                    THEN Reopened(t[i], n) ELSE t[i]
    BY DEF reopen
  <1> HIDE DEF u
  <1>2. ASSUME NEW i \in DOMAIN t
        PROVE  /\ u[i].claim = t[i].claim
               /\ i \in OpenRows(u, seat, h) <=>
                    \/ i \in OpenRows(t, seat, h)
                    \/ i = id /\ Matches(t, seat, id, REOPENABLE_STATUSES)
    <2>1. CASE u[i] = t[i] /\ ~(i = id /\ Matches(t, seat, i, REOPENABLE_STATUSES))
      BY <1>1, <2>1, OpenRow
    <2>2. CASE i = id /\ u[i] = Reopened(t[i], n) /\ Matches(t, seat, i, REOPENABLE_STATUSES)
      <3>1. t[i] \in Finding
        BY RowOf
      <3>2. /\ u[i].claim = t[i].claim /\ u[i].seat = t[i].seat
            /\ u[i].status = "open" /\ u[i].updated = n
        BY <2>2, <3>1, ReopenedRow DEF SameClaim
      <3>3. t[i].seat = seat
        BY <2>2 DEF Matches
      <3>4. QED
        BY <1>1, <2>2, <3>2, <3>3, OpenRow
    <2>3. QED
      BY <1>1, <2>1, <2>2
  <1>3. /\ OpenRows(u, seat, h) \subseteq DOMAIN u /\ OpenRows(t, seat, h) \subseteq DOMAIN t
        /\ Matches(t, seat, id, REOPENABLE_STATUSES) => id \in DOMAIN t
    BY DEF OpenRows, Matches
  <1>4. QED
    BY <1>1, <1>2, <1>3 DEF SameClaims, u

LEMMA TouchOpen ==
    ASSUME NEW t \in Seq(Finding), NEW seat, NEW n \in Nat, NEW h \in Nat, h < n,
           NEW ids \in SUBSET OpenRows(t, seat, h)
    PROVE  LET u == touch_findings(t, seat, ids, n)
           IN  /\ OpenRows(u, seat, h) = OpenRows(t, seat, h)
               /\ SameClaims(t, u)
  <1> DEFINE u == touch_findings(t, seat, ids, n)
  <1>1. /\ DOMAIN u = DOMAIN t
        /\ \A i \in DOMAIN t :
             u[i] = IF i \in ids /\ Matches(t, seat, i, {"open"})
                    THEN Touched(t[i], n) ELSE t[i]
    BY DEF touch_findings
  <1> HIDE DEF u
  <1>2. ASSUME NEW i \in DOMAIN t
        PROVE  /\ u[i].claim = t[i].claim
               /\ i \in OpenRows(u, seat, h) <=> i \in OpenRows(t, seat, h)
    <2>1. CASE u[i] = t[i]
      BY <1>1, <2>1, OpenRow
    <2>2. CASE i \in ids /\ u[i] = Touched(t[i], n)
      <3>1. t[i] \in Finding /\ i \in OpenRows(t, seat, h)
        BY <2>2, RowOf
      <3>2. /\ u[i].claim = t[i].claim /\ u[i].seat = t[i].seat
            /\ u[i].status = t[i].status /\ u[i].updated = n
        BY <2>2, <3>1, TouchedRow DEF SameClaim
      <3>3. QED
        BY <1>1, <3>1, <3>2, OpenRow
    <2>3. QED
      BY <1>1, <2>1, <2>2
  <1>3. OpenRows(u, seat, h) \subseteq DOMAIN u /\ OpenRows(t, seat, h) \subseteq DOMAIN t
    BY DEF OpenRows
  <1>4. QED
    BY <1>1, <1>2, <1>3 DEF SameClaims, u

\* The rows record_findings inserts, and what they are.
LEMMA RecordInserts ==
    ASSUME NEW t \in Seq(Finding), NEW s \in Seats, NEW rd \in Nat, NEW h \in Jobs,
           NEW cs \in Seq(Claims), NEW n \in Nat
    PROVE  LET u == record_findings(t, s, rd, h, cs, n)
           IN  /\ DOMAIN t \subseteq DOMAIN u
               /\ \A i \in DOMAIN t : u[i] = t[i]
               /\ \A i \in DOMAIN u : i \notin DOMAIN t =>
                    \E k \in DOMAIN cs : i = Len(t) + k /\ u[i] = NewFinding(s, rd, h, cs[k], n)
               /\ \A k \in DOMAIN cs :
                    /\ Len(t) + k \in DOMAIN u \ DOMAIN t
                    /\ u[Len(t) + k] = NewFinding(s, rd, h, cs[k], n)
  <1> DEFINE w == InsertedFindings(s, rd, h, cs, n)
  <1>1. w \in Seq(Finding) /\ DOMAIN w = DOMAIN cs
    <2>1. w \in Seq(Finding)
      BY RecordRows
    <2>2. DOMAIN w = DOMAIN cs
      BY DEF InsertedFindings
    <2>3. QED
      BY <2>1, <2>2
  <1>2. \A k \in DOMAIN cs : w[k] = NewFinding(s, rd, h, cs[k], n)
    BY DEF InsertedFindings
  <1>3. record_findings(t, s, rd, h, cs, n) = t \o w
    BY DEF record_findings, InsertedFindings
  <1> HIDE DEF w
  <1>4. /\ Len(t) \in Nat /\ Len(w) \in Nat
        /\ DOMAIN t = 1..Len(t) /\ DOMAIN w = 1..Len(w)
        /\ DOMAIN (t \o w) = 1..(Len(t) + Len(w))
    <2>1. t \o w \in Seq(Finding) /\ Len(t \o w) = Len(t) + Len(w)
      BY <1>1, ConcatProperties
    <2>2. QED
      BY <1>1, <2>1, LenProperties
  <1>5. /\ \A i \in DOMAIN t : (t \o w)[i] = t[i]
        /\ \A k \in DOMAIN w : (t \o w)[Len(t) + k] = w[k]
    BY <1>1, AppendRows
  <1>6. ASSUME NEW i \in DOMAIN (t \o w), i \notin DOMAIN t
        PROVE  i - Len(t) \in DOMAIN w /\ i = Len(t) + (i - Len(t))
    BY <1>4, <1>6
  <1>7. \A k \in DOMAIN cs : Len(t) + k \in DOMAIN (t \o w) \ DOMAIN t
    BY <1>1, <1>4
  <1>8. DOMAIN t \subseteq DOMAIN (t \o w)
    BY <1>4
  <1> DEFINE u == t \o w
  <1>9. \A i \in DOMAIN u : i \notin DOMAIN t =>
                    \E k \in DOMAIN cs : i = Len(t) + k /\ u[i] = NewFinding(s, rd, h, cs[k], n)
    BY <1>1, <1>2, <1>5, <1>6
  <1> HIDE DEF u
  <1>10. QED
    BY <1>1, <1>2, <1>3, <1>5, <1>7, <1>8, <1>9 DEF u

-----------------------------------------------------------------------------
(* Labels and coverage through a statement *)

\* u holds the rows of t under the labels they had: its head, seat and round.
SameLabels(t, u) ==
    /\ DOMAIN u = DOMAIN t
    /\ \A i \in DOMAIN t :
          u[i].seat = t[i].seat /\ u[i].round = t[i].round /\ u[i].head = t[i].head

LEMMA TransitionLabels ==
    ASSUME NEW t \in Seq(Finding), NEW seat, NEW id, NEW st \in FINDING_STATUSES, NEW n \in Nat
    PROVE  SameLabels(t, transition(t, seat, id, st, n))
  <1>1. \A x \in Finding : /\ Closed(x, st, n).seat = x.seat
                           /\ Closed(x, st, n).round = x.round
                           /\ Closed(x, st, n).head = x.head
    BY DEF Finding, Closed
  <1>2. QED
    BY <1>1, RowOf DEF SameLabels, transition

LEMMA ReopenLabels ==
    ASSUME NEW t \in Seq(Finding), NEW seat, NEW id, NEW n \in Nat
    PROVE  SameLabels(t, reopen(t, seat, id, n))
  <1>1. \A x \in Finding : /\ Reopened(x, n).seat = x.seat
                           /\ Reopened(x, n).round = x.round
                           /\ Reopened(x, n).head = x.head
    BY DEF Finding, Reopened
  <1>2. QED
    BY <1>1, RowOf DEF SameLabels, reopen

LEMMA TouchLabels ==
    ASSUME NEW t \in Seq(Finding), NEW seat, NEW ids, NEW n \in Nat
    PROVE  SameLabels(t, touch_findings(t, seat, ids, n))
  <1>1. \A x \in Finding : /\ Touched(x, n).seat = x.seat
                           /\ Touched(x, n).round = x.round
                           /\ Touched(x, n).head = x.head
    BY DEF Finding, Touched
  <1>2. QED
    BY <1>1, RowOf DEF SameLabels, touch_findings

\* Coverage rows keep what they say of which file.
SameCoverage(c, d) ==
    \A i \in DOMAIN c : /\ i \in DOMAIN d
                        /\ d[i].file = c[i].file /\ d[i].hollow = c[i].hollow
                        /\ d[i].seat = c[i].seat
                        /\ c[i].expired => d[i].expired

LEMMA ExpireRows ==
    ASSUME NEW c \in Seq(Coverage), NEW seat, NEW fs
    PROVE  LET d == expire_coverage(c, seat, fs)
           IN  /\ SameLabels(c, d)
               /\ SameCoverage(c, d)
               /\ \A i \in DOMAIN d : d[i].seat = seat /\ d[i].file \in fs => d[i].expired
  <1> DEFINE d == expire_coverage(c, seat, fs)
  <1>1. /\ DOMAIN d = DOMAIN c
        /\ \A i \in DOMAIN c : d[i] = IF c[i].seat = seat /\ c[i].file \in fs
                                      THEN Expired(c[i]) ELSE c[i]
    BY DEF expire_coverage
  <1>2. \A x \in Coverage : LET y == Expired(x)
                            IN  /\ y.seat = x.seat /\ y.round = x.round /\ y.head = x.head
                                /\ y.file = x.file /\ y.hollow = x.hollow /\ y.expired
    BY DEF Coverage, Expired
  <1> HIDE DEF d
  <1>3. \A i \in DOMAIN c : c[i] \in Coverage
    BY RowOf
  <1>4. SameLabels(c, d)
    BY <1>1, <1>2, <1>3 DEF SameLabels
  <1>5. SameCoverage(c, d)
    BY <1>1, <1>2, <1>3 DEF SameCoverage
  <1>6. \A i \in DOMAIN d : d[i].seat = seat /\ d[i].file \in fs => d[i].expired
    BY <1>1, <1>2, <1>3
  <1>7. QED
    BY <1>4, <1>5, <1>6 DEF d

\* The rows record_coverage inserts, and what they are.
LEMMA CoverageInserts ==
    ASSUME NEW c \in Seq(Coverage), NEW s \in Seats, NEW rd \in Nat, NEW h \in Jobs,
           NEW rs \in Seq(Regions), NEW n \in Nat
    PROVE  LET d == record_coverage(c, s, rd, h, rs, n)
           IN  /\ DOMAIN c \subseteq DOMAIN d
               /\ \A i \in DOMAIN c : d[i] = c[i]
               /\ \A i \in DOMAIN d : i \notin DOMAIN c =>
                    d[i].seat = s /\ d[i].round = rd /\ d[i].head = h
  <1> DEFINE w == InsertedCoverage(s, rd, h, rs, n)
  <1>1. w \in Seq(Coverage)
    BY RecordCoverageRows
  <1>2. \A k \in DOMAIN w : w[k].seat = s /\ w[k].round = rd /\ w[k].head = h
    BY DEF InsertedCoverage, NewCoverage
  <1>3. record_coverage(c, s, rd, h, rs, n) = c \o w
    BY DEF record_coverage, InsertedCoverage
  <1> HIDE DEF w
  <1>4. QED
    BY <1>1, <1>2, <1>3, AppendRows

\* A new label is above every label in use.
LEMMA NextRoundAbove ==
    ASSUME NEW t \in Seq(Finding), NEW c \in Seq(Coverage), NEW seat
    PROVE  /\ \A i \in DOMAIN t : t[i].seat = seat => t[i].round < next_round(t, c, seat)
           /\ \A i \in DOMAIN c : c[i].seat = seat => c[i].round < next_round(t, c, seat)
  <1> DEFINE used == RoundsUsed(t, c, seat)
  <1>1. used \subseteq Nat /\ (used # {} => \E n \in used : \A m \in used : m <= n)
    BY GreatestRound
  <1>2. next_round(t, c, seat)
          = IF used = {} THEN 1 ELSE (CHOOSE n \in used : \A m \in used : m <= n) + 1
    BY DEF next_round, TopPlusOne, RoundsUsed
  <1>3. /\ \A i \in DOMAIN t : t[i].seat = seat => t[i].round \in used
        /\ \A i \in DOMAIN c : c[i].seat = seat => c[i].round \in used
    BY DEF RoundsUsed
  <1> HIDE DEF used
  <1>4. ASSUME NEW m \in used PROVE m < next_round(t, c, seat)
    <2> DEFINE last == CHOOSE k \in used : \A j \in used : j <= k
    <2>1. last \in used /\ \A j \in used : j <= last
      BY <1>1, <1>4
    <2>2. next_round(t, c, seat) = last + 1
      BY <1>2, <1>4
    <2> HIDE DEF last
    <2>3. QED
      BY <1>1, <2>1, <2>2
  <1>5. QED
    BY <1>3, <1>4

-----------------------------------------------------------------------------
(* One job at a time *)

\* A branch between its start and its end.
AtWork(s) == s.pc \notin Terminal \cup {"idle"}

\* What the concurrency group gives: the branches at work are of one job, so
\* of one seat there is at most one; and the window closes behind the clock.
OneJobAtATime ==
    /\ \A r, q \in Runs : AtWork(run[r]) /\ AtWork(run[q]) => JobOf(r) = JobOf(q)
    /\ horizon < now

\* A client is taken for down after a call of its process degraded.
Unlatched == faults = 0 => \A p \in Jobs : ~down[p]

BranchStep(r) ==
    \/ Start(r) \/ Review(r) \/ ReviewFails(r)
    \/ DedupeCarried(r) \/ DedupeTwin(r) \/ MatchFresh(r) \/ SkipCoverage(r)
    \/ \E o \in Outcomes : Call(r, o)

LEMMA BranchSteps ==
    Next => (\E r \in Runs : BranchStep(r)) \/ (\E p \in Jobs : Cancel(p)) \/ Lapse
  BY StepCases DEF BranchStep

\* The steps that write nothing and call nobody.
LEMMA InternalSteps ==
    ASSUME NEW r \in Runs,
           Start(r) \/ Review(r) \/ ReviewFails(r) \/ DedupeCarried(r) \/ DedupeTwin(r)
           \/ MatchFresh(r) \/ SkipCoverage(r)
    PROVE  ReadOnly /\ UNCHANGED <<down, faults>>
  BY DEF Start, Review, ReviewFails, DedupeCarried, DedupeTwin, MatchFresh, SkipCoverage, Internal

\* The frame of a branch's step: its own memory, rows of its own seat.
LEMMA BranchFrame ==
    ASSUME TypeOK, NEW r \in Runs, BranchStep(r)
    PROVE  /\ \A q \in Runs : q # r => run'[q] = run[q]
           /\ horizon' = horizon
           /\ now' \in {now, now + 1}
           /\ StepOfLane(r)
           /\ AtWork(run[r]) \/ Start(r)
  <1>1. CASE Start(r) \/ Review(r) \/ ReviewFails(r) \/ DedupeCarried(r) \/ DedupeTwin(r)
             \/ MatchFresh(r) \/ SkipCoverage(r)
    <2>1. ReadOnly
      BY <1>1, InternalSteps
    <2>2. \E s : Become(r, s)
      BY <1>1 DEF Start, Review, ReviewFails, DedupeCarried, DedupeTwin, MatchFresh, SkipCoverage
    <2>3. \A q \in Runs : q # r => run'[q] = run[q]
      BY <2>2 DEF Become, TypeOK
    <2>4. AtWork(run[r]) \/ Start(r)
      BY <1>1 DEF Review, ReviewFails, DedupeCarried, DedupeTwin, MatchFresh, Unmatched,
                  SkipCoverage, AfterRecord, AtWork, Terminal
    <2>5. QED
      BY <2>1, <2>3, <2>4, NoWrite DEF ReadOnly
  <1>2. ASSUME NEW o \in Outcomes, Call(r, o)
        PROVE  /\ \A q \in Runs : q # r => run'[q] = run[q]
               /\ horizon' = horizon /\ now' \in {now, now + 1} /\ AtWork(run[r])
    <2>1. \E s : Become(r, s)
      BY <1>2 DEF Call, ExpireTouched, ReadOpen, RetireMissing, ReadCoverage, ExpireDead,
                  ReadRound, ApplyVerdict, ReadSettled, Reraise, Touch, RecordFindings,
                  RecordCoverage
    <2>2. \A q \in Runs : q # r => run'[q] = run[q]
      BY <2>1 DEF Become, TypeOK
    <2>3. horizon' = horizon /\ now' \in {now, now + 1}
      BY <1>2 DEF Call, ExpireTouched, ReadOpen, RetireMissing, ReadCoverage, ExpireDead,
                  ReadRound, ApplyVerdict, ReadSettled, Reraise, Touch, RecordFindings,
                  RecordCoverage, ReadOnly, WriteFindings, WriteCoverage
    <2>4. AtWork(run[r])
      BY <1>2 DEF Call, ExpireTouched, ReadOpen, RetireMissing, ReadCoverage, ExpireDead,
                  ReadRound, ApplyVerdict, ReadSettled, Reraise, Unmatched, Touch,
                  RecordFindings, RecordCoverage, AfterRecord, AtWork, Terminal
    <2>5. QED
      BY <2>2, <2>3, <2>4
  <1>3. CASE \E o \in Outcomes : Call(r, o)
    BY <1>2, <1>3, CallOfLane
  <1>4. QED
    BY <1>1, <1>3 DEF BranchStep

\* A call that did not degrade, on a store no call has degraded of before.
LEMMA CleanOutcome ==
    ASSUME TypeOK, Unlatched, NEW r \in Runs, NEW o \in Outcomes, Outcome(r, o), faults' = 0
    PROVE  o = "ok" /\ faults = 0 /\ UNCHANGED <<down, faults>>
  <1>1. faults \in Nat /\ JobOf(r) \in Jobs
    BY RunsOf, LedgerConstants DEF TypeOK
  <1>2. QED
    BY <1>1 DEF Outcome, Unreachable, Unlatched

LEMMA CleanBatch ==
    ASSUME TypeOK, Unlatched, NEW r \in Runs, NEW o \in Outcomes, NEW e,
           BatchOutcome(r, e, o), faults' = 0
    PROVE  o = "ok" /\ faults = 0 /\ UNCHANGED <<down, faults>>
  BY CleanOutcome DEF BatchOutcome

LEMMA CleanCall ==
    ASSUME TypeOK, Unlatched, NEW r \in Runs, NEW o \in Outcomes, Call(r, o), faults' = 0
    PROVE  o = "ok" /\ faults = 0 /\ UNCHANGED <<down, faults>>
  <1>1. Outcome(r, o) \/ \E e : BatchOutcome(r, e, o)
    BY DEF Call, ExpireTouched, ReadOpen, RetireMissing, ReadCoverage, ExpireDead,
           ReadRound, ApplyVerdict, ReadSettled, Reraise, Touch, RecordFindings,
           RecordCoverage
  <1>2. QED
    BY <1>1, CleanOutcome, CleanBatch

\* The first degraded call is never forgotten.
LEMMA CleanBefore ==
    ASSUME TypeOK, Unlatched, [Next]_vars, faults' = 0
    PROVE  faults = 0 /\ UNCHANGED <<down, faults>>
  <1>1. ASSUME NEW r \in Runs, BranchStep(r) PROVE faults = 0 /\ UNCHANGED <<down, faults>>
    BY <1>1, CleanCall, InternalSteps DEF BranchStep
  <1>2. ASSUME Lapse \/ UNCHANGED vars \/ \E p \in Jobs : Cancel(p)
        PROVE  faults = 0 /\ UNCHANGED <<down, faults>>
    BY <1>2 DEF Lapse, vars, Cancel, Internal
  <1>3. QED
    BY <1>1, <1>2, BranchSteps

LEMMA UnlatchedStep == TypeOK /\ Unlatched /\ [Next]_vars => Unlatched'
  BY CleanBefore DEF Unlatched

LEMMA OneJobStep ==
    ASSUME Overlap = FALSE
    PROVE  TypeOK /\ OneJobAtATime /\ [Next]_vars => OneJobAtATime'
  <1> SUFFICES ASSUME TypeOK, OneJobAtATime, [Next]_vars PROVE OneJobAtATime'
    OBVIOUS
  <1>1. now \in Nat /\ horizon \in Nat
    BY DEF TypeOK
  <1>2. ASSUME NEW r \in Runs, BranchStep(r) PROVE OneJobAtATime'
    <2>1. /\ \A q \in Runs : q # r => run'[q] = run[q]
          /\ horizon' = horizon /\ now' \in {now, now + 1}
          /\ AtWork(run[r]) \/ Start(r)
      BY <1>2, BranchFrame
    <2>2. \A q \in Runs : AtWork(run[q]) => JobOf(q) = JobOf(r)
      <3>1. CASE AtWork(run[r])
        BY <3>1 DEF OneJobAtATime
      <3>2. CASE Start(r)
        BY <3>2, Overlap = FALSE DEF Start, AtWork
      <3>3. QED
        BY <2>1, <3>1, <3>2
    <2>3. \A q \in Runs : AtWork(run'[q]) => JobOf(q) = JobOf(r)
      BY <2>1, <2>2
    <2>4. horizon' < now'
      BY <1>1, <2>1 DEF OneJobAtATime
    <2>5. \A q, p \in Runs : AtWork(run'[q]) /\ AtWork(run'[p]) => JobOf(q) = JobOf(p)
      BY <2>3
    <2>6. QED
      BY <2>4, <2>5 DEF OneJobAtATime, AtWork
  <1>3. ASSUME NEW p \in Jobs, Cancel(p) PROVE OneJobAtATime'
    <2>1. \A q \in Runs : AtWork(run'[q]) => AtWork(run[q])
      <3>1. ~AtWork(Crashed)
        BY DEF AtWork, Crashed, Idle, Terminal
      <3>2. QED
        BY <1>3, <3>1 DEF Cancel, TypeOK
    <2>2. UNCHANGED <<now, horizon>>
      BY <1>3 DEF Cancel, Internal, ReadOnly
    <2>3. \A q, t \in Runs : AtWork(run'[q]) /\ AtWork(run'[t]) => JobOf(q) = JobOf(t)
      BY <2>1 DEF OneJobAtATime
    <2>4. QED
      BY <2>2, <2>3 DEF OneJobAtATime, AtWork
  <1>4. CASE Lapse
    BY <1>1, <1>4 DEF Lapse, OneJobAtATime, AtWork
  <1>5. CASE UNCHANGED vars
    BY <1>5 DEF vars, OneJobAtATime, AtWork
  <1>6. QED
    BY <1>2, <1>3, <1>4, <1>5, BranchSteps

LEMMA OneJobInit == Init => OneJobAtATime /\ Unlatched
  BY DEF Init, OneJobAtATime, Unlatched, AtWork, Idle

-----------------------------------------------------------------------------
(* Nobody else touches the lane of a branch at work *)

SameLane(t, u, seat) ==
    /\ \A i \in DOMAIN t : t[i].seat = seat => i \in DOMAIN u /\ u[i] = t[i]
    /\ \A i \in DOMAIN u : u[i].seat = seat => i \in DOMAIN t /\ u[i] = t[i]

LEMMA LaneOfOthers ==
    ASSUME NEW t, NEW u, NEW seat, NEW other, OfSeat(t, u, seat), other # seat
    PROVE  SameLane(t, u, other)
  BY DEF OfSeat, SameLane

LEMMA SameLaneOpen ==
    ASSUME NEW t, NEW u, NEW seat, NEW h, SameLane(t, u, seat)
    PROVE  /\ OpenRows(u, seat, h) = OpenRows(t, seat, h)
           /\ \A i \in OpenRows(t, seat, h) : u[i] = t[i]
  BY DEF OpenRows, SameLane

\* While a branch is at work, whoever else moves leaves its seat's rows alone.
LEMMA Undisturbed ==
    ASSUME Overlap = FALSE, TypeOK, OneJobAtATime, NEW r \in Runs, BranchStep(r),
           NEW q \in Runs, q # r, AtWork(run[q])
    PROVE  /\ SameLane(findings, findings', SeatOf(q))
           /\ SameLane(coverage, coverage', SeatOf(q))
  <1>1. JobOf(q) = JobOf(r)
    <2>1. CASE AtWork(run[r])
      BY <2>1 DEF OneJobAtATime
    <2>2. CASE Start(r)
      BY <2>2, Overlap = FALSE DEF Start, AtWork
    <2>3. QED
      BY <2>1, <2>2, BranchFrame
  <1>2. SeatOf(q) # SeatOf(r)
    BY <1>1 DEF Runs, JobOf, SeatOf
  <1>3. QED
    BY <1>2, BranchFrame, LaneOfOthers DEF StepOfLane

-----------------------------------------------------------------------------
(* The rows a round has in hand *)

\* A published claim the matching loop is done with: it repeats a row that
\* stays open, or it is to be recorded.
Placed(s, c) == s.still[c] # 0 \/ \E k \in DOMAIN s.fresh : s.fresh[k] = c

Settling == {"verdicts", "settled", "match", "touch", "record"}

\* What a branch with memory s relies on of the rows of its seat in table t:
\* the rows it was offered stay open until it closes them itself, the rows it
\* leaves open are of the claims they are filed under, and a claim it has
\* placed ends up on an open row.
Rests(s, seat, t, h) ==
    /\ s.pc \in {"idle", "expire"} => s.offered = {}
    /\ s.pc \in {"retire", "cover", "dead", "round", "review"} =>
          s.offered \subseteq OpenRows(t, seat, h)
    /\ s.pc = "retire" => s.todo \cap s.offered = {}
    /\ s.pc \in Settling =>
          /\ \A c \in Claims : s.still[c] # 0 =>
                s.still[c] \in OpenRows(t, seat, h) /\ t[s.still[c]].claim = c
          /\ s.touch \subseteq OpenRows(t, seat, h)
    /\ s.pc = "verdicts" =>
          /\ \A c \in Claims : s.still[c] \notin s.todo
          /\ s.touch \cap s.todo = {}
    /\ s.pc = "match" => \A k \in DOMAIN s.publish : k < s.at => Placed(s, s.publish[k])
    /\ s.pc \in {"touch", "record"} => \A k \in DOMAIN s.publish : Placed(s, s.publish[k])
    /\ s.pc = "coverage" /\ s.mode.findings =>
          \A k \in DOMAIN s.publish :
             \E i \in OpenRows(t, seat, h) : t[i].claim = s.publish[k]

OneOpen(t, seat, h) ==
    \A i, j \in OpenRows(t, seat, h) : t[i].claim = t[j].claim => i = j

\* What more it can rely on while no call has degraded: it knows every open
\* row of its seat, by claim, and what it is to record repeats none of them.
Sole(s, seat, t, h) ==
    /\ s.pc \in {"cover", "dead", "round", "review"} /\ s.mode.findings =>
          OpenRows(t, seat, h) \subseteq s.offered
    /\ s.pc = "retire" => OpenRows(t, seat, h) \subseteq s.offered \cup s.todo
    /\ s.pc = "verdicts" =>
          \A i \in OpenRows(t, seat, h) : i \in s.todo \/ s.still[t[i].claim] = i
    /\ s.pc \in {"settled", "match", "touch", "record"} =>
          \A i \in OpenRows(t, seat, h) : s.still[t[i].claim] = i
    /\ s.pc \in {"match", "touch", "record"} =>
          \A k \in DOMAIN s.fresh :
             /\ s.still[s.fresh[k]] = 0
             /\ \A l \in DOMAIN s.fresh : s.fresh[l] = s.fresh[k] => l = k
    /\ s.pc \notin {"match", "touch", "record", "coverage", "unrecorded"} => s.fresh = << >>

\* The claims of the pull request fit in the block of open findings a round is
\* offered, and no call has degraded.
FewClaims ==
    /\ IsFiniteSet(Claims)
    /\ MAX_OPEN_FINDINGS \in Nat
    /\ Cardinality(Claims) <= MAX_OPEN_FINDINGS

Clean == faults = 0 /\ FewClaims

InHand(r) ==
    /\ Rests(run[r], SeatOf(r), findings, horizon)
    /\ Clean => Sole(run[r], SeatOf(r), findings, horizon)
                     /\ OneOpen(findings, SeatOf(r), horizon)

\* What the proof of a step takes for granted.
Steady == TypeOK /\ Memory /\ OneJobAtATime /\ Unlatched

LEMMA Memoryless ==
    ASSUME NEW s, NEW seat, NEW t, NEW h, s.offered = {}, s.fresh = << >>,
           s.pc \in Terminal \cup {"idle"}
    PROVE  Rests(s, seat, t, h) /\ Sole(s, seat, t, h)
  BY DEF Rests, Sole, Settling, Terminal

LEMMA EndsInHand ==
    ASSUME Steady, NEW r \in Runs, InHand(r), UNCHANGED <<findings, horizon>>,
           Clean' => Clean,
           Become(r, Finished) \/ Become(r, Crashed)
    PROVE  InHand(r)'
  <1>1. /\ run'[r] \in {Finished, Crashed}
        /\ run'[r].offered = {} /\ run'[r].fresh = << >>
        /\ run'[r].pc \in Terminal \cup {"idle"}
    <2>1. \A s \in {Finished, Crashed} :
             s.offered = {} /\ s.fresh = << >> /\ s.pc \in Terminal \cup {"idle"}
      BY DEF Finished, Crashed, Idle, Terminal
    <2>2. run'[r] \in {Finished, Crashed}
      BY DEF Steady, TypeOK, Become
    <2>3. QED
      BY <2>1, <2>2
  <1>2. Rests(run'[r], SeatOf(r), findings', horizon') /\ Sole(run'[r], SeatOf(r), findings', horizon')
    BY <1>1, Memoryless
  <1>3. Clean' => OneOpen(findings', SeatOf(r), horizon')
    BY DEF InHand, OneOpen, OpenRows
  <1>4. QED
    BY <1>2, <1>3 DEF InHand, OneOpen, OpenRows, Rests, Sole, Placed

\* A step that writes no finding: only the memory is to be looked at.
LEMMA HandOver ==
    ASSUME Steady, NEW r \in Runs, InHand(r), UNCHANGED <<findings, horizon>>,
           Clean' => Clean,
           NEW s, Become(r, s), Rests(s, SeatOf(r), findings, horizon),
           Clean' => Sole(s, SeatOf(r), findings, horizon)
    PROVE  InHand(r)'
  <1>1. run'[r] = s
    BY DEF Steady, TypeOK, Become
  <1>2. Rests(run'[r], SeatOf(r), findings', horizon')
    BY <1>1
  <1>3. Clean' => Sole(run'[r], SeatOf(r), findings', horizon')
                       /\ OneOpen(findings', SeatOf(r), horizon')
    BY <1>1 DEF InHand
  <1>4. QED
    BY <1>2, <1>3 DEF InHand

\* The same for a step that writes them.
LEMMA HandOn ==
    ASSUME Steady, NEW r \in Runs, NEW s, Become(r, s), horizon' = horizon,
           Rests(s, SeatOf(r), findings', horizon),
           Clean' => Sole(s, SeatOf(r), findings', horizon)
                          /\ OneOpen(findings', SeatOf(r), horizon)
    PROVE  InHand(r)'
  <1>1. run'[r] = s
    BY DEF Steady, TypeOK, Become
  <1>2. Rests(run'[r], SeatOf(r), findings', horizon')
    BY <1>1
  <1>3. Clean' => Sole(run'[r], SeatOf(r), findings', horizon')
                       /\ OneOpen(findings', SeatOf(r), horizon')
    BY <1>1
  <1>4. QED
    BY <1>2, <1>3 DEF InHand

-----------------------------------------------------------------------------
(* What a round has in hand after each of its steps: up to the review *)

LEMMA Known ==
    ASSUME Steady, NEW r \in Runs
    PROVE  /\ run[r] \in RunState /\ Refs(run[r])
           /\ findings \in Seq(Finding) /\ coverage \in Seq(Coverage)
           /\ now \in Nat /\ horizon \in Nat /\ horizon < now
           /\ SeatOf(r) \in Seats /\ JobOf(r) \in Jobs
  BY RunsOf DEF Steady, TypeOK, OneJobAtATime

LEMMA CleanStep ==
    ASSUME Steady, NEW r \in Runs, NEW o \in Outcomes, Call(r, o)
    PROVE  Clean' => Clean /\ o = "ok"
  BY CleanCall DEF Clean, Steady

LEMMA StartInHand ==
    ASSUME Steady, NEW r \in Runs, InHand(r), Start(r) PROVE InHand(r)'
  <1>1. PICK m \in Modes, h \in Heads :
           Become(r, [run[r] EXCEPT !.pc = "expire", !.mode = m, !.head = h])
    BY DEF Start
  <1> DEFINE s == [run[r] EXCEPT !.pc = "expire", !.mode = m, !.head = h]
  <1>2. s.pc = "expire" /\ s.offered = run[r].offered /\ s.fresh = run[r].fresh
    BY Known DEF RunState
  <1>3. run[r].pc = "idle" /\ UNCHANGED <<findings, horizon, faults>>
    BY DEF Start, Internal, ReadOnly
  <1> HIDE DEF s
  <1>4. Rests(s, SeatOf(r), findings, horizon)
    BY <1>2, <1>3 DEF InHand, Rests, Settling
  <1>5. Clean => Sole(s, SeatOf(r), findings, horizon)
    BY <1>2, <1>3 DEF InHand, Sole
  <1>6. QED
    BY <1>1, <1>3, <1>4, <1>5, HandOver DEF s, Clean

LEMMA ExpireTouchedInHand ==
    ASSUME Steady, NEW r \in Runs, InHand(r), NEW o \in Outcomes, ExpireTouched(r, o)
    PROVE  InHand(r)'
  <1> DEFINE s == [run[r] EXCEPT !.pc = IF run[r].mode.findings THEN "open" ELSE "cover"]
  <1>1. /\ s.offered = run[r].offered /\ s.fresh = run[r].fresh /\ s.mode = run[r].mode
        /\ s.pc = IF run[r].mode.findings THEN "open" ELSE "cover"
    BY Known DEF RunState
  <1>2. run[r].pc = "expire" /\ UNCHANGED <<findings, horizon>> /\ Become(r, s)
    BY DEF ExpireTouched, WriteCoverage
  <1>3. Clean' => Clean
    BY CleanStep DEF Call
  <1> HIDE DEF s
  <1>4. Rests(s, SeatOf(r), findings, horizon)
    BY <1>1, <1>2 DEF InHand, Rests, Settling
  <1>5. Clean => Sole(s, SeatOf(r), findings, horizon)
    BY <1>1, <1>2 DEF InHand, Sole
  <1>6. QED
    BY <1>2, <1>3, <1>4, <1>5, HandOver

\* The rows a round had in hand before its review it has in hand after a step
\* that only moves it on.
LEMMA CarriedOn ==
    ASSUME NEW s, NEW u, NEW seat, NEW t, NEW h,
           u.pc \in {"cover", "dead", "round"}, s.pc \in {"dead", "round", "review"},
           s.offered = u.offered, s.fresh = u.fresh, s.mode = u.mode
    PROVE  /\ Rests(u, seat, t, h) => Rests(s, seat, t, h)
           /\ Sole(u, seat, t, h) => Sole(s, seat, t, h)
  BY DEF Rests, Sole, Settling

LEMMA ReadCoverageInHand ==
    ASSUME Steady, NEW r \in Runs, InHand(r), NEW o \in Outcomes, ReadCoverage(r, o)
    PROVE  InHand(r)'
  <1>1. PICK dead, shown :
           Become(r, [run[r] EXCEPT !.pc = IF dead = {} THEN "round" ELSE "dead",
                                    !.dead = dead, !.shown = shown])
    BY DEF ReadCoverage
  <1> DEFINE s == [run[r] EXCEPT !.pc = IF dead = {} THEN "round" ELSE "dead",
                                 !.dead = dead, !.shown = shown]
  <1>2. /\ s.offered = run[r].offered /\ s.fresh = run[r].fresh /\ s.mode = run[r].mode
        /\ s.pc \in {"round", "dead"}
    BY Known DEF RunState
  <1>3. run[r].pc = "cover" /\ UNCHANGED <<findings, horizon>>
    BY DEF ReadCoverage, ReadOnly
  <1>4. Clean' => Clean
    BY CleanStep DEF Call
  <1>5. Become(r, s)
    BY <1>1
  <1> HIDE DEF s
  <1>6. Rests(s, SeatOf(r), findings, horizon)
    BY <1>2, <1>3, CarriedOn DEF InHand
  <1>7. Clean => Sole(s, SeatOf(r), findings, horizon)
    BY <1>2, <1>3, CarriedOn DEF InHand
  <1>8. QED
    BY <1>3, <1>4, <1>5, <1>6, <1>7, HandOver

LEMMA ExpireDeadInHand ==
    ASSUME Steady, NEW r \in Runs, InHand(r), NEW o \in Outcomes, ExpireDead(r, o)
    PROVE  InHand(r)'
  <1> DEFINE s == [run[r] EXCEPT !.pc = "round"]
  <1>1. /\ s.offered = run[r].offered /\ s.fresh = run[r].fresh /\ s.mode = run[r].mode
        /\ s.pc = "round"
    BY Known DEF RunState
  <1>2. run[r].pc = "dead" /\ UNCHANGED <<findings, horizon>> /\ Become(r, s)
    BY DEF ExpireDead, WriteCoverage
  <1>3. Clean' => Clean
    BY CleanStep DEF Call
  <1> HIDE DEF s
  <1>4. QED
    BY <1>1, <1>2, <1>3, CarriedOn, HandOver DEF InHand

LEMMA ReadRoundInHand ==
    ASSUME Steady, NEW r \in Runs, InHand(r), NEW o \in Outcomes, ReadRound(r, o)
    PROVE  InHand(r)'
  <1>1. PICK n : Become(r, [run[r] EXCEPT !.pc = "review", !.round = n])
    BY DEF ReadRound
  <1> DEFINE s == [run[r] EXCEPT !.pc = "review", !.round = n]
  <1>2. /\ s.offered = run[r].offered /\ s.fresh = run[r].fresh /\ s.mode = run[r].mode
        /\ s.pc = "review"
    BY Known DEF RunState
  <1>3. run[r].pc \in {"cover", "round"} /\ UNCHANGED <<findings, horizon>>
    BY DEF ReadRound, ReadOnly
  <1>4. Clean' => Clean
    BY CleanStep DEF Call
  <1>5. Become(r, s)
    BY <1>1
  <1> HIDE DEF s
  <1>6. Rests(s, SeatOf(r), findings, horizon)
    BY <1>2, <1>3, CarriedOn DEF InHand
  <1>7. Clean => Sole(s, SeatOf(r), findings, horizon)
    BY <1>2, <1>3, CarriedOn DEF InHand
  <1>8. QED
    BY <1>3, <1>4, <1>5, <1>6, <1>7, HandOver

LEMMA ReadSettledInHand ==
    ASSUME Steady, NEW r \in Runs, InHand(r), NEW o \in Outcomes, ReadSettled(r, o)
    PROVE  InHand(r)'
  <1>1. PICK cnd : Become(r, [run[r] EXCEPT !.pc = "match", !.cand = cnd])
    BY DEF ReadSettled
  <1> DEFINE s == [run[r] EXCEPT !.pc = "match", !.cand = cnd]
  <1>2. /\ s.pc = "match" /\ s.still = run[r].still /\ s.touch = run[r].touch
        /\ s.at = run[r].at /\ s.publish = run[r].publish /\ s.fresh = run[r].fresh
    BY Known DEF RunState
  <1>3. run[r].pc = "settled" /\ UNCHANGED <<findings, horizon>>
    BY DEF ReadSettled, ReadOnly
  <1>4. s.at = 1 /\ \A k \in DOMAIN s.publish : ~(k < s.at)
    <2>1. run[r].at = 1
      BY <1>3, Known DEF Refs
    <2>2. DOMAIN run[r].publish = 1..Len(run[r].publish) /\ Len(run[r].publish) \in Nat
      BY Known, LenProperties DEF RunState
    <2>3. QED
      BY <1>2, <2>1, <2>2
  <1>5. Clean' => Clean
    BY CleanStep DEF Call
  <1> HIDE DEF s
  <1>6. Rests(s, SeatOf(r), findings, horizon)
    BY <1>2, <1>3, <1>4 DEF InHand, Rests, Settling
  <1>7. Sole(run[r], SeatOf(r), findings, horizon) => Sole(s, SeatOf(r), findings, horizon)
    <2>1. ASSUME run[r].fresh = << >> PROVE DOMAIN run[r].fresh = {}
      BY <2>1
    <2>2. QED
      BY <1>2, <1>3, <2>1 DEF Sole
  <1>8. QED
    BY <1>1, <1>3, <1>5, <1>6, <1>7, HandOver DEF s, InHand

-----------------------------------------------------------------------------
(* The review and its verdicts *)

\* What the round leaves open, by claim: a row of the claim among the rows it
\* was offered and does not close, and no row only if there is none.
LEMMA LeftOpen ==
    ASSUME Steady, NEW r \in Runs, NEW closing, NEW c \in Claims
    PROVE  LET left == {i \in run[r].offered \ closing : findings[i].claim = c}
           IN  IF left = {} THEN StillOpen(r, closing)[c] = 0
               ELSE StillOpen(r, closing)[c] \in left
  <1> DEFINE left == {i \in run[r].offered \ closing : findings[i].claim = c}
  <1>1. left \in SUBSET DOMAIN findings
    BY Known DEF Refs
  <1>2. StillOpen(r, closing)[c] = LatestOf(left)
    BY DEF StillOpen
  <1> HIDE DEF left
  <1>3. QED
    BY <1>1, <1>2, LatestRow, Known DEF left

LEMMA ReviewInHand ==
    ASSUME Steady, NEW r \in Runs, InHand(r), Review(r) PROVE InHand(r)'
  <1> DEFINE lane == OpenRows(findings, SeatOf(r), horizon)
  <1>1. PICK said \in [run[r].offered -> Verdicts],
             publish \in Publications, examined \in Examinations :
             LET closing == {i \in run[r].offered : Closes(said[i])}
             IN  Become(r, [run[r] EXCEPT
                   !.fixed = {i \in run[r].offered : said[i] = "fixed"},
                   !.rejected = {i \in run[r].offered : said[i] = "rejected"},
                   !.todo = closing,
                   !.touch = {i \in run[r].offered : Reasserts(said[i])},
                   !.still = StillOpen(r, closing),
                   !.publish = publish,
                   !.examined = examined,
                   !.pc = IF ~run[r].mode.findings THEN "coverage"
                          ELSE IF closing # {} THEN "verdicts"
                          ELSE IF publish # << >> THEN "settled"
                          ELSE "touch"])
    BY DEF Review
  <1> DEFINE closing == {i \in run[r].offered : Closes(said[i])}
             fix == {i \in run[r].offered : said[i] = "fixed"}
             rej == {i \in run[r].offered : said[i] = "rejected"}
             tch == {i \in run[r].offered : Reasserts(said[i])}
             stl == StillOpen(r, closing)
             dest == IF ~run[r].mode.findings THEN "coverage"
                     ELSE IF closing # {} THEN "verdicts"
                     ELSE IF publish # << >> THEN "settled"
                     ELSE "touch"
             s == [run[r] EXCEPT !.fixed = fix, !.rejected = rej, !.todo = closing,
                     !.touch = tch, !.still = stl, !.publish = publish,
                     !.examined = examined, !.pc = dest]
  <1>2. Become(r, s) /\ UNCHANGED <<findings, horizon, faults>> /\ run[r].pc = "review"
    BY <1>1 DEF Review, Internal, ReadOnly
  <1>3. tch \cap closing = {} /\ tch \subseteq run[r].offered /\ closing \subseteq run[r].offered
    BY DEF Closes, Reasserts
  <1>4. \A c \in Claims : stl[c] # 0 =>
           stl[c] \in run[r].offered \ closing /\ findings[stl[c]].claim = c
    BY LeftOpen
  <1>5. \A i \in run[r].offered \ closing : findings[i].claim \in Claims =>
           /\ stl[findings[i].claim] \in run[r].offered
           /\ findings[stl[findings[i].claim]].claim = findings[i].claim
    BY LeftOpen
  <1>6. /\ dest \in {"coverage", "verdicts", "settled", "touch"}
        /\ dest = "coverage" <=> ~run[r].mode.findings
        /\ dest \in {"settled", "touch"} => closing = {}
        /\ dest = "touch" => publish = << >>
    OBVIOUS
  <1> HIDE DEF closing, fix, rej, tch, stl, dest
  <1>7. /\ s.pc = dest /\ s.todo = closing /\ s.offered = run[r].offered
        /\ s.still = stl /\ s.touch = tch /\ s.publish = publish
        /\ s.mode = run[r].mode /\ s.fresh = run[r].fresh
    BY Known DEF RunState
  <1> HIDE DEF s
  <1>8. run[r].offered \subseteq lane
    BY <1>2 DEF InHand, Rests
  <1>9. \A k \in DOMAIN << >> : Placed(s, << >>[k])
    OBVIOUS
  <1>10. Rests(s, SeatOf(r), findings, horizon)
    <2>1. ASSUME NEW c \in Claims, stl[c] # 0
          PROVE  stl[c] \in lane /\ findings[stl[c]].claim = c /\ stl[c] \notin closing
      BY <1>4, <1>8, <2>1
    <2>2. dest = "verdicts" => \A c \in Claims : stl[c] \notin closing
      <3>1. 0 \notin run[r].offered
        BY <1>8, Known, LenProperties DEF OpenRows
      <3>2. QED
        BY <1>3, <2>1, <3>1
    <2>3. QED
      BY <1>3, <1>6, <1>7, <1>8, <1>9, <2>1, <2>2 DEF Rests, Settling
  <1>11. ASSUME Clean PROVE Sole(s, SeatOf(r), findings, horizon)
    <2>1. /\ run[r].mode.findings => lane \subseteq run[r].offered
          /\ run[r].fresh = << >>
          /\ \A i, j \in lane : findings[i].claim = findings[j].claim => i = j
      BY <1>2, <1>11 DEF InHand, Sole, OneOpen
    <2>2. \A i \in lane : findings[i].claim \in Claims
      <3>1. \A i \in lane : findings[i] \in Finding
        BY Known, RowOf DEF OpenRows
      <3>2. QED
        BY <3>1 DEF Finding
    <2>3. run[r].mode.findings => \A i \in lane : i \in closing \/ stl[findings[i].claim] = i
      BY <1>5, <1>8, <2>1, <2>2
    <2>4. s.fresh = << >> /\ DOMAIN s.fresh = {}
      BY <1>7, <2>1
    <2>5. QED
      BY <1>6, <1>7, <2>3, <2>4 DEF Sole
  <1>12. QED
    BY <1>2, <1>10, <1>11, HandOver DEF Clean

\* A transition on the store, whatever comes of the call.
LEMMA TransitionCalled ==
    ASSUME Steady, NEW r \in Runs, NEW o, NEW i, NEW st \in FINDING_STATUSES \ {"open"},
           WriteFindings(o, transition(findings, SeatOf(r), i, st, now))
    PROVE  /\ OpenRows(findings', SeatOf(r), horizon)
                = IF Applied(o) THEN OpenRows(findings, SeatOf(r), horizon) \ {i}
                  ELSE OpenRows(findings, SeatOf(r), horizon)
           /\ SameClaims(findings, findings')
  <1> DEFINE t == transition(findings, SeatOf(r), i, st, now)
  <1>1. /\ OpenRows(t, SeatOf(r), horizon) = OpenRows(findings, SeatOf(r), horizon) \ {i}
        /\ SameClaims(findings, t)
    <2>1. SeatOf(r) \in Seats /\ findings \in Seq(Finding) /\ now \in Nat /\ horizon \in Nat
      BY Known
    <2>2. OpenRows(t, SeatOf(r), horizon) = OpenRows(findings, SeatOf(r), horizon) \ {i}
      BY <2>1, TransitionOpen
    <2>3. SameClaims(findings, t)
      BY <2>1, TransitionOpen
    <2>4. QED
      BY <2>2, <2>3
  <1>2. findings' = IF Applied(o) THEN t ELSE findings
    BY DEF WriteFindings
  <1> HIDE DEF t
  <1>3. SameClaims(findings, findings)
    BY DEF SameClaims
  <1>4. QED
    BY <1>1, <1>2, <1>3

LEMMA RetireMissingInHand ==
    ASSUME Steady, NEW r \in Runs, InHand(r), NEW o \in Outcomes, RetireMissing(r, o)
    PROVE  InHand(r)'
  <1> DEFINE seat == SeatOf(r)
             lane == OpenRows(findings, seat, horizon)
             lane2 == OpenRows(findings', seat, horizon)
  <1>1. PICK i \in run[r].todo :
            /\ WriteFindings(o, transition(findings, SeatOf(r), i, "stale", now))
            /\ Become(r, [run[r] EXCEPT
                            !.todo = run[r].todo \ {i},
                            !.pc = IF run[r].todo = {i} THEN "cover" ELSE "retire"])
    BY DEF RetireMissing
  <1> DEFINE dest == IF run[r].todo = {i} THEN "cover" ELSE "retire"
             s == [run[r] EXCEPT !.todo = run[r].todo \ {i}, !.pc = dest]
  <1>2. Become(r, s) /\ horizon' = horizon /\ run[r].pc = "retire"
    BY <1>1 DEF WriteFindings, RetireMissing
  <1>3. /\ s.pc = dest /\ s.todo = run[r].todo \ {i} /\ s.offered = run[r].offered
        /\ s.mode = run[r].mode /\ s.fresh = run[r].fresh
    BY Known DEF RunState
  <1>4. dest \in {"cover", "retire"} /\ (dest = "cover" => run[r].todo = {i})
    OBVIOUS
  <1>5. /\ Applied(o) => lane2 = lane \ {i}
        /\ ~Applied(o) => lane2 = lane
        /\ SameClaims(findings, findings')
    <2>1. "stale" \in FINDING_STATUSES \ {"open"}
      BY DEF FINDING_STATUSES
    <2>2. QED
      BY <1>1, <2>1, TransitionCalled
  <1> HIDE DEF dest, s
  <1>6. run[r].offered \subseteq lane /\ run[r].todo \cap run[r].offered = {}
    BY <1>2 DEF InHand, Rests
  <1>7. Rests(s, seat, findings', horizon)
    BY <1>3, <1>4, <1>5, <1>6 DEF Rests, Settling
  <1>8. ASSUME Clean'
        PROVE  Sole(s, seat, findings', horizon) /\ OneOpen(findings', seat, horizon)
    <2>1. Clean /\ Applied(o)
      BY <1>8, CleanStep DEF Call, Applied
    <2>2. /\ lane \subseteq run[r].offered \cup run[r].todo
          /\ run[r].fresh = << >>
          /\ \A a, b \in lane : findings[a].claim = findings[b].claim => a = b
      BY <1>2, <2>1 DEF InHand, Sole, OneOpen
    <2>3. Sole(s, seat, findings', horizon)
      BY <1>3, <1>4, <1>5, <2>1, <2>2 DEF Sole
    <2>4. lane \subseteq DOMAIN findings
      BY DEF OpenRows
    <2>5. OneOpen(findings', seat, horizon)
      BY <1>5, <2>1, <2>2, <2>4 DEF OneOpen, SameClaims
    <2>6. QED
      BY <2>3, <2>5
  <1>9. QED
    BY <1>2, <1>7, <1>8, HandOn

LEMMA ApplyVerdictInHand ==
    ASSUME Steady, NEW r \in Runs, InHand(r), NEW o \in Outcomes, ApplyVerdict(r, o)
    PROVE  InHand(r)'
  <1> DEFINE seat == SeatOf(r)
             lane == OpenRows(findings, seat, horizon)
             lane2 == OpenRows(findings', seat, horizon)
  <1>1. PICK i \in run[r].todo :
          /\ WriteFindings(o, transition(findings, SeatOf(r), i,
                                 IF i \in run[r].fixed THEN "fixed" ELSE "rejected", now))
          /\ Become(r, [run[r] EXCEPT
                          !.todo = run[r].todo \ {i},
                          !.pc = IF run[r].todo # {i} THEN "verdicts"
                                 ELSE IF run[r].publish # << >> THEN "settled"
                                 ELSE "touch"])
    BY DEF ApplyVerdict
  <1> DEFINE st == IF i \in run[r].fixed THEN "fixed" ELSE "rejected"
             dest == IF run[r].todo # {i} THEN "verdicts"
                     ELSE IF run[r].publish # << >> THEN "settled"
                     ELSE "touch"
             s == [run[r] EXCEPT !.todo = run[r].todo \ {i}, !.pc = dest]
  <1>2. Become(r, s) /\ horizon' = horizon /\ run[r].pc = "verdicts"
    BY <1>1 DEF WriteFindings, ApplyVerdict
  <1>3. /\ s.pc = dest /\ s.todo = run[r].todo \ {i} /\ s.fresh = run[r].fresh
        /\ s.still = run[r].still /\ s.touch = run[r].touch /\ s.publish = run[r].publish
    BY Known DEF RunState
  <1>4. /\ dest \in {"verdicts", "settled", "touch"}
        /\ dest # "verdicts" => run[r].todo = {i}
        /\ dest = "touch" => run[r].publish = << >>
    OBVIOUS
  <1>5. /\ Applied(o) => lane2 = lane \ {i}
        /\ ~Applied(o) => lane2 = lane
        /\ SameClaims(findings, findings')
    <2>1. st \in FINDING_STATUSES \ {"open"}
      BY DEF FINDING_STATUSES
    <2>2. WriteFindings(o, transition(findings, SeatOf(r), i, st, now))
      BY <1>1
    <2> HIDE DEF st
    <2>3. QED
      BY <2>1, <2>2, TransitionCalled
  <1> HIDE DEF dest, s, st
  <1>6. /\ \A c \in Claims : run[r].still[c] # 0 =>
              run[r].still[c] \in lane /\ findings[run[r].still[c]].claim = c
        /\ \A c \in Claims : run[r].still[c] \notin run[r].todo
        /\ run[r].touch \subseteq lane /\ run[r].touch \cap run[r].todo = {}
    BY <1>2 DEF InHand, Rests, Settling
  <1>7. \A j \in lane : j \in DOMAIN findings /\ findings'[j].claim = findings[j].claim
    BY <1>5 DEF OpenRows, SameClaims
  <1>8. \A k \in DOMAIN << >> : Placed(s, << >>[k])
    OBVIOUS
  <1>9. Rests(s, seat, findings', horizon)
    <2>1. \A c \in Claims : run[r].still[c] # 0 =>
              run[r].still[c] \in lane2 /\ findings'[run[r].still[c]].claim = c
      BY <1>5, <1>6, <1>7
    <2>2. run[r].touch \subseteq lane2
      BY <1>5, <1>6
    <2>3. QED
      BY <1>3, <1>4, <1>6, <1>8, <2>1, <2>2 DEF Rests, Settling
  <1>10. ASSUME Clean'
        PROVE  Sole(s, seat, findings', horizon) /\ OneOpen(findings', seat, horizon)
    <2>1. Clean /\ Applied(o)
      BY <1>10, CleanStep DEF Call, Applied
    <2>2. /\ \A j \in lane : j \in run[r].todo \/ run[r].still[findings[j].claim] = j
          /\ run[r].fresh = << >>
          /\ \A a, b \in lane : findings[a].claim = findings[b].claim => a = b
      BY <1>2, <2>1 DEF InHand, Sole, OneOpen
    <2>3. s.fresh = << >> /\ DOMAIN s.fresh = {}
      BY <1>3, <2>2
    <2>4. Sole(s, seat, findings', horizon)
      BY <1>3, <1>4, <1>5, <1>7, <2>1, <2>2, <2>3 DEF Sole
    <2>5. OneOpen(findings', seat, horizon)
      BY <1>5, <1>7, <2>1, <2>2 DEF OneOpen
    <2>6. QED
      BY <2>4, <2>5
  <1>11. QED
    BY <1>2, <1>9, <1>10, HandOn

-----------------------------------------------------------------------------
(* The matching loop *)

\* The matching loop: with the current finding placed, those before the cursor
\* are, and all of them when the loop ends.
LEMMA LoopPlaces ==
    ASSUME Steady, NEW r \in Runs, InHand(r), run[r].pc = "match",
           NEW s, s.pc = NextMatch(r), s.at = run[r].at + 1, s.publish = run[r].publish,
           \A c \in Claims : Placed(run[r], c) => Placed(s, c), Placed(s, Claim(r))
    PROVE  /\ s.pc \in {"match", "touch"}
           /\ s.pc = "match" => \A k \in DOMAIN s.publish : k < s.at => Placed(s, s.publish[k])
           /\ s.pc = "touch" => \A k \in DOMAIN s.publish : Placed(s, s.publish[k])
  <1>1. /\ run[r].publish \in Seq(Claims) /\ run[r].at \in Nat /\ NextMatch(r) \in {"match", "touch"}
        /\ DOMAIN run[r].publish = 1..Len(run[r].publish) /\ Len(run[r].publish) \in Nat
    BY Known, MatchCursor, LenProperties DEF RunState, Steady
  <1>2. \A k \in DOMAIN run[r].publish : k < run[r].at => Placed(run[r], run[r].publish[k])
    BY DEF InHand, Rests
  <1>3. \A k \in DOMAIN run[r].publish : run[r].publish[k] \in Claims
    BY <1>1, RowOf
  <1>4. ASSUME NEW k \in DOMAIN s.publish, k < s.at PROVE Placed(s, s.publish[k])
    <2>1. k < run[r].at \/ k = run[r].at
      BY <1>1, <1>4
    <2>2. CASE k = run[r].at
      BY <2>2 DEF Claim
    <2>3. CASE k < run[r].at
      BY <1>2, <1>3, <2>3
    <2>4. QED
      BY <2>1, <2>2, <2>3
  <1>5. s.pc = "touch" => \A k \in DOMAIN s.publish : k < s.at
    BY <1>1 DEF NextMatch
  <1>6. QED
    BY <1>1, <1>4, <1>5

LEMMA AppendSeq ==
    ASSUME NEW S, NEW q \in Seq(S), NEW x \in S
    PROVE  LET u == Append(q, x)
           IN  /\ \A k \in DOMAIN q : k \in DOMAIN u /\ u[k] = q[k]
               /\ Len(q) + 1 \in DOMAIN u /\ u[Len(q) + 1] = x
               /\ \A k \in DOMAIN u : k \in DOMAIN q \/ k = Len(q) + 1
               /\ Len(q) + 1 \notin DOMAIN q
  BY AppendProperties, LenProperties

\* A finding that is nobody's, appended to the fresh ones.
LEMMA FreshPlaces ==
    ASSUME NEW s, NEW u, NEW c \in Claims, s.fresh \in Seq(Claims),
           u.fresh = Append(s.fresh, c), u.still = s.still
    PROVE  (\A d : Placed(s, d) => Placed(u, d)) /\ Placed(u, c)
  <1> DEFINE q == Append(s.fresh, c)
  <1>1. /\ \A k \in DOMAIN s.fresh : k \in DOMAIN q /\ q[k] = s.fresh[k]
        /\ Len(s.fresh) + 1 \in DOMAIN q /\ q[Len(s.fresh) + 1] = c
    BY AppendSeq
  <1> HIDE DEF q
  <1>2. u.fresh = q
    BY DEF q
  <1>3. QED
    BY <1>1, <1>2 DEF Placed

LEMMA DedupeCarriedInHand ==
    ASSUME Steady, NEW r \in Runs, InHand(r), DedupeCarried(r) PROVE InHand(r)'
  <1> DEFINE lane == OpenRows(findings, SeatOf(r), horizon)
             next == NextMatch(r)
             tch == run[r].touch \cup {run[r].still[Claim(r)]}
             s == [run[r] EXCEPT !.pc = next, !.at = run[r].at + 1, !.touch = tch]
  <1>1. /\ Become(r, s) /\ UNCHANGED <<findings, horizon, faults>>
        /\ run[r].pc = "match" /\ run[r].still[Claim(r)] # 0
    BY DEF DedupeCarried, Internal, ReadOnly
  <1>2. /\ \A c \in Claims : run[r].still[c] # 0 =>
              run[r].still[c] \in lane /\ findings[run[r].still[c]].claim = c
        /\ run[r].touch \subseteq lane
    BY <1>1 DEF InHand, Rests, Settling
  <1>3. Claim(r) \in Claims
    BY <1>1, MatchCursor DEF Steady
  <1>4. tch \subseteq lane
    BY <1>1, <1>2, <1>3
  <1> HIDE DEF tch, next
  <1>5. /\ s.pc = next /\ s.at = run[r].at + 1 /\ s.touch = tch /\ s.still = run[r].still
        /\ s.publish = run[r].publish /\ s.fresh = run[r].fresh
    BY Known DEF RunState
  <1> HIDE DEF s
  <1>6. (\A c \in Claims : Placed(run[r], c) => Placed(s, c)) /\ Placed(s, Claim(r))
    BY <1>1, <1>5 DEF Placed
  <1>7. /\ s.pc \in {"match", "touch"}
        /\ s.pc = "match" => \A k \in DOMAIN s.publish : k < s.at => Placed(s, s.publish[k])
        /\ s.pc = "touch" => \A k \in DOMAIN s.publish : Placed(s, s.publish[k])
    BY <1>1, <1>5, <1>6, LoopPlaces DEF next
  <1>8. Rests(s, SeatOf(r), findings, horizon)
    BY <1>2, <1>4, <1>5, <1>7 DEF Rests, Settling
  <1>9. Sole(run[r], SeatOf(r), findings, horizon) => Sole(s, SeatOf(r), findings, horizon)
    BY <1>1, <1>5, <1>7 DEF Sole
  <1>10. QED
    BY <1>1, <1>8, <1>9, HandOver DEF Clean, InHand

LEMMA DedupeTwinInHand ==
    ASSUME Steady, NEW r \in Runs, InHand(r), DedupeTwin(r) PROVE InHand(r)'
  <1> DEFINE next == NextMatch(r)
             s == [run[r] EXCEPT !.pc = next, !.at = run[r].at + 1]
  <1>1. /\ Become(r, s) /\ UNCHANGED <<findings, horizon, faults>>
        /\ run[r].pc = "match" /\ InFresh(r, Claim(r))
    BY DEF DedupeTwin, Internal, ReadOnly
  <1> HIDE DEF next
  <1>2. /\ s.pc = next /\ s.at = run[r].at + 1 /\ s.touch = run[r].touch
        /\ s.still = run[r].still /\ s.publish = run[r].publish /\ s.fresh = run[r].fresh
    BY Known DEF RunState
  <1> HIDE DEF s
  <1>3. (\A c \in Claims : Placed(run[r], c) => Placed(s, c)) /\ Placed(s, Claim(r))
    BY <1>1, <1>2 DEF Placed, InFresh
  <1>4. /\ s.pc \in {"match", "touch"}
        /\ s.pc = "match" => \A k \in DOMAIN s.publish : k < s.at => Placed(s, s.publish[k])
        /\ s.pc = "touch" => \A k \in DOMAIN s.publish : Placed(s, s.publish[k])
    BY <1>1, <1>2, <1>3, LoopPlaces DEF next
  <1>5. Rests(s, SeatOf(r), findings, horizon)
    BY <1>1, <1>2, <1>4 DEF Rests, Settling, InHand
  <1>6. Sole(run[r], SeatOf(r), findings, horizon) => Sole(s, SeatOf(r), findings, horizon)
    BY <1>1, <1>2, <1>4 DEF Sole
  <1>7. QED
    BY <1>1, <1>5, <1>6, HandOver DEF Clean, InHand

\* What is recorded stays without repetition.
FreshOnce(q, still) ==
    \A k \in DOMAIN q : still[q[k]] = 0 /\ \A l \in DOMAIN q : q[l] = q[k] => l = k

LEMMA FreshStaysOnce ==
    ASSUME NEW q \in Seq(Claims), NEW c \in Claims, NEW still, FreshOnce(q, still),
           still[c] = 0, ~\E k \in DOMAIN q : q[k] = c
    PROVE  FreshOnce(Append(q, c), still)
  <1> DEFINE u == Append(q, c)
  <1>1. /\ \A k \in DOMAIN q : k \in DOMAIN u /\ u[k] = q[k]
        /\ Len(q) + 1 \in DOMAIN u /\ u[Len(q) + 1] = c
        /\ \A k \in DOMAIN u : k \in DOMAIN q \/ k = Len(q) + 1
    BY AppendSeq
  <1> HIDE DEF u
  <1>2. FreshOnce(u, still)
    BY <1>1 DEF FreshOnce
  <1>3. QED
    BY <1>2 DEF u

LEMMA MatchFreshInHand ==
    ASSUME Steady, NEW r \in Runs, InHand(r), MatchFresh(r) PROVE InHand(r)'
  <1> DEFINE next == NextMatch(r)
             frs == Append(run[r].fresh, Claim(r))
             s == [run[r] EXCEPT !.pc = next, !.at = run[r].at + 1, !.fresh = frs]
  <1>1. /\ Become(r, s) /\ UNCHANGED <<findings, horizon, faults>>
        /\ run[r].pc = "match" /\ run[r].still[Claim(r)] = 0 /\ ~InFresh(r, Claim(r))
    BY DEF MatchFresh, Unmatched, Internal, ReadOnly
  <1>2. Claim(r) \in Claims /\ run[r].fresh \in Seq(Claims)
    BY <1>1, MatchCursor, Known DEF Steady, RunState
  <1> HIDE DEF next, frs
  <1>3. /\ s.pc = next /\ s.at = run[r].at + 1 /\ s.touch = run[r].touch
        /\ s.still = run[r].still /\ s.publish = run[r].publish /\ s.fresh = frs
    BY Known DEF RunState
  <1> HIDE DEF s
  <1>4. (\A c \in Claims : Placed(run[r], c) => Placed(s, c)) /\ Placed(s, Claim(r))
    BY <1>2, <1>3, FreshPlaces DEF frs
  <1>5. /\ s.pc \in {"match", "touch"}
        /\ s.pc = "match" => \A k \in DOMAIN s.publish : k < s.at => Placed(s, s.publish[k])
        /\ s.pc = "touch" => \A k \in DOMAIN s.publish : Placed(s, s.publish[k])
    BY <1>1, <1>3, <1>4, LoopPlaces DEF next
  <1>6. Rests(s, SeatOf(r), findings, horizon)
    BY <1>1, <1>3, <1>5 DEF Rests, Settling, InHand
  <1>7. ASSUME Clean PROVE Sole(s, SeatOf(r), findings, horizon)
    <2>1. Sole(run[r], SeatOf(r), findings, horizon)
      BY <1>7 DEF InHand
    <2>2. FreshOnce(run[r].fresh, run[r].still)
      BY <1>1, <2>1 DEF Sole, FreshOnce
    <2>3. FreshOnce(frs, run[r].still)
      BY <1>1, <1>2, <2>2, FreshStaysOnce DEF InFresh, frs
    <2>4. QED
      BY <1>1, <1>3, <1>5, <2>1, <2>3 DEF Sole, FreshOnce
  <1>8. QED
    BY <1>1, <1>6, <1>7, HandOver DEF Clean

-----------------------------------------------------------------------------
(* Re-raising and touching *)

LEMMA ReopenCalled ==
    ASSUME Steady, NEW r \in Runs, NEW o, NEW i,
           WriteFindings(o, reopen(findings, SeatOf(r), i, now))
    PROVE  /\ OpenRows(findings', SeatOf(r), horizon)
                = OpenRows(findings, SeatOf(r), horizon) \cup
                    (IF Applied(o) /\ Matches(findings, SeatOf(r), i, REOPENABLE_STATUSES)
                     THEN {i} ELSE {})
           /\ SameClaims(findings, findings')
  <1> DEFINE t == reopen(findings, SeatOf(r), i, now)
             hit == Matches(findings, SeatOf(r), i, REOPENABLE_STATUSES)
  <1>1. SeatOf(r) \in Seats /\ findings \in Seq(Finding) /\ now \in Nat /\ horizon \in Nat
        /\ horizon < now
    BY Known
  <1>2. OpenRows(t, SeatOf(r), horizon)
          = OpenRows(findings, SeatOf(r), horizon) \cup (IF hit THEN {i} ELSE {})
    BY <1>1, ReopenOpen
  <1>3. SameClaims(findings, t)
    BY <1>1, ReopenOpen
  <1>4. findings' = IF Applied(o) THEN t ELSE findings
    BY DEF WriteFindings
  <1> HIDE DEF t, hit
  <1>5. SameClaims(findings, findings)
    BY DEF SameClaims
  <1>6. QED
    BY <1>2, <1>3, <1>4, <1>5 DEF hit

LEMMA ReraiseInHand ==
    ASSUME Steady, NEW r \in Runs, InHand(r), NEW o \in Outcomes, Reraise(r, o)
    PROVE  InHand(r)'
  <1> DEFINE seat == SeatOf(r)
             lane == OpenRows(findings, seat, horizon)
             lane2 == OpenRows(findings', seat, horizon)
             c == Claim(r)
             i == run[r].cand[c]
             done == Raised(r, o, i)
             cnd == [run[r].cand EXCEPT ![c] = 0]
             stl == IF done THEN [run[r].still EXCEPT ![c] = i] ELSE run[r].still
             frs == IF done THEN run[r].fresh ELSE Append(run[r].fresh, c)
             next == NextMatch(r)
             s == [run[r] EXCEPT !.pc = next, !.at = run[r].at + 1,
                                 !.cand = cnd, !.still = stl, !.fresh = frs]
  <1>1. /\ Become(r, s) /\ horizon' = horizon
        /\ WriteFindings(o, reopen(findings, SeatOf(r), i, now))
        /\ run[r].pc = "match" /\ i # 0
        /\ run[r].still[c] = 0 /\ ~InFresh(r, c)
    BY DEF Reraise, Unmatched, WriteFindings
  <1>2. /\ c \in Claims /\ run[r].fresh \in Seq(Claims) /\ run[r].still \in [Claims -> Nat]
        /\ run[r].cand[c] \in Nat
    BY <1>1, MatchCursor, Known DEF Steady, RunState
  <1>3. i \in DOMAIN findings /\ findings[i].claim = c
    BY <1>1, <1>2 DEF Memory, Remembers, Steady
  <1>4. done => Applied(o) /\ Matches(findings, seat, i, REOPENABLE_STATUSES)
    BY DEF Raised, Answered, Applied
  <1>5. /\ lane2 = lane \cup (IF Applied(o) /\ Matches(findings, seat, i, REOPENABLE_STATUSES)
                              THEN {i} ELSE {})
        /\ SameClaims(findings, findings')
    <2>1. WriteFindings(o, reopen(findings, SeatOf(r), i, now))
      BY <1>1
    <2> HIDE DEF i
    <2>2. QED
      BY <2>1, ReopenCalled
  <1>6. /\ \A d \in Claims : run[r].still[d] # 0 =>
              run[r].still[d] \in lane /\ findings[run[r].still[d]].claim = d
        /\ run[r].touch \subseteq lane
    BY <1>1 DEF InHand, Rests, Settling
  <1>7. \A j \in lane \cup {i} : j \in DOMAIN findings /\ findings'[j].claim = findings[j].claim
    BY <1>3, <1>5 DEF OpenRows, SameClaims
  <1>8. /\ \A d \in Claims : stl[d] = IF done /\ d = c THEN i ELSE run[r].still[d]
        /\ ~done => stl = run[r].still
    BY <1>2
  <1>9. /\ done => frs = run[r].fresh
        /\ ~done => frs = Append(run[r].fresh, c)
    OBVIOUS
  <1> HIDE DEF done, cnd, stl, frs, next, i, c, lane, lane2
  <1>10. /\ s.pc = next /\ s.at = run[r].at + 1 /\ s.touch = run[r].touch
         /\ s.still = stl /\ s.publish = run[r].publish /\ s.fresh = frs
    BY Known DEF RunState
  <1> HIDE DEF s
  <1>11. (\A d \in Claims : Placed(run[r], d) => Placed(s, d)) /\ Placed(s, c)
    <2>1. CASE done
      <3>1. s.fresh = run[r].fresh /\ s.still[c] # 0
            /\ \A d \in Claims : run[r].still[d] # 0 => s.still[d] # 0
        BY <1>1, <1>2, <1>8, <1>9, <1>10, <2>1
      <3>2. QED
        BY <3>1 DEF Placed
    <2>2. CASE ~done
      <3>1. s.still = run[r].still /\ s.fresh = Append(run[r].fresh, c)
        BY <1>8, <1>9, <1>10, <2>2
      <3>2. QED
        BY <1>2, <3>1, FreshPlaces
    <2>3. QED
      BY <2>1, <2>2
  <1>12. /\ s.pc \in {"match", "touch"}
         /\ s.pc = "match" => \A k \in DOMAIN s.publish : k < s.at => Placed(s, s.publish[k])
         /\ s.pc = "touch" => \A k \in DOMAIN s.publish : Placed(s, s.publish[k])
    BY <1>1, <1>10, <1>11, LoopPlaces DEF next, c
  <1>13. Rests(s, seat, findings', horizon)
    <2>1. \A d \in Claims : s.still[d] # 0 =>
             s.still[d] \in lane2 /\ findings'[s.still[d]].claim = d
      BY <1>3, <1>4, <1>5, <1>6, <1>7, <1>8, <1>10
    <2>2. s.touch \subseteq lane2
      BY <1>5, <1>6, <1>10
    <2>3. QED
      BY <1>12, <2>1, <2>2 DEF Rests, Settling, lane2
  <1>14. ASSUME Clean'
         PROVE  Sole(s, seat, findings', horizon) /\ OneOpen(findings', seat, horizon)
    <2>1. Clean /\ o = "ok"
      BY <1>14, CleanStep DEF Call
    <2>2. done <=> Matches(findings, seat, i, REOPENABLE_STATUSES)
      BY <2>1 DEF Raised, Answered, done
    <2>3. Sole(run[r], seat, findings, horizon) /\ OneOpen(findings, seat, horizon)
      BY <2>1 DEF InHand
    <2>4. /\ \A j \in lane : run[r].still[findings[j].claim] = j
          /\ \A a, b \in lane : findings[a].claim = findings[b].claim => a = b
          /\ FreshOnce(run[r].fresh, run[r].still)
      BY <1>1, <2>3 DEF Sole, OneOpen, FreshOnce, lane
    <2>5. lane2 = IF done THEN lane \cup {i} ELSE lane
      BY <1>5, <2>1, <2>2 DEF Applied
    <2>6. \A j \in lane : findings[j].claim \in Claims /\ j # 0
      <3>1. \A j \in lane : findings[j] \in Finding /\ j # 0
        BY Known, RowOf, LenProperties DEF OpenRows, lane
      <3>2. QED
        BY <3>1 DEF Finding
    <2>7. \A j \in lane : findings[j].claim # c
      BY <1>1, <2>4, <2>6 DEF c
    <2>8. \A j \in lane2 : s.still[findings'[j].claim] = j
      BY <1>2, <1>3, <1>7, <1>8, <1>10, <2>4, <2>5, <2>6, <2>7
    <2>9. OneOpen(findings', seat, horizon)
      <3>1. \A a, b \in lane2 : findings'[a].claim = findings'[b].claim => a = b
        BY <1>3, <1>7, <2>4, <2>5, <2>7
      <3>2. QED
        BY <3>1 DEF OneOpen, lane2
    <2>10. FreshOnce(s.fresh, s.still)
      <3>1. CASE ~done
        <4>1. s.still = run[r].still /\ s.fresh = Append(run[r].fresh, c)
          BY <1>8, <1>9, <1>10, <3>1
        <4>2. run[r].still[c] = 0 /\ ~\E k \in DOMAIN run[r].fresh : run[r].fresh[k] = c
          BY <1>1 DEF InFresh, c
        <4>3. QED
          BY <1>2, <2>4, <4>1, <4>2, FreshStaysOnce
      <3>2. CASE done
        <4>1. \A k \in DOMAIN run[r].fresh : run[r].fresh[k] # c /\ run[r].fresh[k] \in Claims
          BY <1>1, <1>2, RowOf DEF InFresh, c
        <4>2. QED
          BY <1>8, <1>9, <1>10, <2>4, <3>2, <4>1 DEF FreshOnce
      <3>3. QED
        BY <3>1, <3>2
    <2>11. Sole(s, seat, findings', horizon)
      BY <1>12, <2>8, <2>10 DEF Sole, FreshOnce, lane2
    <2>12. QED
      BY <2>9, <2>11
  <1>15. QED
    BY <1>1, <1>13, <1>14, HandOn

LEMMA TouchInHand ==
    ASSUME Steady, NEW r \in Runs, InHand(r), NEW o \in Outcomes, Touch(r, o)
    PROVE  InHand(r)'
  <1> DEFINE seat == SeatOf(r)
             lane == OpenRows(findings, seat, horizon)
             lane2 == OpenRows(findings', seat, horizon)
             t == touch_findings(findings, seat, run[r].touch, now)
             s == [run[r] EXCEPT !.pc = "record"]
  <1>1. Become(r, s) /\ horizon' = horizon /\ run[r].pc = "touch" /\ WriteFindings(o, t)
    BY DEF Touch, WriteFindings
  <1>2. /\ s.pc = "record" /\ s.publish = run[r].publish /\ s.fresh = run[r].fresh
        /\ s.still = run[r].still /\ s.touch = run[r].touch
    BY Known DEF RunState
  <1>3. /\ \A d \in Claims : run[r].still[d] # 0 =>
              run[r].still[d] \in lane /\ findings[run[r].still[d]].claim = d
        /\ run[r].touch \subseteq lane
        /\ \A k \in DOMAIN run[r].publish : Placed(run[r], run[r].publish[k])
    BY <1>1 DEF InHand, Rests, Settling
  <1>4. findings' = IF Applied(o) THEN t ELSE findings
    BY <1>1 DEF WriteFindings
  <1>5. OpenRows(t, seat, horizon) = lane
    BY <1>3, Known, TouchOpen
  <1>6. SameClaims(findings, t)
    BY <1>3, Known, TouchOpen
  <1> HIDE DEF s, t
  <1>7. lane2 = lane /\ \A j \in lane : findings'[j].claim = findings[j].claim
    BY <1>4, <1>5, <1>6 DEF SameClaims, OpenRows
  <1>8. Rests(s, seat, findings', horizon)
    BY <1>2, <1>3, <1>7 DEF Rests, Settling, Placed
  <1>9. ASSUME Clean'
        PROVE  Sole(s, seat, findings', horizon) /\ OneOpen(findings', seat, horizon)
    <2>1. Sole(run[r], seat, findings, horizon) /\ OneOpen(findings, seat, horizon)
      BY <1>9, CleanStep DEF Call, InHand
    <2>2. Sole(s, seat, findings', horizon)
      BY <1>1, <1>2, <1>7, <2>1 DEF Sole
    <2>3. OneOpen(findings', seat, horizon)
      BY <1>7, <2>1 DEF OneOpen
    <2>4. QED
      BY <2>2, <2>3
  <1>10. QED
    BY <1>1, <1>8, <1>9, HandOn

-----------------------------------------------------------------------------
(* Recording *)

\* The lane after record_findings: the rows it had, and one for every claim
\* that was to be recorded.
LaneGrows(t, u, seat, h, cs) ==
    /\ OpenRows(t, seat, h) \subseteq OpenRows(u, seat, h)
    /\ \A i \in OpenRows(t, seat, h) : u[i].claim = t[i].claim
    /\ \A k \in DOMAIN cs : \E i \in OpenRows(u, seat, h) : u[i].claim = cs[k]
    /\ \A i \in OpenRows(u, seat, h) \ OpenRows(t, seat, h) :
          \E k \in DOMAIN cs : i = Len(t) + k /\ u[i].claim = cs[k]

LEMMA RecordOpen ==
    ASSUME NEW t \in Seq(Finding), NEW s \in Seats, NEW rd \in Nat, NEW job \in Jobs,
           NEW cs \in Seq(Claims), NEW n \in Nat, NEW h \in Nat, h < n,
           NEW u, u = record_findings(t, s, rd, job, cs, n)
    PROVE  LaneGrows(t, u, s, h, cs)
  <1>1. DOMAIN t \subseteq DOMAIN u
    BY RecordInserts
  <1>2. \A i \in DOMAIN t : u[i] = t[i]
    BY RecordInserts
  <1>3. \A i \in DOMAIN u : i \notin DOMAIN t =>
           \E k \in DOMAIN cs : i = Len(t) + k /\ u[i] = NewFinding(s, rd, job, cs[k], n)
    BY RecordInserts
  <1>4. \A k \in DOMAIN cs :
           /\ Len(t) + k \in DOMAIN u \ DOMAIN t
           /\ u[Len(t) + k] = NewFinding(s, rd, job, cs[k], n)
    BY RecordInserts
  <1>5. ASSUME NEW c
        PROVE  LET x == NewFinding(s, rd, job, c, n)
               IN  x.seat = s /\ x.status = "open" /\ x.updated = n /\ x.claim = c
    BY DEF NewFinding
  <1>6. \A k \in DOMAIN cs : Len(t) + k \in OpenRows(u, s, h) /\ u[Len(t) + k].claim = cs[k]
    BY <1>4, <1>5, OpenRow
  <1>7. \A i \in OpenRows(t, s, h) : i \in OpenRows(u, s, h) /\ u[i].claim = t[i].claim
    BY <1>1, <1>2, OpenRow DEF OpenRows
  <1>8. ASSUME NEW i \in OpenRows(u, s, h) \ OpenRows(t, s, h)
        PROVE  \E k \in DOMAIN cs : i = Len(t) + k /\ u[i].claim = cs[k]
    <2>1. i \in DOMAIN u /\ i \notin DOMAIN t
      BY <1>1, <1>2, OpenRow
    <2>2. QED
      BY <1>3, <1>5, <2>1
  <1>9. QED
    BY <1>6, <1>7, <1>8 DEF LaneGrows

LEMMA RecordFindingsInHand ==
    ASSUME Steady, NEW r \in Runs, InHand(r), NEW o \in Outcomes, RecordFindings(r, o)
    PROVE  InHand(r)'
  <1> DEFINE seat == SeatOf(r)
             lane == OpenRows(findings, seat, horizon)
             lane2 == OpenRows(findings', seat, horizon)
             cs == run[r].fresh
             t == record_findings(findings, seat, run[r].round, JobOf(r), cs, now)
             s == [run[r] EXCEPT !.pc = IF Applied(o) THEN "coverage" ELSE "unrecorded"]
  <1>1. Become(r, s) /\ horizon' = horizon /\ run[r].pc = "record" /\ WriteFindings(o, t)
    BY DEF RecordFindings, WriteFindings
  <1>2. /\ s.pc = IF Applied(o) THEN "coverage" ELSE "unrecorded"
        /\ s.publish = run[r].publish
    BY Known DEF RunState
  <1>3. /\ \A d \in Claims : run[r].still[d] # 0 =>
              run[r].still[d] \in lane /\ findings[run[r].still[d]].claim = d
        /\ \A k \in DOMAIN run[r].publish : Placed(run[r], run[r].publish[k])
    BY <1>1 DEF InHand, Rests, Settling
  <1>4. cs \in Seq(Claims) /\ run[r].round \in Nat /\ run[r].publish \in Seq(Claims)
    BY Known DEF RunState
  <1>5. Applied(o) => findings' = t
    BY <1>1 DEF WriteFindings
  <1> HIDE DEF s
  <1>6. ASSUME Applied(o)
        PROVE  /\ lane \subseteq lane2
               /\ \A i \in lane : findings'[i].claim = findings[i].claim
               /\ \A k \in DOMAIN cs : \E i \in lane2 : findings'[i].claim = cs[k]
               /\ \A i \in lane2 \ lane :
                    \E k \in DOMAIN cs : i = Len(findings) + k /\ findings'[i].claim = cs[k]
    <2>1. /\ findings \in Seq(Finding) /\ seat \in Seats /\ JobOf(r) \in Jobs
          /\ now \in Nat /\ horizon \in Nat /\ horizon < now
      BY Known
    <2>2. findings' = t
      BY <1>5, <1>6
    <2> HIDE DEF cs, seat
    <2>3. LaneGrows(findings, findings', seat, horizon, cs)
      BY <1>4, <2>1, <2>2, RecordOpen
    <2>4. QED
      BY <2>3 DEF LaneGrows
  <1>7. Rests(s, seat, findings', horizon)
    <2>1. ASSUME Applied(o), NEW k \in DOMAIN run[r].publish
          PROVE  \E i \in lane2 : findings'[i].claim = run[r].publish[k]
      <3>1. run[r].publish[k] \in Claims
        BY <1>4, RowOf
      <3>2. CASE run[r].still[run[r].publish[k]] # 0
        BY <1>3, <1>6, <2>1, <3>1, <3>2
      <3>3. CASE \E l \in DOMAIN cs : cs[l] = run[r].publish[k]
        BY <1>6, <2>1, <3>3
      <3>4. QED
        BY <1>3, <3>2, <3>3 DEF Placed
    <2>2. QED
      BY <1>2, <2>1 DEF Rests, Settling
  <1>8. ASSUME Clean'
        PROVE  Sole(s, seat, findings', horizon) /\ OneOpen(findings', seat, horizon)
    <2>1. Clean /\ Applied(o)
      BY <1>8, CleanStep DEF Call, Applied
    <2>2. Sole(run[r], seat, findings, horizon) /\ OneOpen(findings, seat, horizon)
      BY <2>1 DEF InHand
    <2>3. /\ \A i \in lane : run[r].still[findings[i].claim] = i
          /\ \A k \in DOMAIN cs : run[r].still[cs[k]] = 0
          /\ \A k, l \in DOMAIN cs : cs[l] = cs[k] => l = k
          /\ \A i, j \in lane : findings[i].claim = findings[j].claim => i = j
      BY <1>1, <2>2 DEF Sole, OneOpen
    <2>4. \A i \in lane : i # 0
      BY Known, LenProperties DEF OpenRows
    <2>5. ASSUME NEW i \in lane2, NEW j \in lane2, findings'[i].claim = findings'[j].claim
          PROVE  i = j
      <3>1. CASE i \in lane /\ j \in lane
        BY <1>6, <2>1, <2>3, <2>5, <3>1
      <3>2. CASE i \notin lane /\ j \in lane
        BY <1>6, <2>1, <2>3, <2>4, <2>5, <3>2
      <3>3. CASE i \in lane /\ j \notin lane
        BY <1>6, <2>1, <2>3, <2>4, <2>5, <3>3
      <3>4. CASE i \notin lane /\ j \notin lane
        BY <1>6, <2>1, <2>3, <2>5, <3>4
      <3>5. QED
        BY <3>1, <3>2, <3>3, <3>4
    <2>6. OneOpen(findings', seat, horizon)
      BY <2>5 DEF OneOpen
    <2>7. Sole(s, seat, findings', horizon)
      BY <1>2 DEF Sole
    <2>8. QED
      BY <2>6, <2>7
  <1>9. QED
    BY <1>1, <1>7, <1>8, HandOn

LEMMA EndInHand ==
    ASSUME Steady, NEW r \in Runs, InHand(r),
           \/ ReviewFails(r) \/ SkipCoverage(r)
           \/ \E o \in Outcomes : RecordCoverage(r, o)
    PROVE  InHand(r)'
  <1>1. UNCHANGED <<findings, horizon>> /\ (Become(r, Finished) \/ Become(r, Crashed))
    BY DEF ReviewFails, SkipCoverage, RecordCoverage, Internal, ReadOnly, WriteCoverage
  <1>2. Clean' => Clean
    BY CleanStep DEF ReviewFails, SkipCoverage, Internal, Clean, Call
  <1>3. QED
    BY <1>1, <1>2, EndsInHand

-----------------------------------------------------------------------------
(* The read of the open findings misses none *)

\* With at most one open row to a claim, and no more claims than the block of
\* open findings holds, the block holds every open row.
LEMMA AllOpenRead ==
    ASSUME Steady, FewClaims, NEW seat, OneOpen(findings, seat, horizon)
    PROVE  open_findings(findings, seat, horizon, MAX_OPEN_FINDINGS)
             = OpenRows(findings, seat, horizon)
  <1> DEFINE rows == OpenRows(findings, seat, horizon)
             older(i) == {j \in rows : Older(findings, j, i)}
             f == [i \in rows |-> findings[i].claim]
             n == Cardinality(Claims)
  <1>1. findings \in Seq(Finding) /\ IsFiniteSet(Claims) /\ MAX_OPEN_FINDINGS \in Nat
        /\ n \in Nat /\ n <= MAX_OPEN_FINDINGS
    BY FS_CardinalityType DEF Steady, TypeOK, FewClaims
  <1>2. \A i \in rows : i \in Nat /\ findings[i].claim \in Claims /\ findings[i].round \in Nat
    <2>1. \A i \in rows : i \in Nat /\ findings[i] \in Finding
      BY <1>1, RowOf DEF OpenRows
    <2>2. QED
      BY <2>1 DEF Finding
  <1>3. f \in Injection(rows, Claims)
    BY <1>2 DEF OneOpen, Injection, IsInjective
  <1>4. IsFiniteSet(rows) /\ Cardinality(rows) <= n
    BY <1>1, <1>3, FS_Injection
  <1>5. ASSUME NEW i \in rows
        PROVE  Cardinality(older(i)) < MAX_OPEN_FINDINGS
    <2>1. older(i) \subseteq rows \ {i}
      BY <1>2 DEF Older
    <2>2. /\ IsFiniteSet(rows \ {i}) /\ Cardinality(rows \ {i}) = Cardinality(rows) - 1
          /\ Cardinality(rows) \in Nat
      BY <1>4, FS_RemoveElement, FS_CardinalityType
    <2>3. Cardinality(older(i)) <= Cardinality(rows \ {i}) /\ IsFiniteSet(older(i))
      BY <2>1, <2>2, FS_Subset
    <2>4. Cardinality(older(i)) \in Nat
      BY <2>3, FS_CardinalityType
    <2> HIDE DEF older, rows, n
    <2>5. QED
      BY <1>1, <1>4, <2>2, <2>3, <2>4
  <1>6. open_findings(findings, seat, horizon, MAX_OPEN_FINDINGS)
          = {i \in rows : Cardinality(older(i)) < MAX_OPEN_FINDINGS}
    BY DEF open_findings
  <1> HIDE DEF rows, older
  <1>7. QED
    BY <1>5, <1>6 DEF rows

LEMMA ReadOpenInHand ==
    ASSUME Steady, NEW r \in Runs, InHand(r), NEW o \in Outcomes, ReadOpen(r, o)
    PROVE  InHand(r)'
  <1> DEFINE seat == SeatOf(r)
             lane == OpenRows(findings, seat, horizon)
             read == IF Answered(o)
                     THEN open_findings(findings, SeatOf(r), horizon, MAX_OPEN_FINDINGS)
                     ELSE {}
             gone == {i \in read : FileOf[findings[i].claim] \in run[r].head.gone}
             dest == IF gone = {} THEN "cover" ELSE "retire"
             s == [run[r] EXCEPT !.pc = dest, !.offered = read \ gone, !.todo = gone]
  <1>1. Become(r, s) /\ UNCHANGED <<findings, horizon>> /\ run[r].pc = "open"
    BY DEF ReadOpen, ReadOnly
  <1>2. read \subseteq lane /\ gone \subseteq read
    BY DEF open_findings
  <1>3. Clean' => Clean /\ o = "ok"
    BY CleanStep DEF Call
  <1>4. dest \in {"cover", "retire"} /\ (dest = "cover" => gone = {})
    OBVIOUS
  <1>5. ASSUME Clean' PROVE read = lane
    <2>1. Clean /\ o = "ok" /\ OneOpen(findings, seat, horizon)
      BY <1>3, <1>5 DEF InHand
    <2>2. QED
      BY <2>1, AllOpenRead DEF Clean, Answered
  <1> HIDE DEF gone, read, dest
  <1>6. /\ s.pc = dest /\ s.offered = read \ gone /\ s.todo = gone /\ s.fresh = run[r].fresh
    BY Known DEF RunState
  <1> HIDE DEF s
  <1>7. Rests(s, seat, findings, horizon)
    BY <1>2, <1>4, <1>6 DEF Rests, Settling
  <1>8. ASSUME Clean' PROVE Sole(s, seat, findings, horizon)
    <2>1. run[r].fresh = << >>
      BY <1>1, <1>3, <1>8 DEF InHand, Sole
    <2>2. QED
      BY <1>2, <1>4, <1>5, <1>6, <1>8, <2>1 DEF Sole
  <1>9. QED
    BY <1>1, <1>3, <1>7, <1>8, HandOver

-----------------------------------------------------------------------------
(* The inductive invariant, and what follows from it *)

AllInHand == \A r \in Runs : InHand(r)

LEMMA BranchInHand ==
    ASSUME Steady, NEW r \in Runs, InHand(r), BranchStep(r)
    PROVE  InHand(r)'
  <1>1. ASSUME NEW o \in Outcomes, Call(r, o) PROVE InHand(r)'
    BY <1>1, ExpireTouchedInHand, ReadOpenInHand, RetireMissingInHand, ReadCoverageInHand,
       ExpireDeadInHand, ReadRoundInHand, ApplyVerdictInHand, ReadSettledInHand,
       ReraiseInHand, TouchInHand, RecordFindingsInHand, EndInHand DEF Call
  <1>2. QED
    BY <1>1, StartInHand, ReviewInHand, EndInHand, DedupeCarriedInHand, DedupeTwinInHand,
       MatchFreshInHand DEF BranchStep

\* A lane nobody wrote to.
LEMMA LaneAsBefore ==
    ASSUME NEW s, NEW t, NEW u, NEW seat, NEW h, SameLane(t, u, seat)
    PROVE  /\ Rests(s, seat, t, h) => Rests(s, seat, u, h)
           /\ Sole(s, seat, t, h) => Sole(s, seat, u, h)
           /\ OneOpen(t, seat, h) => OneOpen(u, seat, h)
  <1>1. /\ OpenRows(u, seat, h) = OpenRows(t, seat, h)
        /\ \A i \in OpenRows(t, seat, h) : u[i] = t[i]
    BY SameLaneOpen
  <1>2. Rests(s, seat, t, h) => Rests(s, seat, u, h)
    BY <1>1 DEF Rests
  <1>3. Sole(s, seat, t, h) => Sole(s, seat, u, h)
    BY <1>1 DEF Sole
  <1>4. OneOpen(t, seat, h) => OneOpen(u, seat, h)
    BY <1>1 DEF OneOpen
  <1>5. QED
    BY <1>2, <1>3, <1>4

\* A branch that is not at work relies on no row.
LEMMA AtRest ==
    ASSUME NEW s, ~AtWork(s), NEW seat, NEW t, NEW u, NEW h, NEW g
    PROVE  /\ Rests(s, seat, t, h) => Rests(s, seat, u, g)
           /\ Sole(s, seat, t, h) => Sole(s, seat, u, g)
  BY DEF AtWork, Terminal, Rests, Sole, Settling

LEMMA OthersInHand ==
    ASSUME Overlap = FALSE, Steady, AllInHand, NEW r \in Runs, BranchStep(r),
           NEW q \in Runs, q # r
    PROVE  InHand(q)'
  <1>1. run'[q] = run[q] /\ horizon' = horizon /\ StepOfLane(r)
    BY BranchFrame DEF Steady
  <1>2. Clean' => Clean
    BY CleanBefore DEF Steady, Clean, Next, Step, BranchStep
  <1>3. InHand(q) /\ InHand(r)'
    BY BranchInHand DEF AllInHand
  <1>4. Clean' => OneOpen(findings', SeatOf(q), horizon)
    <2>1. CASE SeatOf(q) = SeatOf(r)
      BY <1>1, <1>3, <2>1 DEF InHand
    <2>2. CASE SeatOf(q) # SeatOf(r)
      <3>1. SameLane(findings, findings', SeatOf(q))
        BY <1>1, <2>2, LaneOfOthers DEF StepOfLane
      <3>2. QED
        BY <1>2, <1>3, <3>1, LaneAsBefore DEF InHand
    <2>3. QED
      BY <2>1, <2>2
  <1>5. /\ Rests(run[q], SeatOf(q), findings', horizon)
        /\ Clean' => Sole(run[q], SeatOf(q), findings', horizon)
    <2>1. CASE AtWork(run[q])
      <3>1. SameLane(findings, findings', SeatOf(q))
        BY <2>1, Undisturbed DEF Steady
      <3>2. QED
        BY <1>2, <1>3, <3>1, LaneAsBefore DEF InHand
    <2>2. CASE ~AtWork(run[q])
      BY <1>2, <1>3, <2>2, AtRest DEF InHand
    <2>3. QED
      BY <2>1, <2>2
  <1>6. QED
    BY <1>1, <1>4, <1>5 DEF InHand

LEMMA InHandStep ==
    ASSUME Overlap = FALSE
    PROVE  Steady /\ AllInHand /\ [Next]_vars => AllInHand'
  <1> SUFFICES ASSUME Steady, AllInHand, [Next]_vars, NEW q \in Runs PROVE InHand(q)'
    BY DEF AllInHand
  <1>1. InHand(q)
    BY DEF AllInHand
  <1>2. ASSUME NEW r \in Runs, BranchStep(r) PROVE InHand(q)'
    BY <1>1, <1>2, BranchInHand, OthersInHand
  <1>3. ASSUME NEW p \in Jobs, Cancel(p) PROVE InHand(q)'
    <2>1. UNCHANGED <<findings, horizon, faults>> /\ (run'[q] = run[q] \/ run'[q] = Crashed)
      BY <1>3 DEF Cancel, Internal, ReadOnly
    <2>2. Crashed.offered = {} /\ Crashed.fresh = << >> /\ Crashed.pc \in Terminal
      BY DEF Crashed, Idle, Terminal
    <2>3. /\ Rests(run'[q], SeatOf(q), findings, horizon)
          /\ Clean => Sole(run'[q], SeatOf(q), findings, horizon)
      BY <1>1, <2>1, <2>2, Memoryless DEF InHand
    <2>4. Clean => OneOpen(findings, SeatOf(q), horizon)
      BY <1>1 DEF InHand
    <2>5. QED
      BY <2>1, <2>3, <2>4 DEF InHand, Clean
  <1>4. CASE Lapse
    <2>1. /\ UNCHANGED <<findings, run, faults>> /\ ~AtWork(run[q])
          /\ horizon' \in Nat /\ horizon < horizon' /\ horizon \in Nat
      BY <1>4 DEF Lapse, AtWork, Steady, TypeOK
    <2>2. OpenRows(findings, SeatOf(q), horizon') \subseteq OpenRows(findings, SeatOf(q), horizon)
      <3>1. \A i \in DOMAIN findings : findings[i] \in Finding
        BY Known, RowOf
      <3>2. \A i \in DOMAIN findings : findings[i].updated \in Nat
        BY <3>1 DEF Finding
      <3>3. QED
        BY <2>1, <3>2 DEF OpenRows
    <2>3. OneOpen(findings, SeatOf(q), horizon) => OneOpen(findings, SeatOf(q), horizon')
      BY <2>2 DEF OneOpen
    <2>4. /\ Rests(run[q], SeatOf(q), findings, horizon')
          /\ Clean => Sole(run[q], SeatOf(q), findings, horizon')
      BY <1>1, <2>1, AtRest DEF InHand
    <2>5. Clean => OneOpen(findings, SeatOf(q), horizon')
      BY <1>1, <2>3 DEF InHand
    <2>6. QED
      BY <2>1, <2>4, <2>5 DEF InHand, Clean
  <1>5. CASE UNCHANGED vars
    <2>1. UNCHANGED <<findings, horizon, run, faults>>
      BY <1>5 DEF vars
    <2>2. QED
      BY <1>1, <2>1 DEF InHand, Clean, Rests, Sole, OneOpen, OpenRows, Placed
  <1>6. QED
    BY <1>2, <1>3, <1>4, <1>5, BranchSteps

LEMMA InHandInit == Init => AllInHand
  <1> SUFFICES ASSUME Init, NEW r \in Runs PROVE InHand(r)
    BY DEF AllInHand
  <1>1. run[r].offered = {} /\ run[r].fresh = << >> /\ run[r].pc = "idle"
    BY DEF Init, Idle
  <1>2. OpenRows(findings, SeatOf(r), horizon) = {}
    BY DEF Init, OpenRows
  <1>3. QED
    BY <1>1, <1>2, Memoryless DEF InHand, OneOpen

\* The inductive invariant of a ledger whose jobs do not overlap.
InOrder == Steady /\ AllInHand

LEMMA InOrderAlways ==
    ASSUME Overlap = FALSE
    PROVE  Spec => []InOrder
  <1>1. Init => InOrder
    BY InitType, OneJobInit, InHandInit DEF InOrder, Steady, Init, Memory, Remembers, Idle
  <1>2. InOrder /\ [Next]_vars => InOrder'
    BY TypeStep, LawfulStep, OneJobStep, UnlatchedStep, InHandStep DEF InOrder, Steady
  <1>3. QED
    BY <1>1, <1>2, PTL DEF Spec

\* settle: while the concurrency group keeps jobs apart, a claim a round
\* published is on an open row once its write of the findings took effect,
\* whatever else of its calls degraded and whoever else was cancelled.
THEOREM PublishedSurvives ==
    ASSUME Overlap = FALSE
    PROVE  Spec => []PublishedClaimSurvives
  <1>1. InOrder => PublishedClaimSurvives
    BY DEF InOrder, AllInHand, InHand, Rests, PublishedClaimSurvives
  <1>2. QED
    BY <1>1, InOrderAlways, PTL

\* settle's matching loop: a carried row the round takes for open is open, so a
\* finding de-duplicated onto it is on the record.
THEOREM DedupesOntoOpen ==
    ASSUME Overlap = FALSE
    PROVE  Spec => []DedupesOntoOpenRows
  <1>1. InOrder => DedupesOntoOpenRows
    <2> SUFFICES ASSUME InOrder, NEW r \in Runs, run[r].pc = "match", run[r].still[Claim(r)] # 0
                 PROVE  /\ findings[run[r].still[Claim(r)]].status = "open"
                        /\ findings[run[r].still[Claim(r)]].claim = Claim(r)
      BY DEF DedupesOntoOpenRows
    <2>1. Claim(r) \in Claims
      BY MatchCursor DEF InOrder, Steady
    <2>2. QED
      BY <2>1 DEF InOrder, AllInHand, InHand, Rests, Settling, OpenRows
  <1>2. QED
    BY <1>1, InOrderAlways, PTL

\* settle's de-duplication: until a call degrades, a seat holds one open row to
\* a claim, provided its claims fit in the block of open findings a round reads.
THEOREM OneRowPerClaim ==
    ASSUME Overlap = FALSE, FewClaims
    PROVE  Spec => [](faults = 0 => OneOpenRowPerClaim)
  <1>1. InOrder => (faults = 0 => OneOpenRowPerClaim)
    <2> SUFFICES ASSUME InOrder, faults = 0, NEW s \in Seats,
                        NEW i \in OpenRows(findings, s, horizon),
                        NEW j \in OpenRows(findings, s, horizon),
                        findings[i].claim = findings[j].claim
                 PROVE  i = j
      BY DEF OneOpenRowPerClaim
    <2>1. findings[i] \in Finding
      BY RowOf DEF InOrder, Steady, TypeOK, OpenRows
    <2>2. findings[i].head \in Jobs
      BY <2>1 DEF Finding
    <2> DEFINE r == <<findings[i].head, s>>
    <2>3. r \in Runs /\ SeatOf(r) = s
      BY <2>2 DEF Runs, SeatOf
    <2>4. OneOpen(findings, s, horizon)
      BY <2>3, FewClaims DEF InOrder, AllInHand, InHand, Clean
    <2>5. QED
      BY <2>4 DEF OneOpen
  <1>2. QED
    BY <1>1, InOrderAlways, PTL

-----------------------------------------------------------------------------
(* Round labels *)

\* u holds the rows of t under their labels, and rows of one branch's round.
Inserted(t, u, seat, job, round) ==
    /\ DOMAIN t \subseteq DOMAIN u
    /\ \A i \in DOMAIN t :
          u[i].seat = t[i].seat /\ u[i].round = t[i].round /\ u[i].head = t[i].head
    /\ \A i \in DOMAIN u : i \notin DOMAIN t =>
          u[i].seat = seat /\ u[i].round = round /\ u[i].head = job

LEMMA SameTwice == ASSUME NEW t PROVE SameLabels(t, t)
  BY DEF SameLabels

\* From the read of the label to the write of the findings, and after it.
Labelling == {"review", "verdicts", "settled", "match", "touch", "record"}
Recorded == {"coverage", "unrecorded"}

\* How the step of one branch treats labels.
KeepsLabels(r) ==
    /\ SameLabels(findings, findings') /\ SameLabels(coverage, coverage')
    /\ \/ run'[r].pc \notin Labelling \cup Recorded
       \/ /\ run[r].pc \in Labelling /\ run'[r].pc \in Labelling \cup Recorded
          /\ run'[r].round = run[r].round
       \/ /\ run'[r].pc = "review"
          /\ faults' = 0 => run'[r].round = next_round(findings, coverage, SeatOf(r))
    /\ run[r].pc \in Recorded \cup Terminal => run'[r].pc \in Terminal

InsertsFindings(r) ==
    /\ Inserted(findings, findings', SeatOf(r), JobOf(r), run[r].round)
    /\ SameLabels(coverage, coverage')
    /\ run[r].pc \in Labelling /\ run'[r].pc \in Recorded /\ run'[r].round = run[r].round

InsertsCoverage(r) ==
    /\ Inserted(coverage, coverage', SeatOf(r), JobOf(r), run[r].round)
    /\ SameLabels(findings, findings')
    /\ run[r].pc \in Recorded /\ run'[r].pc \in Terminal

LEMMA StepsOn ==
    ASSUME Steady, NEW r \in Runs, NEW s, Become(r, s)
    PROVE  run'[r] = s
  BY DEF Steady, TypeOK, Become

\* Before the label is read.
LEMMA EarlyLabels ==
    ASSUME Steady, NEW r \in Runs, NEW o \in Outcomes,
           \/ Start(r) \/ ExpireTouched(r, o) \/ ReadOpen(r, o) \/ RetireMissing(r, o)
           \/ ReadCoverage(r, o) \/ ExpireDead(r, o) \/ ReadRound(r, o)
    PROVE  KeepsLabels(r)
  <1>0. run \in [Runs -> RunState] /\ run[r] \in RunState
    BY DEF Steady, TypeOK
  <1>1. \/ run'[r].pc \in {"expire", "open", "retire", "cover", "dead", "round"}
        \/ ReadRound(r, o) /\ run'[r].pc = "review"
    <2>1. CASE Start(r)
      <3>1. \E m, h : run'[r] = [run[r] EXCEPT !.pc = "expire", !.mode = m, !.head = h]
        BY <1>0, <2>1 DEF Start, Become
      <3>2. run'[r].pc \in {"expire", "open", "retire", "cover", "dead", "round"}
        BY <1>0, <3>1 DEF RunState
      <3>3. QED
        BY <3>2
    <2>2. CASE ExpireTouched(r, o)
      <3>1. \E p \in {"open", "cover"} : run'[r] = [run[r] EXCEPT !.pc = p]
        BY <1>0, <2>2 DEF ExpireTouched, Become
      <3>2. run'[r].pc \in {"expire", "open", "retire", "cover", "dead", "round"}
        BY <1>0, <3>1 DEF RunState
      <3>3. QED
        BY <3>2
    <2>3. CASE ReadOpen(r, o)
      <3>1. \E p \in {"cover", "retire"} : \E a, b :
               run'[r] = [run[r] EXCEPT !.pc = p, !.offered = a, !.todo = b]
        BY <1>0, <2>3 DEF ReadOpen, Become
      <3>2. run'[r].pc \in {"expire", "open", "retire", "cover", "dead", "round"}
        BY <1>0, <3>1 DEF RunState
      <3>3. QED
        BY <3>2
    <2>4. CASE RetireMissing(r, o)
      <3>1. \E p \in {"cover", "retire"} : \E a : run'[r] = [run[r] EXCEPT !.todo = a, !.pc = p]
        BY <1>0, <2>4 DEF RetireMissing, Become
      <3>2. run'[r].pc \in {"expire", "open", "retire", "cover", "dead", "round"}
        BY <1>0, <3>1 DEF RunState
      <3>3. QED
        BY <3>2
    <2>5. CASE ReadCoverage(r, o)
      <3>1. \E p \in {"round", "dead"} : \E a, b :
               run'[r] = [run[r] EXCEPT !.pc = p, !.dead = a, !.shown = b]
        BY <1>0, <2>5 DEF ReadCoverage, Become
      <3>2. run'[r].pc \in {"expire", "open", "retire", "cover", "dead", "round"}
        BY <1>0, <3>1 DEF RunState
      <3>3. QED
        BY <3>2
    <2>6. CASE ExpireDead(r, o)
      <3>1. run'[r] = [run[r] EXCEPT !.pc = "round"]
        BY <1>0, <2>6 DEF ExpireDead, Become
      <3>2. run'[r].pc \in {"expire", "open", "retire", "cover", "dead", "round"}
        BY <1>0, <3>1 DEF RunState
      <3>3. QED
        BY <3>2
    <2>7. CASE ReadRound(r, o)
      <3>1. \E n : run'[r] = [run[r] EXCEPT !.pc = "review", !.round = n]
        BY <1>0, <2>7 DEF ReadRound, Become
      <3>2. run'[r].pc = "review"
        BY <1>0, <3>1 DEF RunState
      <3>3. QED
        BY <2>7, <3>2
    <2>8. QED
      BY <2>1, <2>2, <2>3, <2>4, <2>5, <2>6, <2>7
  <1>2. SameLabels(findings, findings')
    <2>1. CASE RetireMissing(r, o)
      <3>1. "stale" \in FINDING_STATUSES
        BY DEF FINDING_STATUSES
      <3>2. PICK i : WriteFindings(o, transition(findings, SeatOf(r), i, "stale", now))
        BY <2>1 DEF RetireMissing
      <3>3. QED
        BY <3>1, <3>2, Known, TransitionLabels, SameTwice DEF WriteFindings
    <2>2. CASE ~RetireMissing(r, o)
      BY <2>2, SameTwice DEF Start, ExpireTouched, ReadOpen, ReadCoverage, ExpireDead,
                             ReadRound, Internal, ReadOnly, WriteCoverage
    <2>3. QED
      BY <2>1, <2>2
  <1>3. SameLabels(coverage, coverage')
    <2>1. CASE ExpireTouched(r, o) \/ ExpireDead(r, o)
      <3>1. PICK fs : WriteCoverage(o, expire_coverage(coverage, SeatOf(r), fs))
        BY <2>1 DEF ExpireTouched, ExpireDead
      <3>2. SameLabels(coverage, expire_coverage(coverage, SeatOf(r), fs))
        BY Known, ExpireRows
      <3>3. QED
        BY <3>1, <3>2, SameTwice DEF WriteCoverage
    <2>2. CASE ~(ExpireTouched(r, o) \/ ExpireDead(r, o))
      BY <2>2, SameTwice DEF Start, RetireMissing, ReadOpen, ReadCoverage,
                             ReadRound, Internal, ReadOnly, WriteFindings
    <2>3. QED
      BY <2>1, <2>2
  <1>4. ReadRound(r, o) => (faults' = 0 => run'[r].round = next_round(findings, coverage, SeatOf(r)))
    <2> SUFFICES ASSUME ReadRound(r, o), faults' = 0
                 PROVE  run'[r].round = next_round(findings, coverage, SeatOf(r))
      OBVIOUS
    <2>1. Answered(o)
      BY CleanCall DEF Call, Steady, Answered
    <2>2. QED
      BY <1>0, <2>1 DEF ReadRound, Become, RunState
  <1>5. run[r].pc \notin Recorded \cup Terminal
    BY DEF Start, ExpireTouched, ReadOpen, RetireMissing, ReadCoverage, ExpireDead, ReadRound,
           Recorded, Terminal
  <1>6. QED
    BY <1>1, <1>2, <1>3, <1>4, <1>5 DEF KeepsLabels, Labelling, Recorded

\* From the review to the matching loop.
LEMMA LateMoves ==
    ASSUME Steady, NEW r \in Runs, NEW o \in Outcomes,
           \/ Review(r) \/ ApplyVerdict(r, o) \/ ReadSettled(r, o) \/ DedupeCarried(r)
           \/ DedupeTwin(r) \/ Reraise(r, o) \/ MatchFresh(r) \/ Touch(r, o)
    PROVE  /\ run'[r].pc \in Labelling \cup Recorded
           /\ run'[r].round = run[r].round
           /\ run'[r].shown = run[r].shown /\ run'[r].head = run[r].head
  <1>0. run \in [Runs -> RunState] /\ run[r] \in RunState
    BY DEF Steady, TypeOK
  <1>1. CASE Review(r)
    <2>1. PICK said \in [run[r].offered -> Verdicts],
               publish \in Publications, examined \in Examinations :
             LET closing == {i \in run[r].offered : Closes(said[i])}
             IN  Become(r, [run[r] EXCEPT
                   !.fixed = {i \in run[r].offered : said[i] = "fixed"},
                   !.rejected = {i \in run[r].offered : said[i] = "rejected"},
                   !.todo = closing,
                   !.touch = {i \in run[r].offered : Reasserts(said[i])},
                   !.still = StillOpen(r, closing),
                   !.publish = publish,
                   !.examined = examined,
                   !.pc = IF ~run[r].mode.findings THEN "coverage"
                          ELSE IF closing # {} THEN "verdicts"
                          ELSE IF publish # << >> THEN "settled"
                          ELSE "touch"])
      BY <1>1 DEF Review
    <2> DEFINE closing == {i \in run[r].offered : Closes(said[i])}
               fix == {i \in run[r].offered : said[i] = "fixed"}
               rej == {i \in run[r].offered : said[i] = "rejected"}
               tch == {i \in run[r].offered : Reasserts(said[i])}
               stl == StillOpen(r, closing)
               dest == IF ~run[r].mode.findings THEN "coverage"
                       ELSE IF closing # {} THEN "verdicts"
                       ELSE IF publish # << >> THEN "settled"
                       ELSE "touch"
               s == [run[r] EXCEPT !.fixed = fix, !.rejected = rej, !.todo = closing,
                       !.touch = tch, !.still = stl, !.publish = publish,
                       !.examined = examined, !.pc = dest]
    <2>2. run'[r] = s
      BY <2>1, StepsOn
    <2>3. dest \in {"coverage", "verdicts", "settled", "touch"}
      OBVIOUS
    <2> HIDE DEF closing, fix, rej, tch, stl, dest
    <2>4. /\ s.pc = dest /\ s.round = run[r].round
          /\ s.shown = run[r].shown /\ s.head = run[r].head
      BY <1>0 DEF RunState
    <2> HIDE DEF s
    <2>5. QED
      BY <2>2, <2>3, <2>4 DEF Labelling, Recorded
  <1>2. CASE ApplyVerdict(r, o)
    <2>1. \E p \in {"verdicts", "settled", "touch"} : \E a :
             run'[r] = [run[r] EXCEPT !.todo = a, !.pc = p]
      BY <1>0, <1>2 DEF ApplyVerdict, Become
    <2>2. QED
      BY <1>0, <2>1 DEF RunState, Labelling
  <1>3. CASE ReadSettled(r, o)
    <2>1. \E a : run'[r] = [run[r] EXCEPT !.pc = "match", !.cand = a]
      BY <1>0, <1>3 DEF ReadSettled, Become
    <2>2. QED
      BY <1>0, <2>1 DEF RunState, Labelling
  <1>4. CASE DedupeCarried(r)
    <2>1. \E a, b : run'[r] = [run[r] EXCEPT !.pc = NextMatch(r), !.at = a, !.touch = b]
      BY <1>0, <1>4 DEF DedupeCarried, Become
    <2>2. QED
      BY <1>0, <2>1 DEF RunState, Labelling, NextMatch
  <1>5. CASE DedupeTwin(r)
    <2>1. \E a : run'[r] = [run[r] EXCEPT !.pc = NextMatch(r), !.at = a]
      BY <1>0, <1>5 DEF DedupeTwin, Become
    <2>2. QED
      BY <1>0, <2>1 DEF RunState, Labelling, NextMatch
  <1>6. CASE Reraise(r, o)
    <2>1. \E a, b, c, d :
             run'[r] = [run[r] EXCEPT !.pc = NextMatch(r), !.at = a, !.cand = b,
                                      !.still = c, !.fresh = d]
      BY <1>0, <1>6 DEF Reraise, Become
    <2>2. QED
      BY <1>0, <2>1 DEF RunState, Labelling, NextMatch
  <1>7. CASE MatchFresh(r)
    <2>1. \E a, b : run'[r] = [run[r] EXCEPT !.pc = NextMatch(r), !.at = a, !.fresh = b]
      BY <1>0, <1>7 DEF MatchFresh, Become
    <2>2. QED
      BY <1>0, <2>1 DEF RunState, Labelling, NextMatch
  <1>8. CASE Touch(r, o)
    <2>1. run'[r] = [run[r] EXCEPT !.pc = "record"]
      BY <1>0, <1>8 DEF Touch, Become
    <2>2. QED
      BY <1>0, <2>1 DEF RunState, Labelling
  <1>9. QED
    BY <1>1, <1>2, <1>3, <1>4, <1>5, <1>6, <1>7, <1>8

LEMMA LateLabels ==
    ASSUME Steady, NEW r \in Runs, NEW o \in Outcomes,
           \/ Review(r) \/ ApplyVerdict(r, o) \/ ReadSettled(r, o) \/ DedupeCarried(r)
           \/ DedupeTwin(r) \/ Reraise(r, o) \/ MatchFresh(r) \/ Touch(r, o)
    PROVE  KeepsLabels(r)
  <1>1. run[r].pc \in Labelling
    BY DEF Review, ApplyVerdict, ReadSettled, DedupeCarried, DedupeTwin, Reraise, MatchFresh,
           Unmatched, Touch, Labelling
  <1>2. run'[r].pc \in Labelling \cup Recorded /\ run'[r].round = run[r].round
    BY LateMoves
  <1>3. SameLabels(findings, findings')
    <2>1. CASE ApplyVerdict(r, o)
      <3>1. PICK i \in run[r].todo, st \in {"fixed", "rejected"} :
               WriteFindings(o, transition(findings, SeatOf(r), i, st, now))
        BY <2>1 DEF ApplyVerdict
      <3>2. st \in FINDING_STATUSES
        BY DEF FINDING_STATUSES
      <3>3. QED
        BY <3>1, <3>2, Known, TransitionLabels, SameTwice DEF WriteFindings
    <2>2. CASE Reraise(r, o)
      <3>1. PICK i : WriteFindings(o, reopen(findings, SeatOf(r), i, now))
        BY <2>2 DEF Reraise
      <3>2. QED
        BY <3>1, Known, ReopenLabels, SameTwice DEF WriteFindings
    <2>3. CASE Touch(r, o)
      BY <2>3, Known, TouchLabels, SameTwice DEF Touch, WriteFindings
    <2>4. CASE ~(ApplyVerdict(r, o) \/ Reraise(r, o) \/ Touch(r, o))
      BY <2>4, SameTwice DEF Review, ReadSettled, DedupeCarried, DedupeTwin, MatchFresh,
                             Internal, ReadOnly
    <2>5. QED
      BY <2>1, <2>2, <2>3, <2>4
  <1>4. UNCHANGED coverage
    BY DEF Review, ApplyVerdict, ReadSettled, DedupeCarried, DedupeTwin, Reraise, MatchFresh,
           Touch, Internal, ReadOnly, WriteFindings
  <1>5. QED
    BY <1>1, <1>2, <1>3, <1>4, SameTwice DEF KeepsLabels, Labelling, Recorded, Terminal

LEMMA NothingInserted ==
    ASSUME NEW t, NEW u, NEW seat, NEW job, NEW round, SameLabels(t, u)
    PROVE  Inserted(t, u, seat, job, round)
  BY DEF SameLabels, Inserted

LEMMA RecordFindingsLabels ==
    ASSUME Steady, NEW r \in Runs, NEW o \in Outcomes, RecordFindings(r, o)
    PROVE  InsertsFindings(r)
  <1> DEFINE seat == SeatOf(r)
             job == JobOf(r)
             rd == run[r].round
             cs == run[r].fresh
             t == record_findings(findings, seat, rd, job, cs, now)
             s == [run[r] EXCEPT !.pc = IF Applied(o) THEN "coverage" ELSE "unrecorded"]
  <1>1. /\ run[r].pc = "record" /\ Become(r, s) /\ UNCHANGED coverage
        /\ findings' = IF Applied(o) THEN t ELSE findings
    BY DEF RecordFindings, WriteFindings
  <1>2. s.pc \in Recorded /\ s.round = run[r].round
    BY Known DEF RunState, Recorded
  <1>3. Inserted(findings, t, seat, job, rd)
    <2>1. /\ findings \in Seq(Finding) /\ seat \in Seats /\ rd \in Nat /\ job \in Jobs
          /\ cs \in Seq(Claims) /\ now \in Nat
      BY Known DEF RunState
    <2> HIDE DEF seat, job, rd, cs
    <2>2. DOMAIN findings \subseteq DOMAIN t
      BY <2>1, RecordInserts
    <2>3. \A i \in DOMAIN findings : t[i] = findings[i]
      BY <2>1, RecordInserts
    <2>4. \A i \in DOMAIN t : i \notin DOMAIN findings =>
             \E k \in DOMAIN cs : t[i] = NewFinding(seat, rd, job, cs[k], now)
      BY <2>1, RecordInserts
    <2>5. \A c : LET x == NewFinding(seat, rd, job, c, now)
                 IN  x.seat = seat /\ x.round = rd /\ x.head = job
      BY DEF NewFinding
    <2> HIDE DEF t
    <2>6. QED
      BY <2>2, <2>3, <2>4, <2>5 DEF Inserted
  <1> HIDE DEF s, t
  <1>4. Inserted(findings, findings', seat, job, rd)
    BY <1>1, <1>3, SameTwice, NothingInserted
  <1>5. QED
    BY <1>1, <1>2, <1>4, StepsOn, SameTwice DEF InsertsFindings, Labelling

LEMMA RecordCoverageLabels ==
    ASSUME Steady, NEW r \in Runs, NEW o \in Outcomes, RecordCoverage(r, o)
    PROVE  InsertsCoverage(r)
  <1> DEFINE seat == SeatOf(r)
             job == JobOf(r)
             rd == run[r].round
             rs == run[r].examined
             d == record_coverage(coverage, seat, rd, job, rs, now)
  <1>1. /\ run[r].pc \in Recorded /\ Become(r, Finished) /\ UNCHANGED findings
        /\ coverage' = IF Applied(o) THEN d ELSE coverage
    BY DEF RecordCoverage, WriteCoverage, AfterRecord, Recorded
  <1>2. Finished.pc \in Terminal
    BY DEF Finished, Idle, Terminal
  <1>3. Inserted(coverage, d, seat, job, rd)
    <2>1. /\ coverage \in Seq(Coverage) /\ seat \in Seats /\ rd \in Nat /\ job \in Jobs
          /\ rs \in Seq(Regions) /\ now \in Nat
      BY Known DEF RunState
    <2> HIDE DEF seat, job, rd, rs
    <2>2. DOMAIN coverage \subseteq DOMAIN d
      BY <2>1, CoverageInserts
    <2>3. \A i \in DOMAIN coverage : d[i] = coverage[i]
      BY <2>1, CoverageInserts
    <2>4. \A i \in DOMAIN d : i \notin DOMAIN coverage =>
             d[i].seat = seat /\ d[i].round = rd /\ d[i].head = job
      BY <2>1, CoverageInserts
    <2> HIDE DEF d
    <2>5. QED
      BY <2>2, <2>3, <2>4 DEF Inserted
  <1> HIDE DEF d
  <1>4. Inserted(coverage, coverage', seat, job, rd)
    BY <1>1, <1>3, SameTwice, NothingInserted
  <1>5. QED
    BY <1>1, <1>2, <1>4, StepsOn, SameTwice DEF InsertsCoverage

LEMMA EndLabels ==
    ASSUME Steady, NEW r \in Runs, ReviewFails(r) \/ SkipCoverage(r)
    PROVE  KeepsLabels(r)
  <1>1. UNCHANGED <<findings, coverage>> /\ (Become(r, Finished) \/ Become(r, Crashed))
    BY DEF ReviewFails, SkipCoverage, Internal, ReadOnly
  <1>2. Finished.pc \in Terminal /\ Crashed.pc \in Terminal
    BY DEF Finished, Crashed, Idle, Terminal
  <1>3. run'[r].pc \in Terminal
    BY <1>1, <1>2, StepsOn
  <1>4. QED
    BY <1>1, <1>3, SameTwice DEF KeepsLabels, Labelling, Recorded, Terminal

LEMMA BranchLabels ==
    ASSUME Steady, NEW r \in Runs, BranchStep(r)
    PROVE  KeepsLabels(r) \/ InsertsFindings(r) \/ InsertsCoverage(r)
  <1>1. ASSUME NEW o \in Outcomes, Call(r, o)
        PROVE  KeepsLabels(r) \/ InsertsFindings(r) \/ InsertsCoverage(r)
    BY <1>1, EarlyLabels, LateLabels, RecordFindingsLabels, RecordCoverageLabels DEF Call
  <1>2. "ok" \in Outcomes
    BY DEF Outcomes
  <1>3. QED
    BY <1>1, <1>2, EarlyLabels, LateLabels, EndLabels DEF BranchStep

\* The rows of a round are written when the round is at its end.
HeadsOnRecord ==
    /\ \A i \in DOMAIN findings :
          run[<<findings[i].head, findings[i].seat>>].pc \in Recorded \cup Terminal
    /\ \A i \in DOMAIN coverage :
          run[<<coverage[i].head, coverage[i].seat>>].pc \in Terminal

LEMMA HeadsOfBranch ==
    ASSUME Steady, HeadsOnRecord, NEW r \in Runs, BranchStep(r)
    PROVE  HeadsOnRecord'
  <1>1. \A q \in Runs : q # r => run'[q] = run[q]
    BY BranchFrame DEF Steady
  <1>2. r = <<JobOf(r), SeatOf(r)>>
    BY DEF Runs, JobOf, SeatOf
  <1>3. /\ \A i \in DOMAIN findings : <<findings[i].head, findings[i].seat>> \in Runs
        /\ \A i \in DOMAIN coverage : <<coverage[i].head, coverage[i].seat>> \in Runs
    <2>1. /\ \A i \in DOMAIN findings : findings[i] \in Finding
          /\ \A i \in DOMAIN coverage : coverage[i] \in Coverage
      BY Known, RowOf
    <2>2. QED
      BY <2>1 DEF Finding, Coverage, Runs
  <1>4. CASE KeepsLabels(r)
    <2>1. /\ run[r].pc \in Recorded \cup Terminal => run'[r].pc \in Terminal
          /\ SameLabels(findings, findings') /\ SameLabels(coverage, coverage')
      BY <1>4 DEF KeepsLabels
    <2>2. /\ \A q \in Runs : run[q].pc \in Recorded \cup Terminal =>
                                 run'[q].pc \in Recorded \cup Terminal
          /\ \A q \in Runs : run[q].pc \in Terminal => run'[q].pc \in Terminal
      BY <1>1, <2>1
    <2>3. QED
      BY <1>3, <2>1, <2>2 DEF HeadsOnRecord, SameLabels
  <1>5. CASE InsertsFindings(r)
    <2>1. /\ Inserted(findings, findings', SeatOf(r), JobOf(r), run[r].round)
          /\ SameLabels(coverage, coverage')
          /\ run[r].pc \in Labelling /\ run'[r].pc \in Recorded
      BY <1>5 DEF InsertsFindings
    <2>2. /\ \A q \in Runs : run[q].pc \in Recorded \cup Terminal =>
                                 run'[q].pc \in Recorded \cup Terminal
          /\ \A q \in Runs : run[q].pc \in Terminal => run'[q].pc \in Terminal
      BY <1>1, <2>1 DEF Labelling, Recorded, Terminal
    <2>3. ASSUME NEW i \in DOMAIN findings'
          PROVE  run'[<<findings'[i].head, findings'[i].seat>>].pc \in Recorded \cup Terminal
      <3>1. CASE i \in DOMAIN findings
        BY <1>3, <2>1, <2>2, <3>1 DEF HeadsOnRecord, Inserted
      <3>2. CASE i \notin DOMAIN findings
        BY <1>2, <2>1, <3>2 DEF Inserted
      <3>3. QED
        BY <3>1, <3>2
    <2>4. QED
      BY <1>3, <2>1, <2>2, <2>3 DEF HeadsOnRecord, SameLabels
  <1>6. CASE InsertsCoverage(r)
    <2>1. /\ Inserted(coverage, coverage', SeatOf(r), JobOf(r), run[r].round)
          /\ SameLabels(findings, findings')
          /\ run[r].pc \in Recorded /\ run'[r].pc \in Terminal
      BY <1>6 DEF InsertsCoverage
    <2>2. /\ \A q \in Runs : run[q].pc \in Recorded \cup Terminal =>
                                 run'[q].pc \in Recorded \cup Terminal
          /\ \A q \in Runs : run[q].pc \in Terminal => run'[q].pc \in Terminal
      BY <1>1, <2>1
    <2>3. ASSUME NEW i \in DOMAIN coverage'
          PROVE  run'[<<coverage'[i].head, coverage'[i].seat>>].pc \in Terminal
      <3>1. CASE i \in DOMAIN coverage
        BY <1>3, <2>1, <2>2, <3>1 DEF HeadsOnRecord, Inserted
      <3>2. CASE i \notin DOMAIN coverage
        BY <1>2, <2>1, <3>2 DEF Inserted
      <3>3. QED
        BY <3>1, <3>2
    <2>4. QED
      BY <1>3, <2>1, <2>2, <2>3 DEF HeadsOnRecord, SameLabels
  <1>7. QED
    BY <1>4, <1>5, <1>6, BranchLabels

LEMMA HeadsStep == Steady /\ HeadsOnRecord /\ [Next]_vars => HeadsOnRecord'
  <1> SUFFICES ASSUME Steady, HeadsOnRecord, [Next]_vars PROVE HeadsOnRecord'
    OBVIOUS
  <1>1. CASE UNCHANGED <<findings, coverage, run>>
    BY <1>1 DEF HeadsOnRecord
  <1>2. ASSUME NEW p \in Jobs, Cancel(p) PROVE HeadsOnRecord'
    <2>1. UNCHANGED <<findings, coverage>>
      BY <1>2 DEF Cancel, Internal, ReadOnly
    <2>2. Crashed.pc \in Terminal
      BY DEF Crashed, Idle, Terminal
    <2>3. \A q \in Runs : run'[q] = run[q] \/ run'[q] = Crashed
      BY <1>2 DEF Cancel
    <2>4. /\ \A i \in DOMAIN findings : findings[i] \in Finding
          /\ \A i \in DOMAIN coverage : coverage[i] \in Coverage
      BY RowOf DEF Steady, TypeOK
    <2>5. /\ \A i \in DOMAIN findings : <<findings[i].head, findings[i].seat>> \in Runs
          /\ \A i \in DOMAIN coverage : <<coverage[i].head, coverage[i].seat>> \in Runs
      BY <2>4 DEF Finding, Coverage, Runs
    <2>6. QED
      BY <2>1, <2>2, <2>3, <2>5 DEF HeadsOnRecord
  <1>3. QED
    BY <1>1, <1>2, BranchSteps, HeadsOfBranch DEF Lapse, vars

-----------------------------------------------------------------------------
(* Labels are distinct *)

Below(t, seat, round) == \A i \in DOMAIN t : t[i].seat = seat => t[i].round < round

\* The label of a branch with memory s against those of its seat's rows: above
\* them all until it has recorded, and then the one label its own rows carry.
Labelled(s, job, seat, t, c) ==
    /\ s.pc \in Labelling => Below(t, seat, s.round)
    /\ s.pc \in Recorded =>
          \A i \in DOMAIN t : t[i].seat = seat =>
             IF t[i].head = job THEN t[i].round = s.round ELSE t[i].round < s.round
    /\ s.pc \in Labelling \cup Recorded => Below(c, seat, s.round)

LabelInHand(r) == Labelled(run[r], JobOf(r), SeatOf(r), findings, coverage)

LabelsInOrder == faults = 0 => RoundLabelsDistinct /\ \A r \in Runs : LabelInHand(r)

\* Before its branch has recorded, no row carries its job's mark in its seat.
LEMMA NotYetRecorded ==
    ASSUME Steady, HeadsOnRecord, NEW r \in Runs, run[r].pc \in Labelling
    PROVE  /\ \A i \in DOMAIN findings : findings[i].seat = SeatOf(r) => findings[i].head # JobOf(r)
           /\ \A i \in DOMAIN coverage : coverage[i].seat = SeatOf(r) => coverage[i].head # JobOf(r)
  <1>1. r = <<JobOf(r), SeatOf(r)>>
    BY DEF Runs, JobOf, SeatOf
  <1>2. run[r].pc \notin Recorded \cup Terminal
    BY DEF Labelling, Recorded, Terminal
  <1>3. QED
    BY <1>1, <1>2 DEF HeadsOnRecord

\* What is inserted comes after what was there.
LEMMA InsertedLater ==
    ASSUME NEW S, NEW t \in Seq(S), NEW u \in Seq(S), DOMAIN t \subseteq DOMAIN u,
           NEW i \in DOMAIN t, NEW j \in DOMAIN u, j \notin DOMAIN t
    PROVE  i < j
  BY LenProperties

LEMMA NextTables ==
    ASSUME Steady, [Next]_vars
    PROVE  /\ findings \in Seq(Finding) /\ findings' \in Seq(Finding)
           /\ coverage \in Seq(Coverage) /\ coverage' \in Seq(Coverage)
  BY TypeStep DEF Steady, TypeOK

LEMMA RoundsOf ==
    ASSUME Steady
    PROVE  /\ \A i \in DOMAIN findings : findings[i].round \in Nat
           /\ \A i \in DOMAIN coverage : coverage[i].round \in Nat
           /\ \A r \in Runs : run[r].round \in Nat
  <1>1. /\ \A i \in DOMAIN findings : findings[i] \in Finding
        /\ \A i \in DOMAIN coverage : coverage[i] \in Coverage
        /\ \A r \in Runs : run[r] \in RunState
    BY RowOf DEF Steady, TypeOK
  <1>2. QED
    BY <1>1 DEF Finding, Coverage, RunState

LEMMA SameInRounds ==
    ASSUME NEW t, NEW u, SameLabels(t, u), InRounds(t)
    PROVE  InRounds(u)
  BY DEF SameLabels, InRounds

\* Rows that one round inserts, in a seat whose rows are of other rounds with
\* lower labels, leave the table in rounds.
LEMMA InsertedInRounds ==
    ASSUME NEW S, NEW t \in Seq(S), NEW u \in Seq(S), NEW seat, NEW job, NEW round,
           Inserted(t, u, seat, job, round), InRounds(t),
           \A i \in DOMAIN t : t[i].seat = seat => t[i].head # job /\ t[i].round < round
    PROVE  InRounds(u)
  <1>1. \A i \in DOMAIN t, j \in DOMAIN u : j \notin DOMAIN t => i < j
    BY InsertedLater DEF Inserted
  <1>2. \A i, j \in DOMAIN u : i \in Nat /\ j \in Nat
    BY LenProperties
  <1> SUFFICES ASSUME NEW i \in DOMAIN u, NEW j \in DOMAIN u, u[i].seat = u[j].seat, i < j
               PROVE  \/ u[i].head = u[j].head /\ u[i].round = u[j].round
                      \/ u[i].head # u[j].head /\ u[i].round < u[j].round
    BY DEF InRounds
  <1>3. CASE i \in DOMAIN t /\ j \in DOMAIN t
    BY <1>3 DEF Inserted, InRounds
  <1>4. CASE i \in DOMAIN t /\ j \notin DOMAIN t
    BY <1>4 DEF Inserted
  <1>5. CASE i \notin DOMAIN t /\ j \in DOMAIN t
    BY <1>1, <1>2, <1>5
  <1>6. CASE i \notin DOMAIN t /\ j \notin DOMAIN t
    BY <1>6 DEF Inserted
  <1> QED
    BY <1>3, <1>4, <1>5, <1>6

LEMMA DistinctStep ==
    ASSUME Steady, HeadsOnRecord, NEW r \in Runs, BranchStep(r),
           RoundLabelsDistinct, LabelInHand(r)
    PROVE  RoundLabelsDistinct'
  <1>0. [Next]_vars
    BY DEF Next, Step, BranchStep
  <1>1. CASE KeepsLabels(r)
    <2>1. SameLabels(findings, findings') /\ SameLabels(coverage, coverage')
      BY <1>1 DEF KeepsLabels
    <2>2. InRounds(findings') /\ InRounds(coverage')
      BY <2>1, SameInRounds DEF RoundLabelsDistinct
    <2> QED
      BY <2>1, <2>2 DEF SameLabels, RoundLabelsDistinct
  <1>2. CASE InsertsFindings(r)
    <2>1. /\ Inserted(findings, findings', SeatOf(r), JobOf(r), run[r].round)
          /\ SameLabels(coverage, coverage') /\ run[r].pc \in Labelling
      BY <1>2 DEF InsertsFindings
    <2>2. Below(findings, SeatOf(r), run[r].round) /\ Below(coverage, SeatOf(r), run[r].round)
      BY <2>1 DEF LabelInHand, Labelled
    <2>3. /\ \A i \in DOMAIN findings : findings[i].seat = SeatOf(r) =>
                findings[i].head # JobOf(r) /\ findings[i].round < run[r].round
          /\ \A i \in DOMAIN coverage : coverage[i].seat = SeatOf(r) =>
                coverage[i].head # JobOf(r) /\ coverage[i].round # run[r].round
      BY <2>1, <2>2, NotYetRecorded, RoundsOf DEF Below
    <2>4. InRounds(findings')
      BY <1>0, <2>1, <2>3, NextTables, InsertedInRounds DEF RoundLabelsDistinct
    <2>5. InRounds(coverage')
      BY <2>1, SameInRounds DEF RoundLabelsDistinct
    <2>6. ASSUME NEW i \in DOMAIN findings', NEW j \in DOMAIN coverage',
                 findings'[i].seat = coverage'[j].seat
          PROVE  findings'[i].round = coverage'[j].round <=> findings'[i].head = coverage'[j].head
      <3>1. /\ j \in DOMAIN coverage /\ coverage'[j].seat = coverage[j].seat
            /\ coverage'[j].round = coverage[j].round /\ coverage'[j].head = coverage[j].head
        BY <2>1 DEF SameLabels
      <3>2. CASE i \in DOMAIN findings
        BY <2>1, <2>6, <3>1, <3>2 DEF Inserted, RoundLabelsDistinct
      <3>3. CASE i \notin DOMAIN findings
        BY <2>1, <2>3, <2>6, <3>1, <3>3 DEF Inserted
      <3>4. QED
        BY <3>2, <3>3
    <2>7. QED
      BY <2>4, <2>5, <2>6 DEF RoundLabelsDistinct
  <1>3. CASE InsertsCoverage(r)
    <2>1. /\ Inserted(coverage, coverage', SeatOf(r), JobOf(r), run[r].round)
          /\ SameLabels(findings, findings') /\ run[r].pc \in Recorded
      BY <1>3 DEF InsertsCoverage
    <2>2. \A i \in DOMAIN findings : findings[i].seat = SeatOf(r) =>
             (findings[i].round = run[r].round <=> findings[i].head = JobOf(r))
      BY <2>1, RoundsOf DEF LabelInHand, Labelled
    <2>3. \A i \in DOMAIN coverage : coverage[i].seat = SeatOf(r) =>
             coverage[i].head # JobOf(r) /\ coverage[i].round < run[r].round
      <3>1. r = <<JobOf(r), SeatOf(r)>> /\ run[r].pc \notin Terminal
        BY <2>1 DEF Runs, JobOf, SeatOf, Recorded, Terminal
      <3>2. \A i \in DOMAIN coverage : coverage[i].seat = SeatOf(r) => coverage[i].head # JobOf(r)
        BY <3>1 DEF HeadsOnRecord
      <3>3. Below(coverage, SeatOf(r), run[r].round)
        BY <2>1 DEF LabelInHand, Labelled
      <3> QED
        BY <3>2, <3>3 DEF Below
    <2>4. InRounds(coverage')
      BY <1>0, <2>1, <2>3, NextTables, InsertedInRounds DEF RoundLabelsDistinct
    <2>5. InRounds(findings')
      BY <2>1, SameInRounds DEF RoundLabelsDistinct
    <2>6. ASSUME NEW i \in DOMAIN findings', NEW j \in DOMAIN coverage',
                 findings'[i].seat = coverage'[j].seat
          PROVE  findings'[i].round = coverage'[j].round <=> findings'[i].head = coverage'[j].head
      <3>1. /\ i \in DOMAIN findings /\ findings'[i].seat = findings[i].seat
            /\ findings'[i].round = findings[i].round /\ findings'[i].head = findings[i].head
        BY <2>1 DEF SameLabels
      <3>2. CASE j \in DOMAIN coverage
        <4>1. /\ coverage'[j].seat = coverage[j].seat
              /\ coverage'[j].round = coverage[j].round /\ coverage'[j].head = coverage[j].head
          BY <2>1, <3>2 DEF Inserted
        <4>2. findings[i].seat = coverage[j].seat =>
                 (findings[i].round = coverage[j].round <=> findings[i].head = coverage[j].head)
          BY <3>1, <3>2 DEF RoundLabelsDistinct
        <4>3. QED
          BY <2>6, <3>1, <4>1, <4>2
      <3>3. CASE j \notin DOMAIN coverage
        BY <2>1, <2>2, <2>6, <3>1, <3>3 DEF Inserted
      <3>4. QED
        BY <3>2, <3>3
    <2>7. QED
      BY <2>4, <2>5, <2>6 DEF RoundLabelsDistinct
  <1>4. QED
    BY <1>1, <1>2, <1>3, BranchLabels

\* The branch's own label after its step.
LEMMA OwnLabel ==
    ASSUME Steady, HeadsOnRecord, NEW r \in Runs, BranchStep(r), LabelInHand(r), faults' = 0
    PROVE  LabelInHand(r)'
  <1>1. CASE KeepsLabels(r)
    <2>1. SameLabels(findings, findings') /\ SameLabels(coverage, coverage')
      BY <1>1 DEF KeepsLabels
    <2>2. CASE run'[r].pc \notin Labelling \cup Recorded
      BY <2>2 DEF LabelInHand, Labelled
    <2>3. CASE /\ run[r].pc \in Labelling /\ run'[r].pc \in Labelling \cup Recorded
               /\ run'[r].round = run[r].round
      <3>1. Below(findings, SeatOf(r), run[r].round) /\ Below(coverage, SeatOf(r), run[r].round)
        BY <2>3 DEF LabelInHand, Labelled
      <3>2. \A i \in DOMAIN findings : findings[i].seat = SeatOf(r) => findings[i].head # JobOf(r)
        BY <2>3, NotYetRecorded
      <3>3. Below(findings', SeatOf(r), run[r].round) /\ Below(coverage', SeatOf(r), run[r].round)
        BY <2>1, <3>1 DEF Below, SameLabels
      <3>4. \A i \in DOMAIN findings' : findings'[i].seat = SeatOf(r) =>
               findings'[i].head # JobOf(r)
        BY <2>1, <3>2 DEF SameLabels
      <3>5. QED
        BY <2>3, <3>3, <3>4 DEF LabelInHand, Labelled, Below
    <2>4. CASE /\ run'[r].pc = "review"
               /\ run'[r].round = next_round(findings, coverage, SeatOf(r))
      <3>1. /\ Below(findings, SeatOf(r), run'[r].round)
            /\ Below(coverage, SeatOf(r), run'[r].round)
        BY <2>4, Known, NextRoundAbove DEF Below
      <3>2. /\ Below(findings', SeatOf(r), run'[r].round)
            /\ Below(coverage', SeatOf(r), run'[r].round)
        BY <2>1, <3>1 DEF Below, SameLabels
      <3>3. "review" \notin Recorded
        BY DEF Recorded
      <3>4. QED
        BY <2>4, <3>2, <3>3 DEF LabelInHand, Labelled
    <2>5. QED
      BY <1>1, <2>2, <2>3, <2>4 DEF KeepsLabels
  <1>2. CASE InsertsFindings(r)
    <2>1. /\ Inserted(findings, findings', SeatOf(r), JobOf(r), run[r].round)
          /\ SameLabels(coverage, coverage')
          /\ run[r].pc \in Labelling /\ run'[r].pc \in Recorded /\ run'[r].round = run[r].round
      BY <1>2 DEF InsertsFindings
    <2>2. Below(findings, SeatOf(r), run[r].round) /\ Below(coverage, SeatOf(r), run[r].round)
      BY <2>1 DEF LabelInHand, Labelled
    <2>3. \A i \in DOMAIN findings : findings[i].seat = SeatOf(r) => findings[i].head # JobOf(r)
      BY <2>1, NotYetRecorded
    <2>4. Below(coverage', SeatOf(r), run[r].round)
      BY <2>1, <2>2 DEF Below, SameLabels
    <2>5. ASSUME NEW i \in DOMAIN findings', findings'[i].seat = SeatOf(r)
          PROVE  IF findings'[i].head = JobOf(r) THEN findings'[i].round = run[r].round
                 ELSE findings'[i].round < run[r].round
      BY <2>1, <2>2, <2>3, <2>5 DEF Inserted, Below
    <2>6. run'[r].pc \notin Labelling
      BY <2>1 DEF Labelling, Recorded
    <2>7. QED
      BY <2>1, <2>4, <2>5, <2>6 DEF LabelInHand, Labelled
  <1>3. CASE InsertsCoverage(r)
    <2>1. run'[r].pc \notin Labelling \cup Recorded
      BY <1>3 DEF InsertsCoverage, Terminal, Labelling, Recorded
    <2>2. QED
      BY <2>1 DEF LabelInHand, Labelled
  <1>4. QED
    BY <1>1, <1>2, <1>3, BranchLabels

LEMMA LabelsStep ==
    ASSUME Overlap = FALSE
    PROVE  Steady /\ HeadsOnRecord /\ LabelsInOrder /\ [Next]_vars => LabelsInOrder'
  <1> SUFFICES ASSUME Steady, HeadsOnRecord, LabelsInOrder, [Next]_vars, faults' = 0
               PROVE  RoundLabelsDistinct' /\ \A r \in Runs : LabelInHand(r)'
    BY DEF LabelsInOrder
  <1>1. RoundLabelsDistinct /\ \A r \in Runs : LabelInHand(r)
    BY CleanBefore DEF LabelsInOrder, Steady
  <1>2. ASSUME NEW r \in Runs, BranchStep(r), NEW q \in Runs, q # r PROVE LabelInHand(q)'
    <2>1. run'[q] = run[q]
      BY <1>2, BranchFrame DEF Steady
    <2>2. CASE AtWork(run[q])
      <3>1. SameLane(findings, findings', SeatOf(q)) /\ SameLane(coverage, coverage', SeatOf(q))
        BY <1>2, <2>2, Undisturbed DEF Steady
      <3>2. QED
        BY <1>1, <2>1, <3>1 DEF LabelInHand, Labelled, Below, SameLane
    <2>3. CASE ~AtWork(run[q])
      BY <2>1, <2>3 DEF LabelInHand, Labelled, Labelling, Recorded, AtWork, Terminal
    <2>4. QED
      BY <2>2, <2>3
  <1>3. ASSUME NEW p \in Jobs, Cancel(p)
        PROVE  RoundLabelsDistinct' /\ \A r \in Runs : LabelInHand(r)'
    <2>1. UNCHANGED <<findings, coverage>> /\ \A q \in Runs : run'[q] = run[q] \/ run'[q] = Crashed
      BY <1>3 DEF Cancel, Internal, ReadOnly
    <2>2. Crashed.pc \notin Labelling \cup Recorded
      BY DEF Crashed, Idle, Labelling, Recorded
    <2>3. QED
      BY <1>1, <2>1, <2>2 DEF RoundLabelsDistinct, InRounds, LabelInHand, Labelled
  <1>4. CASE UNCHANGED <<findings, coverage, run>>
    BY <1>1, <1>4 DEF RoundLabelsDistinct, InRounds, LabelInHand, Labelled, Below
  <1>5. ASSUME NEW r \in Runs, BranchStep(r)
        PROVE  RoundLabelsDistinct' /\ \A q \in Runs : LabelInHand(q)'
    BY <1>1, <1>2, <1>5, DistinctStep, OwnLabel
  <1>6. QED
    BY <1>3, <1>4, <1>5, BranchSteps DEF Lapse, vars

\* next_round: until a call degrades, and while jobs do not overlap, no two
\* rounds of a seat share a label, both with findings, both with coverage only
\* or one of each, and in either table a later round's is greater, whichever
\* rounds crashed or settled all their rows.
THEOREM LabelsDistinct ==
    ASSUME Overlap = FALSE
    PROVE  Spec => [](faults = 0 => RoundLabelsDistinct)
  <1>1. Init => HeadsOnRecord /\ LabelsInOrder
    <2> SUFFICES ASSUME Init PROVE HeadsOnRecord /\ LabelsInOrder
      OBVIOUS
    <2>1. DOMAIN findings = {} /\ DOMAIN coverage = {}
      BY DEF Init
    <2>2. QED
      BY <2>1 DEF HeadsOnRecord, LabelsInOrder, RoundLabelsDistinct, InRounds, LabelInHand, Labelled, Below
  <1>2. InOrder => Steady
    BY DEF InOrder
  <1>3. HeadsOnRecord /\ LabelsInOrder /\ Steady /\ [Next]_vars => HeadsOnRecord' /\ LabelsInOrder'
    BY HeadsStep, LabelsStep
  <1>4. LabelsInOrder => (faults = 0 => RoundLabelsDistinct)
    BY DEF LabelsInOrder
  <1>5. QED
    BY <1>1, <1>2, <1>3, <1>4, InOrderAlways, PTL DEF Spec

-----------------------------------------------------------------------------
(* What is rendered as covered *)

\* What a branch with memory s relies on of the coverage of its seat in table
\* c: what its head touches is expired before it reads, and what it shows is of
\* files the head neither touches nor lacks.
Assured(s, seat, c) ==
    /\ s.pc \in {"open", "retire", "cover"} =>
          \A i \in DOMAIN c : c[i].seat = seat /\ c[i].file \in s.head.touched => c[i].expired
    /\ s.pc \in {"idle", "expire", "open", "retire", "cover"} => s.shown = {}
    /\ \A i \in s.shown :
          c[i].file \notin s.head.touched \cup s.head.gone /\ ~c[i].hollow

Assurance == faults = 0 => \A r \in Runs : Assured(run[r], SeatOf(r), coverage)

Expiry(d, seat, fs) == \A i \in DOMAIN d : d[i].seat = seat /\ d[i].file \in fs => d[i].expired

LEMMA NothingShown ==
    ASSUME NEW s, s.shown = {}, s.pc \notin {"open", "retire", "cover"}, NEW seat, NEW c
    PROVE  Assured(s, seat, c)
  BY DEF Assured

\* What is shown stays true while coverage rows keep what they say.
LEMMA ShownOn ==
    ASSUME NEW s, NEW u, NEW seat, NEW c, NEW d, Assured(s, seat, c),
           s.shown \subseteq DOMAIN c, SameCoverage(c, d),
           u.pc \notin {"idle", "expire", "open", "retire", "cover"},
           u.shown = s.shown, u.head = s.head
    PROVE  Assured(u, seat, d)
  BY DEF Assured, SameCoverage

LEMMA SameSays == ASSUME NEW c PROVE SameCoverage(c, c)
  BY DEF SameCoverage

LEMMA AssuredEarly ==
    ASSUME Steady, NEW r \in Runs, NEW o \in Outcomes, faults' = 0,
           Assured(run[r], SeatOf(r), coverage),
           \/ Start(r) \/ ExpireTouched(r, o) \/ ReadOpen(r, o) \/ RetireMissing(r, o)
    PROVE  Assured(run'[r], SeatOf(r), coverage')
  <1>0. run \in [Runs -> RunState] /\ run[r] \in RunState
    BY DEF Steady, TypeOK
  <1>1. CASE Start(r)
    <2>1. \E m, h : run'[r] = [run[r] EXCEPT !.pc = "expire", !.mode = m, !.head = h]
      BY <1>0, <1>1 DEF Start, Become
    <2>2. run'[r].pc = "expire" /\ run'[r].shown = run[r].shown
      BY <1>0, <2>1 DEF RunState
    <2>3. run[r].shown = {}
      BY <1>1 DEF Start, Assured
    <2>4. QED
      BY <2>2, <2>3, NothingShown
  <1>2. CASE ExpireTouched(r, o)
    <2>1. \E p \in {"open", "cover"} : run'[r] = [run[r] EXCEPT !.pc = p]
      BY <1>0, <1>2 DEF ExpireTouched, Become
    <2>2. run'[r].shown = run[r].shown /\ run'[r].head = run[r].head
      BY <1>0, <2>1 DEF RunState
    <2>3. run[r].shown = {}
      BY <1>2 DEF ExpireTouched, Assured
    <2>4. coverage' = expire_coverage(coverage, SeatOf(r), run[r].head.touched)
      <3>1. Applied(o)
        BY <1>2, CleanCall DEF Call, Steady, Applied
      <3>2. QED
        BY <1>2, <3>1 DEF ExpireTouched, WriteCoverage
    <2>5. Expiry(coverage', SeatOf(r), run[r].head.touched)
      <3>1. ASSUME NEW fs PROVE Expiry(expire_coverage(coverage, SeatOf(r), fs), SeatOf(r), fs)
        BY Known, ExpireRows DEF Expiry
      <3>2. QED
        BY <2>4, <3>1
    <2>6. QED
      BY <2>2, <2>3, <2>5 DEF Assured, Expiry
  <1>3. CASE ReadOpen(r, o) \/ RetireMissing(r, o)
    <2>1. CASE ReadOpen(r, o)
      <3>1. \E p \in {"cover", "retire"} : \E a, b :
               run'[r] = [run[r] EXCEPT !.pc = p, !.offered = a, !.todo = b]
        BY <1>0, <2>1 DEF ReadOpen, Become
      <3>2. run'[r].shown = run[r].shown /\ run'[r].head = run[r].head
        BY <1>0, <3>1 DEF RunState
      <3>3. UNCHANGED coverage /\ run[r].pc = "open"
        BY <2>1 DEF ReadOpen, ReadOnly
      <3>4. QED
        BY <3>2, <3>3 DEF Assured
    <2>2. CASE RetireMissing(r, o)
      <3>1. \E p \in {"cover", "retire"} : \E a : run'[r] = [run[r] EXCEPT !.todo = a, !.pc = p]
        BY <1>0, <2>2 DEF RetireMissing, Become
      <3>2. run'[r].shown = run[r].shown /\ run'[r].head = run[r].head
        BY <1>0, <3>1 DEF RunState
      <3>3. UNCHANGED coverage /\ run[r].pc = "retire"
        BY <2>2 DEF RetireMissing, WriteFindings
      <3>4. QED
        BY <3>2, <3>3 DEF Assured
    <2>3. QED
      BY <1>3, <2>1, <2>2
  <1>4. QED
    BY <1>1, <1>2, <1>3

LEMMA AssuredRead ==
    ASSUME Steady, NEW r \in Runs, NEW o \in Outcomes, ReadCoverage(r, o),
           Assured(run[r], SeatOf(r), coverage)
    PROVE  Assured(run'[r], SeatOf(r), coverage')
  <1> DEFINE read == IF Answered(o)
                     THEN live_coverage(coverage, SeatOf(r), horizon, MAX_LIVE_COVERAGE)
                     ELSE {}
             kept == {i \in read : ~coverage[i].hollow}
             dead == {coverage[i].file : i \in kept} \cap run[r].head.gone
             shown == Rendered({i \in kept : coverage[i].file \notin dead})
             dest == IF dead = {} THEN "round" ELSE "dead"
             s == [run[r] EXCEPT !.pc = dest, !.dead = dead, !.shown = shown]
  <1>1. Become(r, s) /\ UNCHANGED coverage /\ run[r].pc = "cover"
    BY DEF ReadCoverage, ReadOnly
  <1>2. \A i \in read : i \in DOMAIN coverage /\ coverage[i].seat = SeatOf(r) /\ ~coverage[i].expired
    BY DEF live_coverage, LiveRows
  <1>3. \A i \in shown : i \in read /\ ~coverage[i].hollow
                         /\ coverage[i].file \notin run[r].head.gone
    BY DEF Rendered
  <1>4. dest \in {"round", "dead"}
    OBVIOUS
  <1> HIDE DEF read, kept, dead, shown, dest
  <1>5. s.pc = dest /\ s.shown = shown /\ s.head = run[r].head
    BY Known DEF RunState
  <1> HIDE DEF s
  <1>6. \A i \in shown : coverage[i].file \notin run[r].head.touched
    BY <1>1, <1>2, <1>3 DEF Assured
  <1>7. Assured(s, SeatOf(r), coverage)
    BY <1>3, <1>4, <1>5, <1>6 DEF Assured
  <1>8. QED
    BY <1>1, <1>7, StepsOn

\* After the read: the rows shown keep what they say.
LEMMA AssuredLate ==
    ASSUME Steady, NEW r \in Runs, NEW o \in Outcomes,
           Assured(run[r], SeatOf(r), coverage),
           \/ ExpireDead(r, o) \/ ReadRound(r, o) \/ Review(r) \/ ApplyVerdict(r, o)
           \/ ReadSettled(r, o) \/ DedupeCarried(r) \/ DedupeTwin(r) \/ Reraise(r, o)
           \/ MatchFresh(r) \/ Touch(r, o) \/ RecordFindings(r, o)
    PROVE  Assured(run'[r], SeatOf(r), coverage')
  <1>0. run \in [Runs -> RunState] /\ run[r] \in RunState
    BY DEF Steady, TypeOK
  <1>1. /\ run'[r].shown = run[r].shown /\ run'[r].head = run[r].head
        /\ run'[r].pc \notin {"idle", "expire", "open", "retire", "cover"}
    <2>1. CASE ExpireDead(r, o) \/ ReadRound(r, o)
      <3>1. \/ run'[r] = [run[r] EXCEPT !.pc = "round"]
            \/ \E n : run'[r] = [run[r] EXCEPT !.pc = "review", !.round = n]
        BY <1>0, <2>1 DEF ExpireDead, ReadRound, Become
      <3>2. QED
        BY <1>0, <3>1 DEF RunState
    <2>2. CASE RecordFindings(r, o)
      <3>1. \E p \in {"coverage", "unrecorded"} : run'[r] = [run[r] EXCEPT !.pc = p]
        BY <1>0, <2>2 DEF RecordFindings, Become
      <3>2. QED
        BY <1>0, <3>1 DEF RunState
    <2>3. CASE ~(ExpireDead(r, o) \/ ReadRound(r, o) \/ RecordFindings(r, o))
      BY <2>3, LateMoves DEF Labelling, Recorded
    <2>4. QED
      BY <2>1, <2>2, <2>3
  <1>2. SameCoverage(coverage, coverage')
    <2>1. CASE ExpireDead(r, o)
      <3>1. SameCoverage(coverage, expire_coverage(coverage, SeatOf(r), run[r].dead))
        BY Known, ExpireRows
      <3>2. QED
        BY <2>1, <3>1, SameSays DEF ExpireDead, WriteCoverage
    <2>2. CASE ~ExpireDead(r, o)
      BY <2>2, SameSays DEF ReadRound, Review, ApplyVerdict, ReadSettled, DedupeCarried,
             DedupeTwin, Reraise, MatchFresh, Touch, RecordFindings, Internal, ReadOnly,
             WriteFindings
    <2>3. QED
      BY <2>1, <2>2
  <1>3. run[r].shown \subseteq DOMAIN coverage
    BY Known DEF Refs
  <1>4. QED
    BY <1>1, <1>2, <1>3, ShownOn

LEMMA AssuredBranch ==
    ASSUME Steady, NEW r \in Runs, BranchStep(r), faults' = 0,
           Assured(run[r], SeatOf(r), coverage)
    PROVE  Assured(run'[r], SeatOf(r), coverage')
  <1>1. ASSUME \/ ReviewFails(r) \/ SkipCoverage(r)
               \/ \E o \in Outcomes : RecordCoverage(r, o)
        PROVE  Assured(run'[r], SeatOf(r), coverage')
    <2>1. Become(r, Finished) \/ Become(r, Crashed)
      BY <1>1 DEF ReviewFails, SkipCoverage, RecordCoverage
    <2>2. \A s \in {Finished, Crashed} : s.shown = {} /\ s.pc \notin {"open", "retire", "cover"}
      BY DEF Finished, Crashed, Idle
    <2>3. QED
      BY <2>1, <2>2, StepsOn, NothingShown
  <1>2. ASSUME NEW o \in Outcomes, Call(r, o)
        PROVE  Assured(run'[r], SeatOf(r), coverage')
    BY <1>1, <1>2, AssuredEarly, AssuredRead, AssuredLate DEF Call
  <1>3. "ok" \in Outcomes
    BY DEF Outcomes
  <1>4. QED
    BY <1>1, <1>2, <1>3, AssuredEarly, AssuredLate DEF BranchStep

LEMMA CoverageKept ==
    ASSUME Steady, NEW r \in Runs, BranchStep(r)
    PROVE  SameCoverage(coverage, coverage')
  <1>1. ASSUME NEW fs, NEW o, WriteCoverage(o, expire_coverage(coverage, SeatOf(r), fs))
        PROVE  SameCoverage(coverage, coverage')
    <2>1. SameCoverage(coverage, expire_coverage(coverage, SeatOf(r), fs))
      BY Known, ExpireRows
    <2>2. QED
      BY <1>1, <2>1, SameSays DEF WriteCoverage
  <1>2. ASSUME NEW o \in Outcomes, RecordCoverage(r, o) PROVE SameCoverage(coverage, coverage')
    <2> DEFINE d == record_coverage(coverage, SeatOf(r), run[r].round, JobOf(r),
                                    run[r].examined, now)
    <2>2. DOMAIN coverage \subseteq DOMAIN d /\ \A i \in DOMAIN coverage : d[i] = coverage[i]
      <3>1. run[r].round \in Nat /\ run[r].examined \in Seq(Regions)
        BY Known DEF RunState
      <3>2. DOMAIN coverage \subseteq DOMAIN d
        BY <3>1, Known, CoverageInserts
      <3>3. \A i \in DOMAIN coverage : d[i] = coverage[i]
        BY <3>1, Known, CoverageInserts
      <3>4. QED
        BY <3>2, <3>3
    <2>3. coverage' = d \/ coverage' = coverage
      BY <1>2 DEF RecordCoverage, WriteCoverage
    <2> HIDE DEF d
    <2>4. QED
      BY <2>2, <2>3, SameSays DEF SameCoverage
  <1>3. ASSUME NEW o \in Outcomes, Call(r, o) PROVE SameCoverage(coverage, coverage')
    <2>1. UNCHANGED coverage \/ RecordCoverage(r, o)
          \/ \E fs : WriteCoverage(o, expire_coverage(coverage, SeatOf(r), fs))
      BY <1>3 DEF Call, ExpireTouched, ReadOpen, RetireMissing, ReadCoverage, ExpireDead,
             ReadRound, ApplyVerdict, ReadSettled, Reraise, Touch, RecordFindings,
             ReadOnly, WriteFindings
    <2>2. QED
      BY <1>1, <1>2, <2>1, SameSays
  <1>4. QED
    BY <1>3, InternalSteps, SameSays DEF BranchStep, ReadOnly

LEMMA AssuranceStep ==
    ASSUME Overlap = FALSE
    PROVE  Steady /\ Assurance /\ [Next]_vars => Assurance'
  <1> SUFFICES ASSUME Steady, Assurance, [Next]_vars, faults' = 0, NEW q \in Runs
               PROVE  Assured(run'[q], SeatOf(q), coverage')
    BY DEF Assurance
  <1>1. Assured(run[q], SeatOf(q), coverage)
    BY CleanBefore DEF Assurance, Steady
  <1>2. ASSUME NEW r \in Runs, BranchStep(r) PROVE Assured(run'[q], SeatOf(q), coverage')
    <2>1. CASE q = r
      BY <1>1, <1>2, <2>1, AssuredBranch
    <2>2. CASE q # r
      <3>1. run'[q] = run[q]
        BY <1>2, <2>2, BranchFrame DEF Steady
      <3>2. \A i \in run[q].shown : coverage'[i].file = coverage[i].file
                                    /\ coverage'[i].hollow = coverage[i].hollow
        <4>1. run[q].shown \subseteq DOMAIN coverage
          BY Known DEF Refs
        <4>2. QED
          BY <1>2, <4>1, CoverageKept DEF SameCoverage
      <3>3. CASE AtWork(run[q])
        <4>1. SameLane(coverage, coverage', SeatOf(q))
          BY <1>2, <2>2, <3>3, Undisturbed DEF Steady
        <4>2. QED
          BY <1>1, <3>1, <3>2, <4>1 DEF Assured, SameLane
      <3>4. CASE ~AtWork(run[q])
        BY <1>1, <3>1, <3>2, <3>4 DEF Assured, AtWork, Terminal
      <3>5. QED
        BY <3>3, <3>4
    <2>3. QED
      BY <2>1, <2>2
  <1>3. ASSUME NEW p \in Jobs, Cancel(p) PROVE Assured(run'[q], SeatOf(q), coverage')
    <2>1. UNCHANGED coverage /\ (run'[q] = run[q] \/ run'[q] = Crashed)
      BY <1>3 DEF Cancel, Internal, ReadOnly
    <2>2. Crashed.shown = {} /\ Crashed.pc = "crashed"
      BY DEF Crashed, Idle
    <2>3. QED
      BY <1>1, <2>1, <2>2, NothingShown
  <1>4. CASE UNCHANGED <<coverage, run>>
    BY <1>1, <1>4
  <1>5. QED
    BY <1>2, <1>3, <1>4, BranchSteps DEF Lapse, vars

\* carry_in: until a call degrades, no coverage of a file the round's delta
\* touched or its head lacks, and no hollow entry, is shown to the agent.
THEOREM NoStaleCoverage ==
    ASSUME Overlap = FALSE
    PROVE  Spec => [](faults = 0 => NoStaleAssurance)
  <1>1. Init => Assurance
    <2>1. Idle.shown = {} /\ Idle.pc = "idle"
      BY DEF Idle
    <2>2. QED
      BY <2>1, NothingShown DEF Init, Assurance
  <1>2. InOrder => Steady
    BY DEF InOrder
  <1>3. Assurance /\ Steady /\ [Next]_vars => Assurance'
    BY AssuranceStep
  <1>4. Assurance => (faults = 0 => NoStaleAssurance)
    BY DEF Assurance, Assured, NoStaleAssurance
  <1>5. QED
    BY <1>1, <1>2, <1>3, <1>4, InOrderAlways, PTL DEF Spec

=============================================================================

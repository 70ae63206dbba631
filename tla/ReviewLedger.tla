---------------------------- MODULE ReviewLedger ----------------------------
(***************************************************************************)
(* The review ledger as rounds use it: sidecar/reviewer/ledger.py (carry_in *)
(* and settle) over sidecar/review_state_client.py, as driven by           *)
(* AgenticBackend.invoke.                                                  *)
(*                                                                         *)
(* A JOB is one `fuko review' process on one head of the pull request; it  *)
(* runs one BRANCH per seat, each in a thread of its own.  A branch makes  *)
(* its store calls one after another and every call is a step of its own,  *)
(* so branches, and jobs when they overlap, interleave between any two     *)
(* calls.  A call may be answered, may take effect without its answer      *)
(* arriving, or may not take effect; a caller sees the neutral value in    *)
(* the last two cases and never retries.                                   *)
(***************************************************************************)
EXTENDS ReviewStore

CONSTANTS
    Jobs,                   \* review processes
    Seats,                  \* the lanes of the ledger
    Files,                  \* paths findings and coverage are anchored on
    Claims,                 \* claim identities: claim_anchor(file, title)
    FileOf,                 \* the file of a claim
    Heads,                  \* what a checkout may look like: files gone from
                            \* the tree, files the diff touches
    Modes,                  \* which tiers a branch's entry switches on
    Publications,           \* the findings a review may publish, in order
    Examinations,           \* the regions a review may report, in order
    MAX_OPEN_FINDINGS, MAX_SETTLED_FINDINGS,
    MAX_LIVE_COVERAGE, MAX_PRIOR_COVERAGE,
    LocalStore,             \* the runner has the store's database URL too
    Overlap,                \* two jobs of one pull request may overlap
    Lapses,                 \* 90 days may pass between two jobs
    MaxFaults               \* bound: store calls that degrade

Verdicts == {"none", "still_open", "fixed", "rejected", "rejected_bare"}

Regions == [file : Files, hollow : BOOLEAN]

ASSUME LedgerConstants ==
    /\ FileOf \in [Claims -> Files]
    /\ Heads \subseteq [gone : SUBSET Files, touched : SUBSET Files]
    /\ Modes \subseteq [findings : BOOLEAN, coverage : BOOLEAN]
    /\ \A p \in Publications : p \in Seq(Claims)
    /\ \A e \in Examinations : e \in Seq(Regions)
    /\ MaxFaults \in Nat
    /\ LocalStore \in BOOLEAN
    /\ Overlap \in BOOLEAN
    /\ Lapses \in BOOLEAN

VARIABLES
    findings,       \* table review_findings
    coverage,       \* table review_coverage
    now,            \* the store's clock
    horizon,        \* the far edge of the retention window
    run,            \* the memory of each branch
    down,           \* _transport_down of each process
    faults          \* calls that degraded so far

vars == <<findings, coverage, now, horizon, run, down, faults>>

Runs == Jobs \X Seats
JobOf(r) == r[1]
SeatOf(r) == r[2]

Terminal == {"done", "crashed"}

\* CarriedState, and the locals of carry_in and settle.
Idle ==
    [pc |-> "idle",
     mode |-> [findings |-> FALSE, coverage |-> FALSE],
     head |-> [gone |-> {}, touched |-> {}],
     offered |-> {},                    \* rows of the minted ids
     dead |-> {},                       \* covered files gone from the tree
     shown |-> {},                      \* coverage rows rendered
     round |-> 1,
     fixed |-> {}, rejected |-> {},     \* rows with such a verdict (and a
                                        \* reason, for `rejected')
     todo |-> {},                       \* rows with a transition to send
     publish |-> << >>, at |-> 1,       \* published findings, the next one
     examined |-> << >>,
     still |-> [c \in Claims |-> 0],    \* still_open; 0 is absent
     cand |-> [c \in Claims |-> 0],     \* candidates; 0 is absent
     fresh |-> << >>,
     touch |-> {}]

\* A branch that is over leaves nothing of its memory behind.
Finished == [Idle EXCEPT !.pc = "done"]
Crashed == [Idle EXCEPT !.pc = "crashed"]

Init ==
    /\ findings = << >>
    /\ coverage = << >>
    /\ now = 1
    /\ horizon = 0
    /\ run = [r \in Runs |-> Idle]
    /\ down = [p \in Jobs |-> FALSE]
    /\ faults = 0

-----------------------------------------------------------------------------
(* One store call.  Outcome(r, o) is how the client ends it: a transport    *)
(* error latches the process down for good, a bad status or body does not;  *)
(* once down, calls take the local branch, a no-op without a database URL.  *)

Applied(o) == o \in {"ok", "lost"}
Answered(o) == o = "ok"

Unreachable(r) == down[JobOf(r)] /\ ~LocalStore

Outcome(r, o) ==
    \/ /\ o = "ok"
       /\ ~Unreachable(r)
       /\ UNCHANGED <<down, faults>>
    \/ /\ o = "failed"
       /\ Unreachable(r)
       /\ UNCHANGED <<down, faults>>
    \/ /\ o \in {"lost", "failed"}
       /\ ~Unreachable(r)
       /\ faults < MaxFaults
       /\ faults' = faults + 1
       /\ \E latch \in BOOLEAN :
             down' = [down EXCEPT ![JobOf(r)] = down[JobOf(r)] \/ latch]

Outcomes == {"ok", "lost", "failed"}

\* A batch with nothing in it is answered without any I/O.
BatchOutcome(r, empty, o) ==
    \/ /\ empty
       /\ o = "ok"
       /\ UNCHANGED <<down, faults>>
    \/ ~empty /\ Outcome(r, o)

\* The clock ticks with every write that changes a row.
WriteFindings(o, t) ==
    /\ findings' = IF Applied(o) THEN t ELSE findings
    /\ now' = IF findings' = findings THEN now ELSE now + 1
    /\ UNCHANGED <<coverage, horizon>>

WriteCoverage(o, c) ==
    /\ coverage' = IF Applied(o) THEN c ELSE coverage
    /\ now' = IF coverage' = coverage THEN now ELSE now + 1
    /\ UNCHANGED <<findings, horizon>>

ReadOnly == UNCHANGED <<findings, coverage, now, horizon>>

\* A step that makes no call leaves the store and the client alone.
Internal == ReadOnly /\ UNCHANGED <<down, faults>>

Become(r, s) == run' = [run EXCEPT ![r] = s]

-----------------------------------------------------------------------------
(* carry_in *)

\* The checkout is made and the branch enters carry_in.  The CI concurrency
\* group keeps jobs of one pull request apart; a second `fuko review' run by
\* hand does not go through it.
Start(r) ==
    /\ run[r].pc = "idle"
    /\ Overlap \/ \A q \in Runs : JobOf(q) = JobOf(r)
                                    \/ run[q].pc \in Terminal \cup {"idle"}
    /\ \E m \in Modes, h \in Heads :
          Become(r, [run[r] EXCEPT !.pc = "expire", !.mode = m, !.head = h])
    /\ Internal

\* Always first, whatever the tiers: the delta kills the coverage it touches.
ExpireTouched(r, o) ==
    /\ run[r].pc = "expire"
    /\ BatchOutcome(r, run[r].head.touched = {}, o)
    /\ WriteCoverage(o, expire_coverage(coverage, SeatOf(r), run[r].head.touched))
    /\ Become(r, [run[r] EXCEPT !.pc = IF run[r].mode.findings THEN "open" ELSE "cover"])

\* open_findings, and the split _retire_missing makes of its rows.
ReadOpen(r, o) ==
    LET read == IF Answered(o)
                THEN open_findings(findings, SeatOf(r), horizon, MAX_OPEN_FINDINGS)
                ELSE {}
        gone == {i \in read : FileOf[findings[i].claim] \in run[r].head.gone}
    IN  /\ run[r].pc = "open"
        /\ Outcome(r, o)
        /\ Become(r, [run[r] EXCEPT
                        !.pc = IF gone = {} THEN "cover" ELSE "retire",
                        !.offered = read \ gone,
                        !.todo = gone])
        /\ ReadOnly

\* The one closure fuko makes on its own authority.  The answer is ignored:
\* the row is out of this round whatever the store said.
RetireMissing(r, o) ==
    /\ run[r].pc = "retire"
    /\ Outcome(r, o)
    /\ \E i \in run[r].todo :
          /\ WriteFindings(o, transition(findings, SeatOf(r), i, "stale", now))
          /\ Become(r, [run[r] EXCEPT
                          !.todo = run[r].todo \ {i},
                          !.pc = IF run[r].todo = {i} THEN "cover" ELSE "retire"])

\* render_prior_state keeps the newest entries of the coverage it is given.
Rendered(rows) ==
    {i \in rows : Cardinality({j \in rows : Older(coverage, i, j)}) < MAX_PRIOR_COVERAGE}

\* _carried_coverage: drop hollow entries, then the files the head lacks.
ReadCoverage(r, o) ==
    LET read == IF Answered(o)
                THEN live_coverage(coverage, SeatOf(r), horizon, MAX_LIVE_COVERAGE)
                ELSE {}
        kept == {i \in read : ~coverage[i].hollow}
        dead == {coverage[i].file : i \in kept} \cap run[r].head.gone
    IN  /\ run[r].pc = "cover"
        /\ run[r].mode.coverage
        /\ Outcome(r, o)
        /\ Become(r, [run[r] EXCEPT
                        !.pc = IF dead = {} THEN "round" ELSE "dead",
                        !.dead = dead,
                        !.shown = Rendered({i \in kept : coverage[i].file \notin dead})])
        /\ ReadOnly

\* Coverage of a file the head does not carry dies in the store as well.
ExpireDead(r, o) ==
    /\ run[r].pc = "dead"
    /\ Outcome(r, o)
    /\ WriteCoverage(o, expire_coverage(coverage, SeatOf(r), run[r].dead))
    /\ Become(r, [run[r] EXCEPT !.pc = "round"])

\* The label this round records under; 1 when the read degrades.
ReadRound(r, o) ==
    /\ \/ run[r].pc = "round"
       \/ run[r].pc = "cover" /\ ~run[r].mode.coverage
    /\ Outcome(r, o)
    /\ Become(r, [run[r] EXCEPT
                    !.pc = "review",
                    !.round = IF Answered(o) THEN next_round(findings, coverage, SeatOf(r))
                                             ELSE 1])
    /\ ReadOnly

-----------------------------------------------------------------------------
(* The review, and settle *)

\* Definitions marked `mutant' are plausible bugs, used only to show that the
\* property PROJECT.json pairs them with notices them.

\* A `rejected' closes only with a reason; without one it is a re-assertion.
ClosesWithoutReason(v) == v \in {"fixed", "rejected", "rejected_bare"}     \* mutant

Closes(v) == v \in {"fixed", "rejected"}
Reasserts(v) == v \in {"still_open", "rejected_bare"}

\* Of the rows of one claim the comprehension keeps the later; 0 is none.
LatestOf(rows) ==
    IF rows = {} THEN 0
    ELSE CHOOSE i \in rows : \A j \in rows : j = i \/ Older(findings, j, i)

\* The rows this round leaves open, by claim.
StillOpenAll(r, closing) ==                                             \* mutant
    [c \in Claims |-> LatestOf({i \in run[r].offered : findings[i].claim = c})]

StillOpen(r, closing) ==
    [c \in Claims |-> LatestOf({i \in run[r].offered \ closing : findings[i].claim = c})]

\* The agent answers: verdicts on the rows it was offered, the findings it
\* publishes, the regions it examined.
Review(r) ==
    /\ run[r].pc = "review"
    /\ \E said \in [run[r].offered -> Verdicts],
          publish \in Publications, examined \in Examinations :
          LET closing == {i \in run[r].offered : Closes(said[i])}
          IN  Become(r, [run[r] EXCEPT
                !.fixed = {i \in run[r].offered : said[i] = "fixed"},
                !.rejected = {i \in run[r].offered : said[i] = "rejected"},
                !.todo = closing,
                !.touch = {i \in run[r].offered : Reasserts(said[i])},
                !.still = StillOpen(r, closing),
                !.publish = publish,
                !.examined = examined,
                !.pc = IF ~run[r].mode.findings THEN "coverage"
                       ELSE IF closing # {} THEN "verdicts"
                       ELSE IF publish # << >> THEN "settled"
                       ELSE "touch"])
    /\ Internal

\* The agent times out, is throttled, or its answer does not parse: invoke
\* returns without settling anything.
ReviewFails(r) ==
    /\ run[r].pc = "review"
    /\ Become(r, Crashed)
    /\ Internal

\* One closing verdict.
ApplyVerdict(r, o) ==
    /\ run[r].pc = "verdicts"
    /\ Outcome(r, o)
    /\ \E i \in run[r].todo :
          /\ WriteFindings(o, transition(findings, SeatOf(r), i,
                                 IF i \in run[r].fixed THEN "fixed" ELSE "rejected", now))
          /\ Become(r, [run[r] EXCEPT
                          !.todo = run[r].todo \ {i},
                          !.pc = IF run[r].todo # {i} THEN "verdicts"
                                 ELSE IF run[r].publish # << >> THEN "settled"
                                 ELSE "touch"])

\* The most recently closed row of one claim; 0 is none.
LastClosedOf(rows) ==
    IF rows = {} THEN 0
    ELSE CHOOSE i \in rows : \A j \in rows : j = i \/ SettledLater(findings, i, j)

\* _reopen_candidates, read after the verdicts.
ReadSettled(r, o) ==
    LET read == IF Answered(o)
                THEN settled_findings(findings, SeatOf(r), horizon, MAX_SETTLED_FINDINGS)
                ELSE {}
    IN  /\ run[r].pc = "settled"
        /\ Outcome(r, o)
        /\ Become(r, [run[r] EXCEPT
                        !.pc = "match",
                        !.cand = [c \in Claims |->
                            LastClosedOf({i \in read : findings[i].claim = c})]])
        /\ ReadOnly

Claim(r) == run[r].publish[run[r].at]

InFreshNever(r, c) == FALSE                                             \* mutant

InFresh(r, c) == \E k \in DOMAIN run[r].fresh : run[r].fresh[k] = c

\* Where the loop over the published findings goes after the current one.
NextMatchLate(r) ==                                                     \* mutant
    IF run[r].at > Len(run[r].publish) THEN "touch" ELSE "match"

NextMatch(r) == IF run[r].at = Len(run[r].publish) THEN "touch" ELSE "match"

\* The published finding repeats a row this round leaves open.
DedupeCarried(r) ==
    /\ run[r].pc = "match"
    /\ run[r].still[Claim(r)] # 0
    /\ Become(r, [run[r] EXCEPT
                    !.pc = NextMatch(r), !.at = run[r].at + 1,
                    !.touch = run[r].touch \cup {run[r].still[Claim(r)]}])
    /\ Internal

\* The published finding repeats one this round is about to record.
DedupeTwin(r) ==
    /\ run[r].pc = "match"
    /\ run[r].still[Claim(r)] = 0
    /\ InFresh(r, Claim(r))
    /\ Become(r, [run[r] EXCEPT !.pc = NextMatch(r), !.at = run[r].at + 1])
    /\ Internal

Unmatched(r) ==
    /\ run[r].pc = "match"
    /\ run[r].still[Claim(r)] = 0
    /\ ~InFresh(r, Claim(r))

\* The store said a row changed.
RaisedUnseen(r, o, i) == TRUE                                           \* mutant

Raised(r, o, i) == Answered(o) /\ Matches(findings, SeatOf(r), i, REOPENABLE_STATUSES)

\* A closed row has the claim: re-raise it, and treat the finding as fresh
\* unless that is known to have worked.
Reraise(r, o) ==
    LET c == Claim(r)
        i == run[r].cand[c]
        reopened == Raised(r, o, i)
    IN  /\ Unmatched(r)
        /\ i # 0
        /\ Outcome(r, o)
        /\ WriteFindings(o, reopen(findings, SeatOf(r), i, now))
        /\ Become(r, [run[r] EXCEPT
                        !.pc = NextMatch(r), !.at = run[r].at + 1,
                        !.cand = [run[r].cand EXCEPT ![c] = 0],
                        !.still = IF reopened THEN [run[r].still EXCEPT ![c] = i]
                                  ELSE run[r].still,
                        !.fresh = IF reopened THEN run[r].fresh
                                  ELSE Append(run[r].fresh, c)])

\* Nobody has the claim.
MatchFresh(r) ==
    /\ Unmatched(r)
    /\ run[r].cand[Claim(r)] = 0
    /\ Become(r, [run[r] EXCEPT
                    !.pc = NextMatch(r), !.at = run[r].at + 1,
                    !.fresh = Append(run[r].fresh, Claim(r))])
    /\ Internal

Touch(r, o) ==
    /\ run[r].pc = "touch"
    /\ BatchOutcome(r, run[r].touch = {}, o)
    /\ WriteFindings(o, touch_findings(findings, SeatOf(r), run[r].touch, now))
    /\ Become(r, [run[r] EXCEPT !.pc = "record"])

\* The caller sees a count, 0 when the write degraded; "unrecorded" is the
\* round whose write did not take effect.
RecordFindings(r, o) ==
    /\ run[r].pc = "record"
    /\ BatchOutcome(r, run[r].fresh = << >>, o)
    /\ WriteFindings(o, record_findings(findings, SeatOf(r), run[r].round, JobOf(r),
                                        run[r].fresh, now))
    /\ Become(r, [run[r] EXCEPT !.pc = IF Applied(o) THEN "coverage" ELSE "unrecorded"])

AfterRecordAnswered(r) == run[r].pc = "coverage"                        \* mutant

AfterRecord(r) == run[r].pc \in {"coverage", "unrecorded"}

RecordCoverage(r, o) ==
    /\ AfterRecord(r)
    /\ run[r].mode.coverage
    /\ BatchOutcome(r, run[r].examined = << >>, o)
    /\ WriteCoverage(o, record_coverage(coverage, SeatOf(r), run[r].round, JobOf(r),
                                        run[r].examined, now))
    /\ Become(r, Finished)

SkipCoverage(r) ==
    /\ AfterRecord(r)
    /\ ~run[r].mode.coverage
    /\ Become(r, Finished)
    /\ Internal

-----------------------------------------------------------------------------
(* The environment *)

\* A newer push, the job's own time limit or an operator kills the process:
\* every branch of it stops where it is.
Cancel(p) ==
    /\ \E s \in Seats : run[<<p, s>>].pc \notin Terminal \cup {"idle"}
    /\ run' = [r \in Runs |-> IF JobOf(r) = p /\ run[r].pc \notin Terminal
                              THEN Crashed ELSE run[r]]
    /\ Internal

\* RETENTION_DAYS pass over rows nobody refreshed.  A job is far shorter than
\* that, so this happens only while none runs.
Lapse ==
    /\ Lapses
    /\ \A r \in Runs : run[r].pc \in Terminal \cup {"idle"}
    /\ horizon + 1 < now
    /\ horizon' \in (horizon + 1)..(now - 1)
    /\ UNCHANGED <<findings, coverage, now, run, down, faults>>

Call(r, o) ==
    \/ ExpireTouched(r, o) \/ ReadOpen(r, o) \/ RetireMissing(r, o)
    \/ ReadCoverage(r, o) \/ ExpireDead(r, o) \/ ReadRound(r, o)
    \/ ApplyVerdict(r, o) \/ ReadSettled(r, o) \/ Reraise(r, o)
    \/ Touch(r, o) \/ RecordFindings(r, o) \/ RecordCoverage(r, o)

Step(r) ==
    \/ Start(r) \/ Review(r) \/ ReviewFails(r)
    \/ DedupeCarried(r) \/ DedupeTwin(r) \/ MatchFresh(r) \/ SkipCoverage(r)
    \/ \E o \in Outcomes : Call(r, o)

Next ==
    \/ \E r \in Runs : Step(r)
    \/ \E p \in Jobs : Cancel(p)
    \/ Lapse

Spec == Init /\ [][Next]_vars

\* Threads and processes are scheduled, the agent run has a time limit, and
\* every store call has one (TIMEOUT_S): a branch that has started goes on.
FairSpec == Spec /\ \A r \in Runs : WF_vars(run[r].pc # "idle" /\ Step(r))

-----------------------------------------------------------------------------
(* Properties *)

Pcs == {"idle", "expire", "open", "retire", "cover", "dead", "round", "review",
        "verdicts", "settled", "match", "touch", "record", "coverage",
        "unrecorded"} \cup Terminal

Finding == [seat : Seats, round : Nat, head : Jobs, claim : Claims,
            status : FINDING_STATUSES, reopened : Nat, updated : Nat]
Coverage == [seat : Seats, round : Nat, head : Jobs, file : Files, hollow : BOOLEAN,
             expired : BOOLEAN, created : Nat]

RunState ==
    [pc : Pcs,
     mode : [findings : BOOLEAN, coverage : BOOLEAN],
     head : [gone : SUBSET Files, touched : SUBSET Files],
     offered : SUBSET Nat, dead : SUBSET Files, shown : SUBSET Nat,
     round : Nat, fixed : SUBSET Nat, rejected : SUBSET Nat, todo : SUBSET Nat,
     publish : Seq(Claims), at : Nat, examined : Seq(Regions),
     still : [Claims -> Nat], cand : [Claims -> Nat],
     fresh : Seq(Claims), touch : SUBSET Nat]

\* Every id a branch holds addresses a row of the store, and its cursor, at 1
\* until the matching loop, a finding it published.
Refs(s) ==
    /\ s.offered \subseteq DOMAIN findings
    /\ s.todo \subseteq DOMAIN findings
    /\ s.touch \subseteq DOMAIN findings
    /\ s.shown \subseteq DOMAIN coverage
    /\ \A c \in Claims : /\ s.still[c] \in DOMAIN findings \cup {0}
                         /\ s.cand[c] \in DOMAIN findings \cup {0}
    /\ s.at >= 1
    /\ s.at <= Len(s.publish) + 1
    /\ s.pc \notin {"match", "touch", "record", "coverage", "unrecorded"} => s.at = 1
    /\ s.pc \in {"settled", "match"} => s.at <= Len(s.publish)

\* Both tables are well formed, and every branch's memory refers to rows that
\* exist.
TypeOK ==
    /\ findings \in Seq(Finding)
    /\ coverage \in Seq(Coverage)
    /\ now \in Nat
    /\ horizon \in Nat
    /\ run \in [Runs -> RunState]
    /\ \A r \in Runs : Refs(run[r])
    /\ down \in [Jobs -> BOOLEAN]
    /\ faults \in 0..MaxFaults

\* settle: a claim a round published is on an open row within retention, which
\* a later round reads, once the round's write of its findings took effect -- whatever
\* else of the round's calls degraded, and whether the claim was deduplicated
\* onto a carried row, re-raised from a closure or recorded fresh.
PublishedClaimSurvives ==
    \A r \in Runs :
        run[r].pc = "coverage" /\ run[r].mode.findings =>
            \A k \in DOMAIN run[r].publish :
                \E i \in OpenRows(findings, SeatOf(r), horizon) :
                    findings[i].claim = run[r].publish[k]

\* settle's matching loop: a carried row the round believes it left open is
\* open, so that a finding de-duplicated onto it is on the record.
DedupesOntoOpenRows ==
    \A r \in Runs :
        run[r].pc = "match" /\ run[r].still[Claim(r)] # 0 =>
            /\ findings[run[r].still[Claim(r)]].status = "open"
            /\ findings[run[r].still[Claim(r)]].claim = Claim(r)

\* settle's de-duplication: a seat never holds two open rows for one claim
\* among the rows a round can be offered, so settling one settles the claim.
OneOpenRowPerClaim ==
    \A s \in Seats :
        \A i, j \in OpenRows(findings, s, horizon) :
            findings[i].claim = findings[j].claim => i = j

\* next_round: no two rounds of a seat share a label in either table or across
\* them, and of the rounds that wrote to one table the later has the greater
\* label -- after rounds that crashed, rounds whose rows were all settled and
\* streaks of rounds that wrote only coverage.
InRounds(table) ==
    \A i, j \in DOMAIN table :
        table[i].seat = table[j].seat /\ i < j =>
           \/ table[i].head = table[j].head /\ table[i].round = table[j].round
           \/ table[i].head # table[j].head /\ table[i].round < table[j].round

RoundLabelsDistinct ==
    /\ InRounds(findings)
    /\ InRounds(coverage)
    /\ \A i \in DOMAIN findings, j \in DOMAIN coverage :
          findings[i].seat = coverage[j].seat =>
             (findings[i].round = coverage[j].round <=> findings[i].head = coverage[j].head)

\* carry_in: coverage of a file this round's delta touched, or that the head
\* no longer carries, is not rendered into the round's prompt, and neither is
\* an entry with a blank field.
NoStaleAssurance ==
    \A r \in Runs : \A i \in run[r].shown :
        /\ coverage[i].file \notin run[r].head.touched \cup run[r].head.gone
        /\ ~coverage[i].hollow

\* The row's lifecycle.  A row is closed only by a round of its own seat that
\* was offered it and said `fixed', or `rejected' with a reason, of it, or by
\* a round whose tree lacks the file; it comes back only when a round of its
\* seat publishes the claim, is counted as re-raised then, and never comes
\* back from `stale'; it keeps its claim, its seat and its round.
LawfulChange(i) ==
    LET old == findings[i]
        new == findings'[i]
    IN  /\ new.claim = old.claim /\ new.seat = old.seat /\ new.round = old.round
        /\ old.status = "open" /\ new.status # "open" =>
              \E r \in Runs :
                 /\ SeatOf(r) = old.seat
                 /\ \/ new.status = "stale" /\ FileOf[old.claim] \in run[r].head.gone
                    \/ new.status = "fixed" /\ i \in run[r].offered \cap run[r].fixed
                    \/ new.status = "rejected" /\ i \in run[r].offered \cap run[r].rejected
        /\ old.status # "open" /\ new.status # old.status =>
              /\ old.status # "stale" /\ new.status = "open"
              /\ new.reopened = old.reopened + 1
              /\ \E r \in Runs :
                    SeatOf(r) = old.seat /\ run[r].pc = "match" /\ Claim(r) = old.claim
        /\ new.status = old.status => new.reopened = old.reopened

LawfulStatusChange ==
    [][ /\ DOMAIN findings \subseteq DOMAIN findings'
        /\ \A i \in DOMAIN findings : LawfulChange(i) ]_vars

\* Both ledgers are per seat: while no branch of a seat takes a step, no row
\* of that seat changes and none appears, whatever the other seats do.
SeatFindings(t, s) == {<<i, t[i]>> : i \in {k \in DOMAIN t : t[k].seat = s}}

LaneIsolation ==
    [][ \A s \in Seats :
          (\A r \in Runs : SeatOf(r) = s => run'[r] = run[r]) =>
             /\ SeatFindings(findings', s) = SeatFindings(findings, s)
             /\ SeatFindings(coverage', s) = SeatFindings(coverage, s) ]_vars

\* A branch that has started its round ends it, whatever the store does.
RoundsEnd ==
    \A r \in Runs : run[r].pc # "idle" ~> run[r].pc \in Terminal
=============================================================================

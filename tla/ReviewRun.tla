----------------------------- MODULE ReviewRun ------------------------------
(***************************************************************************)
(* One review job: review() of sidecar/runner.py with the failover order   *)
(* of sidecar/pool.py and the clients of the shared circuit breaker, the   *)
(* run metrics and the reviewer health.                                    *)
(*                                                                         *)
(* The job reads the shared state once, promotes backups when the external *)
(* reviewers were degraded in an earlier round, and then runs one branch   *)
(* per reviewer: concurrently when every branch has a GitHub identity of   *)
(* its own, else one after the other under the job's token.  A branch      *)
(* posts a header with a receipt, tries the providers of its pool until    *)
(* one answers, and rewrites the receipt.  Metrics, breaker and health     *)
(* calls are best effort: they may be lost without the job noticing.       *)
(*                                                                         *)
(* What a provider posts while it reviews is ReviewPost's subject; here a  *)
(* leg of the failover chain answers, fails, throttles or raises.          *)
(***************************************************************************)
EXTENDS Naturals, Sequences, FiniteSets

CONSTANTS
    Labels,         \* provider/name of a configured model
    Providers,
    Drivers,
    Envs,           \* values of token_env
    NoEnv,          \* the entry has no token_env
    TokenOf,        \* the environment: Envs to tokens, NoToken when unset
    NoToken,
    SlotOf,         \* _slot_of: <<token_env, prefix off, in lower case>>,
                    \* or <<>> when it has another form
    AuthorOf,       \* the account that what a token posts appears under
    AppTokens,      \* installation tokens, which GET /user refuses
    Fleets,         \* the [review] sections considered
    NoBudget,
    MaxFaults       \* bound on lost calls and raised exceptions

Tokens == {TokenOf[v] : v \in Envs} \ {NoToken}

\* One entry of [[review.models]], its backend resolved against the default.
\* fits: the job was sized and max_context holds it, or there is nothing to
\* compare; minutes: tool_timeout of one tool;
\* ledger: findings_ledger and coverage_ledger.
Entry == [label : Labels, provider : Providers, driver : Drivers,
          env : Envs \cup {NoEnv}, role : {"active", "backup", "trial"},
          fits : BOOLEAN, minutes : Nat, ledger : BOOLEAN]

ASSUME RunConstants ==
    /\ MaxFaults \in Nat
    /\ NoEnv \notin Envs
    /\ DOMAIN TokenOf = Envs
    /\ DOMAIN SlotOf = Envs
    /\ \A v \in Envs : SlotOf[v] = <<>> \/ SlotOf[v] = <<SlotOf[v][1]>>
    /\ Tokens \subseteq DOMAIN AuthorOf
    /\ \A f \in Fleets :
        /\ f.models \in Seq(Entry)
        /\ \E i \in DOMAIN f.models : f.models[i].role = "active"
        /\ f.tools \subseteq {"describe", "review", "improve"}
        /\ f.budget \in Nat \cup {NoBudget}

VARIABLES
    fleet,          \* the [review] section this job runs
    phase,          \* where review() is
    cooled,         \* providers in cooldown when the job looked
    concurrent,     \* what the escalation found of the configured fleet
    promoted,       \* entries promoted for this round
    reviewers,      \* entries that start a branch
    spares,         \* backups left as shared failover targets
    mode,           \* how the branches run
    br,             \* the branches
    tripped,        \* providers whose breaker this job opened
    verdict,        \* the job's return code
    observed,       \* this round's reviewer states were stored
    faults          \* calls lost and exceptions raised in the branches

vars == <<fleet, phase, cooled, concurrent, promoted,
          reviewers, spares, mode, br, tripped, verdict, observed,
          faults>>

plan == <<concurrent, promoted, reviewers, spares>>
inputs == <<fleet, cooled>>
outcome == <<verdict, observed>>

-----------------------------------------------------------------------------
(* Selecting, planning and ordering: functions of the configuration.       *)

\* The entries of s at the places P, in its order.
UpTo(P, i) == Cardinality({j \in P : j <= i})
Picked(s, P) == [n \in 1..Cardinality(P) |-> s[CHOOSE i \in P : UpTo(P, i) = n]]

\* partition_roles: the entries of one role, in config order.
OfRole(models, r) == Picked(models, {i \in DOMAIN models : models[i].role = r})

DriversOf(s) == {s[i].driver : i \in DOMAIN s}
LabelsOf(s) == {s[i].label : i \in DOMAIN s}

HasIdentity(e) == e.env # NoEnv /\ TokenOf[e.env] # NoToken

\* _resolve_actor: the account, but for an installation token a stand-in
\* made of the token itself.
ActorOf(t) == IF t \in AppTokens THEN <<"bot", t>> ELSE <<"user", AuthorOf[t]>>

\* _resolve_branch_identities while GET /user fails for the tokens in down.
Resolves(s, down) ==
    /\ \A i \in DOMAIN s : HasIdentity(s[i]) /\ TokenOf[s[i].env] \notin down
    /\ \A i, j \in DOMAIN s :
        i # j => ActorOf(TokenOf[s[i].env]) # ActorOf(TokenOf[s[j].env])

\* fleet_sequential_cost_minutes.
Minutes(s) ==
    LET sum[n \in 0..Len(s)] == IF n = 0 THEN 0 ELSE sum[n - 1] + s[n].minutes
    IN  sum[Len(s)]

Cost(s, tools) == (IF tools = {} THEN 1 ELSE Cardinality(tools)) * Minutes(s)

PromotableAlone(existing, chosen, e, conc) ==                            \* mutant
    /\ conc => HasIdentity(e)
    /\ DriversOf(existing) = {e.driver}
    /\ fleet.budget # NoBudget =>
        Cost(existing \o <<e>>, fleet.tools) <= fleet.budget

\* plan_escalation: whether the backup e joins what is promoted already.
Promotable(existing, chosen, e, conc) ==
    LET round == IF existing # <<>> THEN DriversOf(existing) ELSE DriversOf(chosen)
    IN  /\ conc => HasIdentity(e)
        /\ round # {} => round = {e.driver}
        /\ fleet.budget # NoBudget =>
            Cost(existing \o chosen \o <<e>>, fleet.tools) <= fleet.budget

\* The backups at the places P, as the round runs them.
Promoted(backups, P) ==
    [n \in 1..Cardinality(P) |-> [Picked(backups, P)[n] EXCEPT !.role = "active"]]

\* P: in config order, each backup that may join those before it.
PlanEscalation(existing, backups, conc, P) ==
    \A i \in DOMAIN backups :
        i \in P <=>
            Promotable(existing, Promoted(backups, {j \in P : j < i}), backups[i], conc)

\* _branch_seats: a branch's slot where no sibling has the same, else its
\* label, with its index appended while the name is taken.
BranchSeats(s) ==
    LET Slot(i) == IF s[i].env = NoEnv THEN <<>> ELSE SlotOf[s[i].env]
        Alone(i) == Slot(i) # <<>> /\ \A j \in DOMAIN s \ {i} : Slot(j) # Slot(i)
        Name(i, k) == (IF Alone(i) THEN Slot(i) ELSE <<s[i].label>>)
                        \o [n \in 1..k |-> i - 1]
        seat[i \in DOMAIN s] ==
            LET taken == {seat[j] : j \in 1..(i - 1)}
            IN  Name(i, CHOOSE k \in 0..(i - 1) :
                            /\ Name(i, k) \notin taken
                            /\ \A m \in 0..(k - 1) : Name(i, m) \in taken)
    IN  seat

\* The pool of the branch that entry starts: it, then the spares of its driver.
Pool(entry) ==
    <<entry>> \o Picked(spares, {i \in DOMAIN spares : spares[i].driver = entry.driver})

Cooling(e) == e.provider \in cooled

OrderOfConfig(pool) == pool                                              \* mutant

\* order_pool: by fit, then by cooldown, config order within a rank.
Order(pool) ==
    LET Rank(fit, cool) ==
            Picked(pool, {i \in DOMAIN pool :
                            pool[i].fits = fit /\ Cooling(pool[i]) = cool})
    IN  Rank(TRUE, FALSE) \o Rank(TRUE, TRUE)
            \o Rank(FALSE, FALSE) \o Rank(FALSE, TRUE)

LedgerOfEntry(b, e) == e.ledger                                          \* mutant

\* _with_branch_ledger: a leg runs under the flags of the branch's entry.
LedgerOf(b, e) == reviewers[b].ledger

-----------------------------------------------------------------------------
(* Branches.                                                               *)

NoRow == [outcome |-> "none"]
NoReceipt == [state |-> "none"]

\* legs: its pool in the order of trial; at: the leg; rc: what it came to;
\* header: whether the comment's id is known;
\* shipped and indexed: legs whose transcript is stored, and described;
\* lost: a best-effort record of it was lost; raised: a leg raised;
\* stranded: the rewrite of its receipt was lost.
NewBranch(start, legs) ==
    [pc |-> start, legs |-> legs, at |-> 1, rc |-> "none", header |-> "none",
     receipt |-> NoReceipt, row |-> NoRow, shipped |-> {}, indexed |-> {},
     lost |-> FALSE, raised |-> FALSE, stranded |-> FALSE]

Branches == DOMAIN br
Leg(b) == br[b].legs[br[b].at]

\* What leg i of branch b runs as.  A solo run has its slot or the default.
RunsAs(b, i) ==
    [seat |-> IF mode # "solo" THEN BranchSeats(reviewers)[b]
              ELSE IF reviewers[b].env = NoEnv THEN <<>>
              ELSE SlotOf[reviewers[b].env],
     ledger |-> LedgerOf(b, br[b].legs[i]),
     driver |-> br[b].legs[i].driver]

\* Sequential branches start when those before them are over.
Turn(b) ==
    /\ phase = "branches"
    /\ mode = "sequential" => \A c \in Branches : c < b => br[c].pc = "over"

Init ==
    /\ fleet \in Fleets
    /\ phase = "read"
    /\ cooled = {}
    /\ concurrent = FALSE
    /\ promoted = <<>>
    /\ reviewers = <<>>
    /\ spares = <<>>
    /\ mode = "none"
    /\ br = <<>>
    /\ tripped = {}
    /\ verdict = "none"
    /\ observed = FALSE
    /\ faults = 0

\* _cb_cooldowns: other jobs may have tripped any provider, and a read that
\* fails is no cooldown.
ReadCooldowns ==
    /\ phase = "read"
    /\ cooled' \in SUBSET Providers
    /\ phase' = "plan"
    /\ UNCHANGED <<fleet, plan, mode, br, tripped, outcome, faults>>

Actives == OfRole(fleet.models, "active")
Trials == OfRole(fleet.models, "trial")
Backups == OfRole(fleet.models, "backup")

\* review(): no external reviewer was degraded, or _rh_states could not tell:
\* the fleet runs as configured.
Configured ==
    /\ phase = "plan"
    /\ concurrent' = FALSE
    /\ promoted' = <<>>
    /\ reviewers' = Actives \o Trials
    /\ spares' = Backups
    /\ phase' = "start"
    /\ UNCHANGED <<inputs, mode, br, tripped, outcome, faults>>

\* One was degraded when it was last observed: the backups plan_escalation
\* accepts start branches of their own.
Escalate ==
    /\ phase = "plan"
    /\ Backups # <<>>
    /\ \E down \in SUBSET Tokens, P \in SUBSET DOMAIN Backups :
        LET existing == Actives \o Trials
            conc == Len(existing) > 1 /\ Resolves(existing, down)
            chosen == Promoted(Backups, P)
        IN  /\ PlanEscalation(existing, Backups, conc, P)
            /\ concurrent' = conc
            /\ promoted' = chosen
            /\ reviewers' = Actives \o chosen \o Trials
            /\ spares' = Picked(Backups,
                            {i \in DOMAIN Backups : Backups[i].label \notin LabelsOf(chosen)})
    /\ phase' = "start"
    /\ UNCHANGED <<inputs, mode, br, tripped, outcome, faults>>

Begin(m, start) ==
    /\ mode' = m
    /\ br' = [b \in DOMAIN reviewers |->
                NewBranch(start, Order(Pool(reviewers[b])))]
    /\ phase' = "branches"
    /\ UNCHANGED <<inputs, plan, tripped, outcome, faults>>

\* One reviewer: no header and no receipt.
StartSolo ==
    /\ phase = "start"
    /\ Len(reviewers) = 1
    /\ Begin("solo", "attempt")

\* _review_compare, when describe is not the only tool.
StartCompare ==
    /\ phase = "start"
    /\ Len(reviewers) > 1
    /\ fleet.tools \ {"describe"} # {}
    /\ \E down \in SUBSET Tokens :
        Begin(IF Resolves(reviewers, down) THEN "concurrent" ELSE "sequential",
              "header")

NothingToRun ==
    /\ phase = "start"
    /\ Len(reviewers) > 1
    /\ fleet.tools \ {"describe"} = {}
    /\ verdict' = "failed"
    /\ phase' = "observe"
    /\ UNCHANGED <<inputs, plan, mode, br, tripped, observed, faults>>

\* n more things go wrong.
Fault(n) ==
    /\ faults' = faults + n
    /\ n > 0 => faults' <= MaxFaults

\* A branch moves; nothing else of the job does.
Move(b, x) ==
    /\ br' = [br EXCEPT ![b] = x]
    /\ UNCHANGED <<inputs, phase, plan, mode, tripped, outcome>>

\* _post_branch_header: posted; posted, but the answer lost; or not posted.
PostHeader(b) ==
    /\ Turn(b)
    /\ br[b].pc = "header"
    /\ \E h \in {"none", "unknown", "known"} :
        /\ Fault(IF h = "known" THEN 0 ELSE 1)
        /\ Move(b, [br[b] EXCEPT
                        !.pc = "attempt",
                        !.header = h,
                        !.receipt = IF h = "none" THEN NoReceipt
                                    ELSE [state |-> "in_progress"]])

\* A transcript is captured by the agentic driver, and may fail to ship.
Ships(b) ==
    IF Leg(b).driver = "agentic" THEN {{}, {br[b].at}} ELSE {{}}

AnsweredOrNext(b) ==                                                     \* mutant
    /\ Turn(b)
    /\ br[b].pc = "attempt"
    /\ Fault(0)
    /\ \E rc \in {"ok", "failed"} :
        Move(b, [br[b] EXCEPT !.pc = IF rc = "ok" THEN "record" ELSE "abandon",
                              !.rc = rc])

\* backend.invoke answers, with success or with an error: no failover.
Answered(b) ==
    /\ Turn(b)
    /\ br[b].pc = "attempt"
    /\ Fault(0)
    /\ \E rc \in {"ok", "failed"}, new \in Ships(b) :
        Move(b, [br[b] EXCEPT !.pc = "record", !.rc = rc,
                              !.shipped = br[b].shipped \cup new])

\* It throttles: 429, quota, overload or timeout.
Throttled(b) ==
    /\ Turn(b)
    /\ br[b].pc = "attempt"
    /\ Fault(0)
    /\ \E new \in Ships(b) :
        Move(b, [br[b] EXCEPT !.pc = "abandon", !.rc = "throttled",
                              !.shipped = br[b].shipped \cup new])

\* What a branch does next: the rest of _run_pool or of the comparison.
AfterPool == IF mode = "solo" THEN "over" ELSE "finalize"

\* The header post or a leg raises, when the comment or the transcript may be
\* stored already.  In a comparison that ends the branch; in a solo run it ends
\* the job.
Raises(b) ==
    /\ Turn(b)
    /\ mode # "solo"
    /\ Fault(1)
    /\ \/ /\ br[b].pc = "header"
          /\ \E r \in {NoReceipt, [state |-> "in_progress"]} :
                Move(b, [br[b] EXCEPT !.pc = "finalize", !.rc = "failed",
                                      !.raised = TRUE, !.receipt = r])
       \/ /\ br[b].pc = "attempt"
          /\ \E new \in Ships(b) :
                Move(b, [br[b] EXCEPT !.pc = "finalize", !.rc = "failed",
                                      !.raised = TRUE,
                                      !.shipped = br[b].shipped \cup new])

NextLegUnbilled(b) ==                                                    \* mutant
    IF br[b].at < Len(br[b].legs)
    THEN [br[b] EXCEPT !.pc = "attempt", !.at = br[b].at + 1]
    ELSE [br[b] EXCEPT !.pc = AfterPool]

NextLegForEver(b) ==                                                     \* mutant
    [br[b] EXCEPT !.pc = "attempt", !.at = (br[b].at % Len(br[b].legs)) + 1]

\* The legs a chain goes on to.
NextLeg(b) ==
    IF br[b].at < Len(br[b].legs)
    THEN [br[b] EXCEPT !.pc = "attempt", !.at = br[b].at + 1]
    ELSE [br[b] EXCEPT !.pc = "record"]

\* index_transcript: the leg's transcript, if it has one, is described.
Indexing(b) == br[b].indexed \cup (br[b].shipped \cap {br[b].at})

\* _record_transcript and _cb_trip of the throttled leg, then the next one.
Abandon(b) ==
    /\ Turn(b)
    /\ br[b].pc = "abandon"
    /\ \E index, trip \in BOOLEAN :
        /\ Fault(IF index /\ trip THEN 0 ELSE 1)
        /\ br' = [br EXCEPT ![b] =
                    [NextLeg(b) EXCEPT
                        !.indexed = IF index THEN Indexing(b) ELSE br[b].indexed,
                        !.lost = br[b].lost \/ ~index \/ ~trip]]
        /\ tripped' = IF trip THEN tripped \cup {Leg(b).provider} ELSE tripped
    /\ UNCHANGED <<inputs, phase, plan, mode, outcome>>

RowOfPrimary(b) ==                                                       \* mutant
    [outcome |-> IF br[b].rc = "throttled" THEN "throttled_out" ELSE br[b].rc,
     of |-> reviewers[b].label]

\* The one row of review_runs a chain gets, and who it is attributed to.
RowOf(b) ==
    [outcome |-> IF br[b].rc = "throttled" THEN "throttled_out" ELSE br[b].rc,
     of |-> Leg(b).label]

\* _normalize, which never raises, and _record_run, which also indexes.
Record(b) ==
    /\ Turn(b)
    /\ br[b].pc = "record"
    /\ \/ /\ Fault(0)
          /\ Move(b, [br[b] EXCEPT
                        !.pc = AfterPool,
                        !.row = RowOf(b),
                        !.indexed = Indexing(b)])
       \/ /\ Fault(1)
          /\ Move(b, [br[b] EXCEPT !.pc = AfterPool, !.lost = TRUE])

\* The receipt a header is rewritten with; a branch that raised is its own.
FinalReceipt(b) ==
    [state |-> IF br[b].rc = "ok" THEN "done" ELSE "failed",
     by |-> IF br[b].raised THEN reviewers[b].label ELSE Leg(b).label]

\* _finalize_branch_header: without the comment's id there is nothing to do.
Finalize(b) ==
    /\ Turn(b)
    /\ br[b].pc = "finalize"
    /\ \/ /\ br[b].header = "known"
          /\ Fault(0)
          /\ Move(b, [br[b] EXCEPT !.pc = "over", !.receipt = FinalReceipt(b)])
       \/ /\ br[b].header = "known"
          /\ Fault(1)
          /\ Move(b, [br[b] EXCEPT !.pc = "over", !.stranded = TRUE])
       \/ /\ br[b].header # "known"
          /\ Fault(0)
          /\ Move(b, [br[b] EXCEPT !.pc = "over"])

\* All branches are over: green when any of them posted a review.
Join ==
    /\ phase = "branches"
    /\ \A b \in Branches : br[b].pc = "over"
    /\ verdict' = IF \E b \in Branches : br[b].rc = "ok" THEN "ok" ELSE "failed"
    /\ phase' = "observe"
    /\ UNCHANGED <<inputs, plan, mode, br, tripped, observed, faults>>

\* _observe_reviewer_health, for the next round to escalate on.
Observe ==
    /\ phase = "observe"
    /\ observed' \in BOOLEAN
    /\ phase' = "over"
    /\ UNCHANGED <<inputs, plan, mode, br, tripped, verdict, faults>>

BranchStep(b) ==
    \/ PostHeader(b) \/ Answered(b) \/ Throttled(b) \/ Raises(b)
    \/ Abandon(b) \/ Record(b) \/ Finalize(b)

Next ==
    \/ ReadCooldowns \/ Configured \/ Escalate
    \/ StartSolo \/ StartCompare \/ NothingToRun
    \/ \E b \in Branches : BranchStep(b)
    \/ Join \/ Observe

\* A job that is cancelled, or ended by an exception nobody catches, takes no
\* further step: Spec allows it to stop anywhere.
Spec == Init /\ [][Next]_vars

\* Every call has a timeout, so a job that is left to run goes on.
FairSpec == Spec /\ WF_vars(Next)

-----------------------------------------------------------------------------
(* Properties *)

Tried(b) == IF br[b].pc = "header" THEN {} ELSE 1..br[b].at
Done(b) == br[b].pc \in {"finalize", "over"}

\* Variables have their types; the chain of a branch stays within its pool.
TypeOK ==
    /\ fleet \in Fleets
    /\ phase \in {"read", "plan", "start", "branches", "observe", "over"}
    /\ mode \in {"none", "solo", "concurrent", "sequential"}
    /\ {concurrent, observed} \subseteq BOOLEAN
    /\ cooled \cup tripped \subseteq Providers
    /\ faults \in 0..MaxFaults
    /\ verdict \in {"none", "ok", "failed"}
    /\ \A s \in {promoted, reviewers, spares} : s \in Seq(Entry)
    /\ \A b \in Branches :
        /\ br[b].pc \in {"header", "attempt", "abandon", "record",
                         "finalize", "over"}
        /\ br[b].at \in 1..Len(br[b].legs)
        /\ br[b].rc \in {"none", "ok", "failed", "throttled"}
        /\ br[b].header \in {"none", "unknown", "known"}
        /\ br[b].receipt.state \in {"none", "in_progress", "done", "failed"}
        /\ br[b].shipped \cup br[b].indexed \subseteq 1..br[b].at
        /\ {br[b].lost, br[b].raised, br[b].stranded} \subseteq BOOLEAN

\* _finalize_branch_header and _record_run: a receipt reads done only over an
\* answer, a header that could be rewritten is not left in progress, whatever
\* the branch died of, and the receipt and the metrics row of a branch name one
\* outcome and one entry.
ReceiptsTellTheTruth ==
    \A b \in Branches :
        LET x == br[b] IN
        /\ x.receipt.state = "done" => x.rc = "ok"
        /\ x.pc = "over" /\ x.header = "known" /\ ~x.stranded =>
            x.receipt.state \in {"done", "failed"}
        /\ x.receipt.state \in {"done", "failed"} /\ x.row # NoRow =>
            /\ x.receipt.by = x.row.of
            /\ (x.receipt.state = "done") = (x.row.outcome = "ok")

\* _branch_seats, _with_branch_ledger, _compatible_backups: legs that share a
\* seat are of one branch and run under one driver and one ledger
\* configuration, whoever answers and however token_env values collide.
OneLanePerSeat ==
    \A b, c \in Branches : \A i \in Tried(b), j \in Tried(c) :
        RunsAs(b, i).seat = RunsAs(c, j).seat =>
            b = c /\ RunsAs(b, i) = RunsAs(c, j)

\* _review_compare: branches that are at work at the same time post under
\* different accounts.
OneAuthorAtATime ==
    \A b, c \in Branches :
        /\ b # c
        /\ Turn(b) /\ br[b].pc # "over"
        /\ Turn(c) /\ br[c].pc # "over"
        => AuthorOf[TokenOf[reviewers[b].env]] # AuthorOf[TokenOf[reviewers[c].env]]

\* The branches of a job neither close each other's findings nor edit each
\* other's comments.
BranchesStayApart == OneLanePerSeat /\ OneAuthorAtATime

\* order_pool and _run_pool: an entry that is cooling or too small is tried
\* only when every other entry of the pool has throttled, and a chain is
\* called throttled out only when its whole pool was tried.
LastResortsLast ==
    \A b \in Branches :
        LET Legs(S) == {br[b].legs[i] : i \in S}
            Eligible == {e \in Legs(DOMAIN br[b].legs) : e.fits /\ ~Cooling(e)}
            Pooled == LET p == Pool(reviewers[b]) IN {p[i] : i \in DOMAIN p}
        IN  /\ \A i \in Tried(b) :
                br[b].legs[i] \notin Eligible => Eligible \subseteq Legs(1..(i - 1))
            /\ br[b].row # NoRow /\ br[b].row.outcome = "throttled_out" =>
                Legs(Tried(b)) = Pooled

\* _run_pool: unless a call was lost, an abandoned leg has tripped its
\* provider's breaker, a chain that did not raise is billed once it is over,
\* and every stored transcript of it is indexed.
ChainIsAccounted ==
    \A b \in Branches : ~br[b].lost =>
        /\ \A i \in 1..(br[b].at - 1) : br[b].legs[i].provider \in tripped
        /\ Done(b) /\ ~br[b].raised =>
            br[b].row # NoRow /\ br[b].indexed = br[b].shipped

\* plan_escalation: a round with promotions runs every configured reviewer,
\* under one driver, within the budget if there is one, no promoted entry is
\* still a failover target, and a fleet with identities gets none without.
EscalationKeepsTheFleet ==
    promoted # <<>> =>
        LET Of(s) == {s[i] : i \in DOMAIN s} IN
        /\ Of(Actives) \cup Of(Trials) \subseteq Of(reviewers)
        /\ Cardinality(DriversOf(reviewers)) = 1
        /\ fleet.budget # NoBudget => Cost(reviewers, fleet.tools) <= fleet.budget
        /\ LabelsOf(promoted) \cap LabelsOf(spares) = {}
        /\ concurrent => \A e \in Of(promoted) : HasIdentity(e)

\* _run_pool: the first answer, good or bad, is the branch's answer: nothing
\* is tried after it.  A receipt that is final stays as it is.
AnswerIsFinal ==
    [][\A b \in Branches :
        /\ br[b].rc \in {"ok", "failed"} =>
            br'[b].rc = br[b].rc /\ br'[b].at = br[b].at
        /\ br[b].receipt.state \in {"done", "failed"} =>
            br'[b].receipt = br[b].receipt]_vars

\* A job ends: a chain is as long as its pool, and branches do not wait for
\* one another but in their order.
JobEnds == <>(phase = "over")
=============================================================================

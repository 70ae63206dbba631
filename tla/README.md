# fuko-pr: a TLA+ verification development

fuko-pr reviews pull requests with language-model agents and keeps state across
the rounds of a review: per-seat ledgers of open findings and of examined files,
a knowledge base of learnings, circuit breakers for throttled providers, and
receipts on the pull request itself.  Its promises are about histories: a claim
is not lost between rounds, a file that changed is not vouched for, a store that
is down never blocks a review.  These modules state those promises over the code
of `sidecar/`, check them with TLC, and prove with TLAPS those that are not about liveness.

## The system

| Part | Code | State it keeps | Operations | What is hard |
|---|---|---|---|---|
| Review ledger | `sidecar/review_state.py`, `review_state_client.py`, `reviewer/ledger.py` | tables `review_findings` and `review_coverage`; per process, the transport latch | `carry_in` before a review, `settle` after it | a dozen store calls per round, each of which may be lost or answered wrongly; two seats as threads; jobs killed midway; retention |
| Agentic driver | `sidecar/backends/agentic.py`, `reviewer/prompt.py` | the stash of pending reviews | `invoke`, `normalize_output` | a POST that is not idempotent, retried under a deadline with a read-back |
| Agent harness, transcripts | `reviewer/harness.py`, `reviewer/transcript.py`, `transcript_client.py`, `transcripts.py` | the child and its pipes, the transcript being captured, its blob, its index row | drive, capture, close, ship, index, list | pipes that block both ends, lines cut inside a secret, write order of blob, index and reference |
| Run orchestration | `runner.py`, `pool.py`, `circuit_breaker.py`, `reviewer_health.py`, `run_metrics.py` | cooldown table, health table, metrics rows, receipts | `review`, `_run_pool`, `_run_compare_branch`, `plan_escalation` | failover, branches in threads, receipts finalized on every exit |
| Database access | `db.py` | the pool, the embedding-pass flag, the best-effort latch | `get_pool`, `db`, `db_best_effort` | three locks, a latch with generations, a pass that takes minutes |
| Knowledge base (Postgres) | `ingest.py`, `retrieve.py`, `stores.py`, `dedup.py` | table `learnings` | ingest, update, forget, query | concurrent ingest of the same text, re-embedding |
| Knowledge base (object storage) | `sqlite_store.py`, `objectstore.py` | one file in a bucket or on disk | the same | optimistic concurrency on the whole file |
| Status and signals | `status.py`, `signals.py`, `normalizers.py`, `threads.py`, `backends/pragent.py` | none; reads the pull request | verdict of a round | receipts of several heads and instances, summaries rewritten in place, four fetches at four moments |
| Service, viewer, command line | `main.py`, `web/`, `cli.py`, `kbcli.py`, `transcriptscli.py` | session secrets | HTTP handlers, forms | thin over the parts above |
| Configuration, checkout, reports | `fukoconfig.py`, `presets.py`, `reviewer/checkout.py`, `digest.py`, `abmetrics.py` | none | pure functions and file I/O | |

How they interact.  A CI job runs `fuko review`, which reads the cooldowns and
the health rows, plans the branches of the run and starts a thread per seat.
Each branch calls its backend; the agentic one calls `carry_in`, runs the agent
on a checkout, and calls `settle`.  Ledger, breaker, metrics and health calls go
to the sidecar over HTTP when `FUKO_URL` is set, or to Postgres directly, and
all of them answer with a neutral value when they fail.  The workflow's
concurrency group cancels an older job of the same pull request; a `fuko review`
started by hand is outside the group.

What makes each part correct, in one line: the ledger loses no published claim,
closes none without a verdict, and vouches for no changed file; a run's receipts
say *done* only of what was done and no lane is shared; the database latch never
outlives its evidence and never holds back a healthy store; the knowledge base
loses no update and never mixes vectors of two texts or two models; a review is
posted at most once; an indexed transcript exists.

## Modules

| Module | Models | Role |
|---|---|---|
| `ReviewStore` | `review_state.py` | the tables and the SQL statements as operators on sequences of rows |
| `ReviewLedger` | `ledger.py`, `review_state_client.py`, `AgenticBackend.invoke` | the state machine: one action per store call of `carry_in` and `settle` |
| `ReviewLedgerProofs` | | type correctness, lane isolation, the lifecycle of a row, and what the ledger keeps: published claims, one open row per claim, round labels, honest coverage |
| `DbPool` | `db.py` | pool creation, the embedding-provenance pass, the best-effort latch |
| `DbPoolProofs` | | type correctness and the safety properties of `DbPool` |
| `ReviewPost` | the posting half of `backends/agentic.py` | a POST that is not idempotent, its retries and its read-back |
| `ReviewPostProofs` | | type correctness and the safety properties of `ReviewPost` |
| `ReviewRun` | `runner.py`, `pool.py`, the clients of `circuit_breaker.py`, `run_metrics.py`, `reviewer_health.py` | one review job: plan, escalation, branches, failover chains, receipts |
| `ReviewRunProofs` | | what `ReviewRun`'s functions return; its plan, seats, chains, receipts and accounts |
| `KnowledgeCalls` | `stores.py`, `dedup.py`, `models.py` | the calls on a store of learnings, and the caller that drains a capped batch |
| `KnowledgeBase` | | the abstract store: a table on which each call takes effect in one step |
| `KnowledgeSync` | `sqlite_store.py`, `objectstore.py` | the store as one file, loaded, changed and saved back on a condition |
| `KnowledgePg` | `ingest.py`, `retrieve.py` | the store as a table in Postgres |
| `Knowledge` | | a deployment with one of the stores, and the refinement of `KnowledgeBase` |
| `KnowledgeProofs` | | embeddings, drained batches, and the refinement, step by step |
| `Transcript` | `reviewer/transcript.py` | lines, scrubbing, figures |
| `Harness` | `reviewer/harness.py` (`_drive`) | the child, its pipes, the threads beside it, the timer, the tee |
| `TranscriptStore` | `main.py` (upload), `objectstore.py` (blobs), `transcripts.py`, `run_metrics.py` | upload, write-once blobs, index, references, paging |
| `Session` | `transcript_client.py`, `runner.py` | composes `Harness` and `TranscriptStore`: a branch's legs, their transcripts closed, shipped and referred to |
| `SessionProofs` | | types, scrubbing, whole blobs, references and paging of `Session` |
| `DenyRules` | `harness.py` (`_permission_settings`), `transcript_dir`, `local_blob_root` | which directories the agent is denied, by which spelling |
| `DenyRulesProofs` | | both properties of `DenyRules` |
| `PullRequest` | | the head, which moves |
| `RunReceipts` | receipts of `runner.py`, `fuko_states` | jobs, their receipts, and the row of each label |
| `BotReviews` | `coderabbit_state`, `copilot_state` | what the external reviewers leave, and the row of each |
| `Status` | `cli.py` (`_cmd_status`) | composes the three: fetches in order, then the rows |
| `StatusProofs` | | types and the three properties of the rows |
| `MC...` | | small instances for TLC |

Definitions marked `mutant` are plausible bugs of the definition that follows
them.  Nothing refers to them; `PROJECT.json` pairs each with the property that
fails when it takes that definition's place, which shows that the property can
fail.

### ReviewStore and ReviewLedger

A table is a sequence of rows in insertion order and a row's id is its index.
The ledger is modelled for one `(repo, pr)`, so a lane `(repo, pr, seat)` is a
seat.  Titles, bodies, evidence and locations are left out: a finding is its
claim, the identity `claim_anchor(file, title)`, and `FileOf` gives its file.

The state of a branch (`run[r]`, for `r = <<job, seat>>`) is `CarriedState` and
the locals of `carry_in` and `settle`; `pc` names the next store call:

    idle -> expire -> [open -> retire*] -> cover -> [dead] -> round -> review
         -> [verdicts* -> settled -> match* -> touch -> record] -> coverage -> done

Each call is one action and one atomic statement of the store, in the order the
code makes them, so two branches interleave between any two calls.  A call's
outcome is `ok`, `lost` (it took effect and its answer did not arrive) or
`failed`; in the last two the caller gets the neutral value of
`review_state_client._guarded` and goes on.  A transport failure also latches
the process down (`_mark_down`), after which every call fails at once unless the
runner can reach the database itself (`LocalStore`).

The agent is an input: `Review` chooses any verdict for each row it was offered,
any publication of `Publications` and any examination of `Examinations`.
`ReviewFails` stands for every return of `invoke` between `carry_in` and
`settle`, `Cancel` for a job killed at any point, `Lapse` for the passing of
`RETENTION_DAYS` between jobs.  `Start` reads the concurrency group: two jobs
overlap only in instances with `Overlap = TRUE`.

Two simplifications bear on the reading of the results.  Timestamps are ticks of
one clock that advances with each write that changes a row, so `ORDER BY
updated_at DESC, id DESC` never meets two writes with one time; siblings of one
insert do share theirs, and are ordered by index where the code orders them by a
random id.  And a finding's verdict is chosen per row, not per answer entry,
because `accepted_status` keeps one entry for each id.

### DbPool

One process and its threads.  A thread of `BestEffort` is a caller of
`db_best_effort` (ledger, breaker, metrics, health); any other is a caller of
`db` and works with vectors.  `pc[t]` is where the thread is:

    EnterProbe / Enter -> pool -> [lock -> create] -> [space -> [spacelock
       -> passconnect -> pass]] -> connect -> [unlatch] -> use -> idle
    a best-effort wait that fails: -> timedout -> failed -> idle

A step is a lock section, an unlocked read, or a wait together with what
follows it up to the next of these.  `poolLock` and `spaceLock` are `_pool_lock`
and `_embed_space_lock`; `_latch_lock` guards single steps and needs no
variable.  `until` and `gen` are `_unreachable_until` and `_latch_gen`, `seen`
the generation a caller entered with, `held` the connections lent out.
`migrated`, `marker` and `vectors` are the database: whether the migrations have
committed, `meta.embed_model`, and the models that produced the vectors stored.
`pending` says that creation could probe the embedder, `checked` is
`_embed_space_checked`.

`_looks_saturated` reads the pool's counters in a step of its own (`TimedOut`)
after the wait has failed, as the code does; with the database down the counters
may say either.  The pass is one step, being one transaction, but its lock and
its connection are taken in steps of their own, and nothing makes a
knowledge-base thread ever finish it.  `Restart` keeps the database and loses
the process, and may configure another model: one that neither the marker nor
any vector names, unless `RollBack` is TRUE.  With `RollBack` neither
`MarkerIsHonest` nor `SpaceIsProven` holds; the disagreements below say why.

Left out: a change of the vectors' dimension, which the code treats as it treats
a change of the model, and the order of the migration files inside their
commit.

### ReviewPost

The branches of one run on one head.  A branch claims its stash, sends, and on an
answer that says nothing (a gateway status, a lost connection) reads the reviews
back.  `posted` are the posts on the pull request, each named by its branch, its
body and its attempt, so that a second one is a second element.  `Ambiguous` is
the answer that says nothing: the post was committed, was not, or will be
(`pending`, `CommitsLate`).  `Unanchorable` is the 422 that degrades the review
to its body and starts the attempts again.  `Label(b)` is the header the read-back
searches for, `provider/name` of the branch's entry, which two entries may have in
common; `Earlier` are the labels of reviews that a run before this one left on
the head.  A run meets one of `Labellings` and keeps it.  `ReadBack` answers yes, no or unknown as `_review_already_posted`
does, unknown at any time.

### ReviewRun

One call of `review()`.  `phase` is where the job is:

    read -> plan -> start -> branches -> observe -> over

`ReadCooldowns` chooses any set of cooling providers, since other jobs trip
breakers too.  `Configured` and `Escalate` are the two outcomes of
`escalation_needed`; the second plans with `plan_escalation`.  The code's loop
over the backups is stated by its outcome: the set `P` of the places it promotes
has each place exactly if the backup there passes the tests beside those promoted
before it, which leaves one such set.  A sequence chosen from another is given by
the places it takes (`Picked`), in order.  `StartSolo` and `StartCompare` build
the branches (`br`), each with the pool `order_pool` gives it; `mode` tells
whether they run concurrently, decided by a second lookup of the identities.
`down` in these two actions are the tokens whose lookup fails just then.

The record of a branch goes

    [header ->] attempt -> [abandon -> attempt]* -> record -> [finalize ->] over

`attempt` is `backend.invoke` with its normalization: the leg answers well or
badly (`Answered`), throttles (`Throttled`), or raises (`Raises`).  `Abandon` is
what follows a throttle, `_record_transcript` and `_cb_trip`, each possibly lost;
the last leg of the pool is abandoned too and then recorded as `throttled_out`.
A solo run has no header, and an exception in it ends the job.  `shipped` and
`indexed` are the legs whose transcript is in the blob store and in
`review_transcripts`; only the agentic driver ships one.

A fleet is the parsed `[review]` section.  Fleets without an active entry do not
exist: `fukoconfig.py` rejects them.  A backend override is resolved, a seat is a
tuple (the slot or the label, and the index appended when the name is taken), and
an identity is an account (`AuthorOf`) unless the token is an App's, whose
identity is made of the token (`_resolve_actor`).  `faults` counts lost calls and
exceptions; nothing but the bound depends on it.

Left out: how an answer is classified as a throttle and a job as too large, which
are inputs; the windows of the breaker, which are read as a set; the contents of
comments beyond the receipt's state and the entry it names.

### The knowledge base

`KnowledgeCalls` holds what is the same for every store: the requests, the
answers, `partition` (`dedup.py`), and the caller that sends a capped batch again
while it makes progress.  A learning is known by its key, the pair of text and
source that the stores keep unique.  Each caller is a process or thread with one
call in progress, `call[c]`.

`KnowledgeBase` is the promise: every call reads or changes the table in one
step, and one that failed may or may not have taken effect.  Two answers are
weaker than that on purpose, because the code's are.  An ingest looks at the table
before it embeds and skips what is there by then; and a deletion chooses its
rows before it removes those that still match.

`KnowledgeSync` implements it by a file: `work[c]` is the copy a call works on,
`pc` in it the step of `_mutate` or `_read`.  A save tests that the object is
still the one that was loaded.  On S3 (`"s3"`) that is one step.  On a local disk
(`"file"`) the test, the truncation and the writing are three, and another
process may act between them, or read the file while it is empty.  Opening a copy
whose marker is not the process's model embeds every row again (`migrate_dim`).
`KnowledgePg` implements it by transactions: a key another transaction inserted
and has not committed, and a row another has locked, are waited for, and of two
that wait for each other one is made to fail (`Deadlocked`).  Two deployments of
the three are shown to refine the abstract store; what the third does instead is
under the disagreements.

Left out: repositories (one is modelled), expiry and topics; ranking, which
becomes `Rank` and `Nearest` with ties chosen freely.

### The session of an agent

A line of the feed is the event it carries, what it shows of a credential, and
whether its newline came.  `Harness` has the child, the three pipes of bounded
capacity `PipeCap`, the thread that feeds the prompt, the one that drains stderr,
the timer, and the driver's loop: `Tees` hands a line to the transcript, `Folds`
to the stream consumer.  A child reads, prints and warns in any order, blocks on
what its pipe cannot take, hangs, exits, or dies by the timer's hand, and may
leave a piece of a line behind (`LastWords`).

`Session` runs the legs of a failover chain.  A transcript is closed on every
exit, shipped to the store directly or through the sidecar in chunks, and its
index row and reference are posted to the sidecar (`posts`).  Bodies break off,
answers are lost, a post arrives twice (`Redelivered`), the sidecar dies and so
does the runner.  The size limit on a body is crossed at any chunk or at none.
The reader pages the listing by one row at a time while rows are added.

Assumed: the child is one process, with no grandchild that keeps its pipes open
after it; keys are fresh for each leg (`mint_key`); two rows may share a
`created_at`, which is why the listing's second sort key matters.

`DenyRules` asks one question of the paths: is each directory that holds
transcripts or credentials covered by a rule.  A rule matches a spelling, so a
name is its directory, what is unusual about its characters, and how it is
spelled (itself, not normalized, through a link, through one that cannot be
resolved, relative).  Transcript directories are denied under their real name
only, as in the code.

The rules are built in the runner, and the sidecar resolves the root of its blobs
in a process of its own.  What depends on the process is given for each: `blobs`
is what `expanduser` makes of the root there, since a root that begins with `~`
names one directory under the runner's HOME and another under the sidecar's, or
none; and a relative name is another directory in the sidecar (`Resolved`).
`local_blob_root` refuses the second and accepts the first, so `CorpusIsDenied`
is about roots that both processes expand alike, and the disagreements about the
others.  Both processes are given the same settings; the documentation says
that the runner reads its own (`docs/agentic-reviewer.md:737-747`).  Left out: a
directory that changes while a run goes on.

### Status

A poll is four steps, because `_cmd_status` makes four requests: head, comments,
reviews, check-runs.  Everything else goes on in between.

`RunReceipts` is what `ReviewRun` looks like from the pull request: a job resolves
the head, posts a header with a receipt for each branch, reviews the tree it
finds, and edits the receipt.  A job that starts cancels the one before it.  A
header or its edit may be lost, an outcome may be a substitute's (`own` is FALSE)
or have a channel that failed (`whole`), somebody may quote a receipt, and a seat
may leave the configuration.

`BotReviews` has CodeRabbit as `status.py` records it, in comments that quote
what was observed: a summary rewritten in place, whose range line moves to a head
whether or not it is read; a notice in it while throttled, paused or scanning,
with the last result left beside it; a completed check-run or an empty review for
a head it declined.  `delimited` says whether its summary delimits the result
(`recent_review`).  What is assumed of it: the notice is in the summary before an
acknowledgement appears; without a delimiter a rewritten summary keeps the last
result only beside a notice; there is one acknowledgement of a head.

`ThrottledIsNotDone` has one exception, which the model checker found: without a
delimiter, a summary that is rewritten between the fetch of the comments and the
fetch of the reviews still shows the old result, and an empty acknowledgement on
the new head then makes it count for a head that was not read.  `steady` says
that this did not happen.

## Properties

The modules without `TypeOK` below have a type invariant too where they keep
structured state (`Knowledge`, `Session`, `ReviewRun`), which no run repeats.

| Module | Property | Kind | Says |
|---|---|---|---|
| `ReviewLedger` | `TypeOK` | invariant | rows are well formed, and every id a branch holds addresses an existing row |
| | `PublishedClaimSurvives` | invariant | once a round's findings took effect, each claim it published is on an open row of its seat, whatever else of the round degraded |
| | `OneOpenRowPerClaim` | invariant | a seat never has two open rows in the retention window for one claim |
| | `DedupesOntoOpenRows` | invariant | a finding is de-duplicated only onto a row that is open and has its claim |
| | `RoundLabelsDistinct` | invariant | rounds of a seat have distinct labels that grow with their heads, within each table and across the two |
| | `NoStaleAssurance` | invariant | no coverage of a file the delta touched or the head lacks is rendered |
| | `LawfulStatusChange` | action | a row closes only by a verdict of a round that was offered it (with a reason, for `rejected`) or because its file is gone, and comes back only when its seat publishes the claim; never from `stale` |
| | `LaneIsolation` | action | a step that is not of a seat's own branches changes no row of that seat |
| | `RoundsEnd` | liveness | a started round ends |
| `DbPool` | `TypeOK` | invariant | each lock and each connection is held by exactly the thread inside its block; no best-effort thread is in the pass |
| | `UsersSeeTheSchema` | invariant | who takes a connection finds the migrations committed |
| | `MarkerIsHonest` | invariant | the marker never names a model that did not produce every stored vector |
| | `SpaceIsProven` | invariant | vectors are used only after the pass, and after a pass that could be made all are the configured model's |
| | `NewerFailureStands` | action | a success clears no failure latched after its own probe entered |
| | `BestEffortReturns` | liveness | a best-effort call ends, whatever the knowledge-base callers do |
| `ReviewPost` | `TypeOK` | invariant | no attempt past the budget |
| | `PostedOnce` | invariant | a branch's review is posted once, but for a post committed after its answer was given up |
| | `SignalsArePosted` | invariant | a branch reports findings only when its review is on the pull request, or another with its label |
| | `PostingEnds` | liveness | the posting flow ends |
| `ReviewRun` | `ReceiptsTellTheTruth` | invariant | *done* only over an answer, no known header left in progress, receipt and metrics row agree on outcome and entry |
| | `BranchesStayApart` | invariant | legs that share a ledger seat are of one branch, driver and ledger configuration, and branches at work together post under different accounts |
| | `LastResortsLast` | invariant | a cooling or too small entry is tried only after every other; `throttled_out` means the whole pool was tried |
| | `ChainIsAccounted` | invariant | unless a call was lost: breakers tripped for every leg left, one row per chain, every stored transcript indexed |
| | `EscalationKeepsTheFleet` | invariant | promotions keep all configured reviewers, one driver, the budget and the identities |
| | `AnswerIsFinal` | action | nothing is tried after the first answer; a final receipt stays |
| | `JobEnds` | liveness | a job left to run ends |
| `Knowledge` | `ImplementsBase` | refinement | Postgres and the file on S3 do what `KnowledgeBase` does |
| | `VectorsOfTheirText` | invariant | every learning has the embedding of the text it has now, of the model the base is marked with |
| | `DrainedIsStored` | invariant | of a batch with nothing remaining, every item has been in the store |
| | `CallsEnd` | liveness | a call ends: races are lost a bounded number of times, locks are given back |
| | `WritesUnchanged` | action | a local file is written only if it is unchanged (violated) |
| `Session` | `NoCredentialKept` | invariant | no file and no blob shows a credential, or the beginning of one at a cut |
| | `BlobIsTheWholeFile` | invariant | a blob is the runner's closed file, whole |
| | `ReferencesHold` | invariant | a reference leads to an index row, and the row to a blob that has its figures |
| | `PagedReaderMissesNothing` | invariant | who pages to the end was shown every transcript that was there at the start |
| | `SessionEnds` | liveness | pipes and threads cannot block each other; a child needs the timer only if it hangs |
| `DenyRules` | `CorpusIsDenied` | invariant | the directories transcripts are written to are denied, the sidecar's where both processes expand its root alike |
| | `CoveredOrAnnounced` | invariant | each spelling of a credential store has a rule, or stderr names it or the store as not covered |
| `Status` | `CoverageIsReal` | invariant | a seat's row is *done* only if a seat of that label reviewed the head, or a later one, itself and on every channel |
| | `ThrottledIsNotDone` | invariant | CodeRabbit's row vouches for no head it has not read, and is not *done* while its summary declines the head |
| | `FinishedReadsDone` | invariant | who had finished with the head before the poll reads *done* |
| | `AmbiguousIsNotDone` | invariant | an instance that is stuck or failed on the head is not reported *done* (violated) |

## Runs

| Run | Bounds | Question |
|---|---|---|
| `rounds` | 3 jobs, 1 seat, 1 claim, 2 files, any tiers, lapses, render cap 1, no faults | do histories of three rounds keep one open row per claim, distinct labels and no stale assurance |
| `degraded` | 2 jobs, 1 seat, 2 claims, 2 faults, lapses | does a published claim survive any two degraded calls, are closures lawful, does every round end |
| `seats` | 2 jobs, 2 seats, 1 claim | do concurrent seats leave each other's rows alone |
| `pool` | 2 threads of each class, 1 connection, 2 models, 1 outage, 1 restart, 3 calls, 2 ticks | do marker, vectors, latch and locks agree over outages, restarts and deferred passes; do best-effort calls end |
| `post` | 2 branches, 2 attempts; labels of their own, on a head where an earlier run used one or none, or one label for both | is a review posted once, are findings reported only when a review of that label is there, does the flow end |
| `review_run` | 5 fleets of at most 3 branches and pools of 3, 2 providers, 1 fault | do receipts, rows, seats, accounts and chains agree over every plan and failure |
| `kb` | 2 processes with different models, 1 call each of 9 requests, 3 deployments, batches of up to 3 items, 2 retries | do both shared stores implement the abstract one, do embeddings follow their text, is a drained batch stored, does every call end |
| `kb_file` | 2 processes, the local file | violated, see below |
| `session` | 2 legs of 2 and 1 lines, pipes of one chunk, 1 redelivery, deaths anywhere | are credentials, blobs, figures and references right whatever is cut off, does a session end |
| `deny_rules` | every spelling of two stores at a time, the others as usual | is every directory denied or announced |
| `status` | 1 seat and a backup's label, or CodeRabbit, or Copilot; 2 heads, 2 jobs | does *done* mean that the head was read, and does a finished review read *done* |
| `status_twins` | 2 seats of one label, 1 head, 1 job | violated, see below |

Three rounds are what the longest stories of the ledger need: one records a
claim, one closes it, one re-raises it.  Two findings per publication reach the
twin, the re-raise followed by a duplicate, and the mix of a carried and a fresh
claim.  Two faults cover a lost reopen followed by a failed record, the longest
chain in which `settle` compensates one call with another.  Jobs are symmetric
and are declared so in the runs that check no liveness.

In the pool, two best-effort threads are one whose probe succeeds and one that
latches meanwhile; of the other two one may keep the only connection for ever and
one races for the pass.  Three calls are a creation, a pass and a use in any
threads, and one restart the change of model after them.  Two attempts of a post
are the first and a retry; the degradation doubles them.

Two callers are enough for a store: each conflict of the code is between two
calls, a call of several attempts meets several changes of the other, and the
requests are chosen to collide (the same items in another order, edits onto each
other's keys, deletions of what is edited).  Pipes of one chunk block as soon as
two are written, so the first leg of `session` fills all three.  The rows of
`fuko status` are computed one reviewer at a time, so `status` has one kind of
reviewer at once; two heads are one that was reviewed and one pushed over it, two
jobs one that is cancelled and its successor.

The fleets of `review_run` are chosen for what collides in them: two slots that
differ in case only and whose entries have different ledger flags; two tokens of
one account; backups of both drivers, too small, without an identity, or one too
many for the budget; one model named twice; nothing but `describe`.  Two
providers let an entry cool while its sibling does not, and one fault is enough
because the calls of a branch are best effort one by one: the properties that
admit a loss admit any number of them, and the theorems cover every number.

Deadlock is not checked: when every job, call and branch is over nothing remains
to do, and the bounds on calls and restarts stop the pool.

### Disagreements found

* `kb_file`: `FileObjectStore.save` compares and then writes, and a save may
  replace content it did not load.  The module's promise is that it would not.
  The loser's learnings are gone, though its caller was told that they are stored.
* `status_twins`: receipts are kept by label, and two entries of one provider
  and name have one label.  When one of them is stuck or failed and the other's
  receipt is the later, the one row reads *done*.

The models show seven more, which no run repeats.  Each is a property
in one of the configurations, with the constants changed where it says so.

* One degraded `expire_coverage` is enough for an entry the delta killed to be
  rendered by the same round (`NoStaleAssurance` with `MaxFaults = 1`); for files
  the head lacks the code filters the rows it holds.
* A second `fuko review` of the same pull request closes a row between the first
  one's read and its matching, so a finding is de-duplicated onto a closed row
  (`DedupesOntoOpenRows` with `Overlap = TRUE`).
* `_looks_saturated` reads the counters after the wait has timed out.  A connection
  given back in between makes a full pool look idle, and a healthy database is
  latched (`HealthyStoreIsNotLatched` with `MaxOutages = 0`).
* An installation token cannot ask who it is, so a hash of it stands for the
  account.  Two tokens one App minted separately are then two actors, and two
  branches post as one `[bot]` user at once (`OneAuthorAtATime` with
  `Fleets <- MintedFleet`, `AuthorOf <- SharedApp`).
* A store marked by one model is opened with a second while the embedder is down,
  and the pass is deferred.  The embedder recovers, a learning is stored with a
  vector of the second model, and the process restarts with the first, whose mark
  is still there: nothing is embedded again.  `_ensure_embed_dim` says that
  withholding the marker makes the restart heal the store
  (`src/sidecar/db.py:186-192`); it does for every model but the marker's
  (`RestartHeals` with one thread, `RollBack = TRUE`, `MaxRestarts = 2`).
* The fingerprint of a read-back is the header with the branch's label, "so a
  sibling A/B branch's review for the same commit cannot satisfy it"
  (`src/sidecar/backends/agentic.py:1716-1717`).  Two entries that name one model
  have one label: the post of one is lost, it finds the other's review, and reports
  findings that are not on the pull request (`ReportsItsOwn` in the run `post`).
* `local_blob_root` is one resolver for two callers that "have to see the same path"
  (`src/sidecar/objectstore.py:362-365`), and refuses a relative root because the
  two processes would disagree about it.  It expands `~` before it looks, so a root
  such as `~/blobs` passes, and with two HOMEs the rule names one directory and the
  sidecar writes to another (`StoreIsDenied` in the run `deny_rules`).

Two limits of posting are known without being disagreements.  A post that
commits after the read-back has looked is posted twice; no client can prevent
it.  And a re-run on the same head finds the earlier run's review in its
read-back (`Earlier`), which the code accepts.

## Fairness

`ReviewLedger!FairSpec` is weak fairness of each started branch's next step:
branches are threads the interpreter schedules, an agent run has a time limit,
and each store call has one (`TIMEOUT_S`).  `ReviewPost!FairSpec` is the same
for a posting branch, whose requests have timeouts.  `DbPool!FairSpec` is weak
fairness of the best-effort threads, whose waits are all bounded, and of
`CreatePool`, which runs under `_pool_lock` and is bounded by the pool's own
timeouts, whoever runs it.  `ReviewRun!FairSpec` is weak fairness of the job as
a whole: every request and every agent run has a timeout, and a thread pool runs
each branch it was given.  `Spec` alone lets a job stop anywhere, which is a
cancelled job or one ended by an exception.

`Knowledge!FairSpec` is weak fairness of the steps of a call in progress: its
requests have timeouts, and Postgres resolves deadlocks.  A caller that waits for
another's lock is not enabled, so that it gets there rests on the other's call
ending.  `Session!FairSpec` is weak fairness of the driver's loop, of the two
threads, and of a child that has not hung; the timer is owed only to one that
has, so `SessionEnds` does not hold merely because a timer ends everything.
`Status` has no fairness: nothing is owed to a pull request.

Nothing is assumed of `Start`, `Cancel`, `Lapse`, deaths, disconnections,
outages, recoveries, restarts, new calls, late commits, or of the passes and
statements of knowledge-base threads.

## Proofs

Every invariant and action property of the passing runs is also a theorem, for
all values of the constants that satisfy the named assumption of the module:

| Assumption | Says |
|---|---|
| `LedgerConstants`, `PoolConstants`, `PostConstants` | types, finiteness of the sets that are counted, bounds that are not zero |
| `RunConstants` | a fleet is a sequence of entries one of which is active; a slot is a tuple of one part or none |
| `HarnessAssumption` | there is a leg and room in a pipe; the lines of a feed are whole, and bear a credential or none, until the child is cut off; lengths are natural numbers |
| `StoreAssumption` | the redeliveries allowed are a natural number; what stands for an absent object is none of the files, requests and index rows that may be stored |
| `StatusAssumption` | there is a head, and a bound on the jobs; a seat is not one of the external reviewers |
| `KnowledgeAssumption` | no model is called what a missing marker reads as; a batch is of keys and its cap is positive; what the store holds at the start is what an earlier version could have left: marked files whose vectors are the mark's, ids that no caller has minted |
| `DenyAssumption` | the settings of a site are names or unset, the root of the blobs one for each process; the root of the file system is not one of the directories |

| Theorem | Property | Further assumption |
|---|---|---|
| `ReviewLedgerProofs!TypeCorrect` | `TypeOK` | |
| `ReviewLedgerProofs!SeatsIsolated` | `LaneIsolation` | |
| `ReviewLedgerProofs!LifecycleLawful` | `LawfulStatusChange` | |
| `ReviewLedgerProofs!PublishedSurvives` | `PublishedClaimSurvives` | `Overlap = FALSE` |
| `ReviewLedgerProofs!DedupesOntoOpen` | `DedupesOntoOpenRows` | `Overlap = FALSE` |
| `ReviewLedgerProofs!OneRowPerClaim` | `OneOpenRowPerClaim` | `Overlap = FALSE`, no call degraded, claims fit in `MAX_OPEN_FINDINGS` |
| `ReviewLedgerProofs!LabelsDistinct` | `RoundLabelsDistinct` | `Overlap = FALSE`, no call degraded |
| `ReviewLedgerProofs!NoStaleCoverage` | `NoStaleAssurance` | `Overlap = FALSE`, no call degraded |
| `DbPoolProofs!PoolTypeCorrect` | `TypeOK` | |
| `DbPoolProofs!SchemaBeforeUsers` | `UsersSeeTheSchema` | |
| `DbPoolProofs!NewerFailuresStand` | `NewerFailureStands` | |
| `DbPoolProofs!ProvenanceIsKept` | `MarkerIsHonest` | `RollBack = FALSE` |
| `DbPoolProofs!UsersComeAfterThePass` | `SpaceIsProven` | `RollBack = FALSE` |
| `ReviewPostProofs!PostTypeCorrect` | `TypeOK` | |
| `ReviewPostProofs!PostsAtMostOnce` | `PostedOnce` | |
| `ReviewPostProofs!SignalsAreHonest` | `SignalsArePosted` | |
| `ReviewRunProofs!RunTypeCorrect` | `TypeOK` (no run repeats it) | |
| `ReviewRunProofs!ReceiptsAreTrue` | `ReceiptsTellTheTruth` | |
| `ReviewRunProofs!ChainsAreAccounted` | `ChainIsAccounted` | |
| `ReviewRunProofs!AnswersAreFinal` | `AnswerIsFinal` | |
| `ReviewRunProofs!EscalationKeeps` | `EscalationKeepsTheFleet` | |
| `ReviewRunProofs!LastResorts` | `LastResortsLast` | |
| `ReviewRunProofs!BranchesApart` | `BranchesStayApart` | no App minted two tokens of the fleet |
| `KnowledgeProofs!EmbeddingsMatchTexts` | `VectorsOfTheirText` | |
| `KnowledgeProofs!DrainedBatchesStored` | `DrainedIsStored` | |
| `KnowledgeProofs!StoresImplementBase` | `ImplementsBase` | |
| `SessionProofs!SessionTypeCorrect` | `TypeOK` (no run repeats it) | |
| `SessionProofs!CredentialsAreScrubbed` | `NoCredentialKept` | |
| `SessionProofs!BlobsAreWhole` | `BlobIsTheWholeFile` | |
| `SessionProofs!ReferencesAreKept` | `ReferencesHold` | |
| `SessionProofs!ReadersMissNothing` | `PagedReaderMissesNothing` | |
| `DenyRulesProofs!TranscriptsAreDenied` | `CorpusIsDenied` | |
| `DenyRulesProofs!StoresAreAnnounced` | `CoveredOrAnnounced` | |
| `StatusProofs!StatusTypeCorrect` | `TypeOK` (no run repeats it) | |
| `StatusProofs!DoneIsCovered` | `CoverageIsReal` | |
| `StatusProofs!DeclinedIsNotDone` | `ThrottledIsNotDone` | |
| `StatusProofs!FinishedStaysDone` | `FinishedReadsDone` | labels tell seats apart |

The further assumptions are needed.  `Overlap = FALSE` is what the workflow's
concurrency group provides, and the second of the seven disagreements shows a
ledger without it; the first of them shows what one degraded call does to
coverage.  A claim that is not offered because the block is full is recorded
again when it is raised again, hence `MAX_OPEN_FINDINGS`.  What becomes of the
others without their assumption is shown by the run `status_twins`, and by the
fourth and fifth disagreement for shared Apps and for former models.

**Ledger.**  `TypeOK` is inductive as it stands because it contains `Refs`: each
row id a branch remembers is in the domain of its table, which the statements
keep since tables only grow, and the matching cursor is inside the publication
while the loop runs.  Lemmas say that each statement returns a well-formed table
at least as long, and that each CHOOSE (`TopPlusOne`, `LatestOf`,
`LastClosedOf`) has a witness, since a finite non-empty set has a greatest
element under a total order.  `SeatsIsolated` rests on `OfSeat`: each statement
leaves the rows of other seats as they are and adds rows of its own seat only;
and on the fact that a step which writes also changes the branch's memory.
`LifecycleLawful` needs what a branch remembers between its calls (`Memory`):
rows it is about to retire are of files its head lacks, rows it is about to
close were offered to it and got a closing verdict, and a candidate for a
re-raise has the claim it is filed under.  Other branches preserve this because
no statement changes a row's claim.

What is kept across rounds has the invariant `InOrder`.  Its first half
(`Steady`) is what the two theorems before gave, and that one job is at work at a
time.  Its second half says of each branch how its memory and its rows relate,
stage by stage: the rows it was offered stay open until it closes them itself, and
each claim it has placed is on an open row, or will be when its list is recorded
(`Rests`); and, until a call degrades, it knows every open row of its seat and is
about to record no claim that has one (`Sole`), which keeps one open row for each
claim (`OneOpen`).  `PublishedClaimSurvives` alone is not inductive: it speaks
of rounds whose write took effect, and a later round may close their rows.
`RoundLabelsDistinct` adds that the rows of a round are written at its end
(`HeadsOnRecord`) and that labels grow with the heads (`LabelsInOrder`);
`NoStaleAssurance` that what a branch has put out of its coverage stays out
(`Assurance`).

**Pool.**  `SchemaFirst`: a published pool has migrated, whoever is past creation
finds it published, and whoever creates it does so while there is none.
`GenerationsKeepUp`: no generation seen is ahead of the latch's, and a thread
since whose entry a failure was latched has seen an older one, so its success
does not match.  `Provenance`: the marker tells the truth about the configured
model, after a checked pass that could be made it names that model, and
knowledge-base callers come after the pass.

**Post.**  `NothingPostedBefore`: while a branch is about to send, none of its
posts is on the pull request except late ones.  `Backed`: what a branch's signals
rest on is never taken back.

**Run.**  `RunInv` speaks of each branch alone, so a step of one branch needs a
lemma about its record only, and the others are untouched.  It says what each
stage leaves behind: the answer is there from `record` on and not before
(`AnswerInv`); the receipt is final only at the end, and the row, if any, is that
of the leg the branch stopped at (`ReceiptInv`); a stored transcript that is not
indexed is that of the leg at hand (`AccountInv`); and the breaker of each leg
before it is open (`TrippedInv`).  `ReceiptsTellTheTruth` is not inductive because
it does not say that a chain which is not over has no row and no final receipt.

`JobInv` adds the plan (`PlanInv`), which no step of a branch changes, and ties
the chains to it (`ChainsInv`): the legs of a branch are the order of trial of its
entry's pool, and a chain that ends throttled is at its last leg.  The rest is
about functions of the configuration.  Within an escalation, the test of the last
backup promoted was made beside all the others, so its budget is the budget of the
round (`LastPromoted`); costs add up over a concatenation (`MinutesConcat`), so
the order of the branches does not matter.  The order of trial has all entries of
its pool, the fresh ones first (`OrderIs`).  A branch has as many names to choose
from as its index, one more than are taken before it, so one is free
(`FreeNameIsFree`, by the pigeonhole principle) and no two branches share a seat
(`SeatsDiffer`).  Branches at work together were resolved to different actors.

**Knowledge base.**  `KnowledgeInv`: calls are well formed; what a batch has been
told is so (`Drained`); and for the store deployed, an id is minted once, by an
attempt which is over by the time its row can be seen (`Spent`, `Own`).  On
Postgres, an open transaction's keys are free and the row it locked is as it was
read (`Stands`), and no two have a key or a lock in common (`Apart`), because
whoever would take one waits.  In a file, a copy which waits to be saved is the
outcome of its call on the file it was loaded from (`Fits`), so that a save whose
condition holds is that call in one step.  The refinement goes through the actions
one by one: each commit, save and answer is the step of the table it stands
for (`BaseStep`), each other step leaves table and calls alone (`Stutters`).

**Session.**  Scrubbing: a line that waits in the pipe whole was not cut inside a
credential (`FeedShielded`), so that what the tee makes of it reveals none, and
neither does any line of a file (`FilesScrubbed`).  Storing:
a file does not change once it is closed, a request's chunks are a beginning of
it, and a blob is the whole of it (`BlobOK`).  `IndexOK`: a post that names a
transcript was made from its blob, and refers to its row after the row was written.
The reader: a row it is owed and has not been shown is listed at its offset or
later, since new rows come in front (`ReaderOK`).

**Deny rules.**  The rules are those built for the site (`DenyInv`).  The proof
is about names: the rule builder covers the real name of each candidate or names
it as not covered, and two processes that expand a root alike and accept it
arrive at one name, since they accept no relative one.

**Status.**  `StatusInv` has a part for what is on the pull request and one for
what the poll has read of it.  Receipts that read as reviews are vouched for
(`ReceiptsReal`); CodeRabbit's range line leads all it has said (`RangeLeads`), and
its content is of heads it read (`ContentHonest`).  What was settled when the poll
began stays settled until a job or a push, and is in whatever the poll fetched by
then (`SeatsSettled`, `CodeRabbitSettled`, `CopilotSettled`).

Sums, orders of trial and seats are recursive in the code.  No induction over
data is available, so the models give them without recursion or by a function
defined on a range of numbers.  That such a function exists, and that one more
element adds to it what it should, is shown by least counterexamples (`Least`).

Model-checked only: liveness (`RoundsEnd`, `BestEffortReturns`, `PostingEnds`,
`JobEnds`, `CallsEnd`, `SessionEnds`), which needs fairness and is outside the
prover's reach.  The properties that are violated are not theorems.

## Not modelled

* The dimension of vectors, the order of migration files, the windows of the
  circuit breaker, and how an answer is classified as a throttle: inputs or one
  step each, as said above.
* `normalizers.py`, `threads.py`, `commands.py`, the encoding of signals, prompts and
  digests: they turn one text into another and keep nothing between calls.
* The web viewer and the HTTP handlers other than the upload: they forward to the
  stores.  Configuration, presets, checkout, logging: files and processes, no
  state of their own.
* The A/B reports and scripts: sums over what they read.
* `pragent.py`: a subprocess whose posts are pr-agent's.

## Plan

Modelled: every part planned.  Proved: every safety property a run checks.  Next:
the ledger's properties under overlapping jobs, as far as they hold (types, lanes
and lifecycle do already); which of the ledger's properties survive a degraded
call of another seat; and `Knowledge!TypeOK`.

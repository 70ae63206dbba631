------------------------------- MODULE Status --------------------------------
(***************************************************************************)
(* `fuko status` over a pull request that goes on: it fetches the head, the  *)
(* comments, the reviews and the check-runs of the head it was told, one      *)
(* after the other, and then derives the rows.  Pushes, review jobs and the   *)
(* external reviewers act between any two of these.                         *)
(***************************************************************************)
EXTENDS RunReceipts, BotReviews

CONSTANT Installed  \* the reviewers a repository may have

VARIABLES
    installed,
    poll        \* how far the command is, and what it has fetched

\* The names of the external reviewers are no seats' names.
ASSUME StatusAssumption ==
    /\ Heads \in Nat \ {0} /\ MaxJobs \in Nat
    /\ {"coderabbit", "copilot"} \cap Seats = {}

vars == <<head, receiptVars, botVars, installed, poll>>

\* done: who had finished with the head when it was fetched; declined: the
\* summary that was fetched says that its head is not being read; steady: it
\* was still the summary when the reviews were fetched.
NoPoll ==
    [step |-> "head", head |-> 0, jobs |-> 0, done |-> {}, declined |-> FALSE, steady |-> FALSE,
     comments |-> <<>>, summary |-> NoSummary, reply |-> "none",
     reviews |-> {}, copilot |-> [on |-> {}, quota |-> FALSE], check |-> "none", known |-> {}]

Polls ==
    [step : {"head", "comments", "reviews", "checks", "rows"}, head : 0..Heads, jobs : 0..MaxJobs,
     done : SUBSET (Seats \cup {"coderabbit", "copilot"}), declined : BOOLEAN, steady : BOOLEAN,
     comments : Seq(Receipts), summary : Summaries, reply : Notices, reviews : SUBSET Submitted,
     copilot : Engaged, check : Checks, known : SUBSET ({LabelOf[s] : s \in Seats} \cup Backups)]

TypeOK == head \in 1..Heads /\ ReceiptsTypeOK /\ BotsTypeOK /\ poll \in Polls

Init ==
    /\ PullInit /\ ReceiptsInit /\ BotsInit
    /\ installed \in Installed
    /\ "coderabbit" \notin installed => delimited /\ reply = "none"
    /\ poll = NoPoll

-----------------------------------------------------------------------------
Push ==
    /\ Pushed
    /\ UNCHANGED <<receiptVars, botVars, installed, poll>>

SeatsAct == "fuko" \in installed /\ ReceiptsStep /\ UNCHANGED <<head, botVars, installed, poll>>
BotsAct ==
    /\ \/ "coderabbit" \in installed /\ CodeRabbitStep
       \/ "copilot" \in installed /\ CopilotReviews
    /\ UNCHANGED <<head, receiptVars, installed, poll>>

\* The last word of the seat is a whole review of its own on the head, and no
\* branch is running.
SeatDone(s) ==
    LET mine == {i \in DOMAIN comments : comments[i].by = "fuko" /\ comments[i].seat = s}
    IN /\ \A t \in Seats : branch[t] = Idle
       /\ \E i \in mine :
            /\ \A j \in mine : j <= i
            /\ comments[i] = [by |-> "fuko", seat |-> s, head |-> head,
                              of |-> Review]

BotDone == head \in read /\ owed.what = {}

\* fetch_pr_head.
FetchHead ==
    /\ poll.step = "head"
    /\ poll' = [poll EXCEPT !.step = "comments", !.head = head, !.jobs = jobs,
          !.done = {s \in Seats : SeatDone(s)} \cup (IF BotDone THEN {"coderabbit"} ELSE {})
                     \cup (IF head \in copilot.on THEN {"copilot"} ELSE {})]
    /\ UNCHANGED <<head, receiptVars, botVars, installed>>

\* fetch_issue_comments.
FetchComments ==
    /\ poll.step = "comments"
    /\ poll' = [poll EXCEPT !.step = "reviews", !.comments = comments,
          !.summary = summary, !.reply = reply,
          !.done = @ \ ((IF jobs = poll.jobs THEN {} ELSE Seats)
                          \cup (IF head = poll.head THEN {} ELSE {"coderabbit"})),
          !.declined = head = poll.head /\ summary.range = head /\ IsNotice(summary.notice)]
    /\ UNCHANGED <<head, receiptVars, botVars, installed>>

\* fetch_reviews.
FetchReviews ==
    /\ poll.step = "reviews"
    /\ poll' = [poll EXCEPT !.step = "checks", !.reviews = reviews, !.copilot = copilot,
                                !.steady = summary = poll.summary]
    /\ UNCHANGED <<head, receiptVars, botVars, installed>>

\* fetch_check_runs, which may fail, and the labels of the configuration,
\* which may be unreadable.
FetchChecks ==
    /\ poll.step = "checks"
    /\ \E c \in {"none", check[poll.head]}, known \in {{}, configured_seat_labels} :
          poll' = [poll EXCEPT !.step = "rows", !.check = c, !.known = known]
    /\ UNCHANGED <<head, receiptVars, botVars, installed>>

\* reviewer_states has been printed; the next poll starts afresh.
PollAgain ==
    /\ poll.step = "rows" /\ poll' = NoPoll
    /\ UNCHANGED <<head, receiptVars, botVars, installed>>

Next == Push \/ SeatsAct \/ BotsAct \/ FetchHead \/ FetchComments \/ FetchReviews \/ FetchChecks \/ PollAgain

Spec == Init /\ [][Next]_vars

-----------------------------------------------------------------------------
Rows == fuko_states(poll.comments, poll.head, poll.known)
CodeRabbit == coderabbit_state(poll, poll.head)
Printed == poll.step = "rows"

\* A row reads done only if a seat of that label reviewed, as itself and on
\* every channel, that head or one pushed since; whatever was cancelled, lost,
\* substituted, quoted or pushed in between.
CoverageIsReal ==
    Printed => \A row \in Rows : row.state = "done" =>
        \E r \in reviewed : LabelOf[r.seat] = row.label /\ r.tree >= poll.head

\* CodeRabbit's row never vouches for content on a head that it has read no
\* more than what was pushed on top of it, and
\* is not done while its summary, as fetched, says it is not reading that head:
\* completion signals and results of earlier heads notwithstanding.  (Without
\* a delimiter, a summary rewritten between two fetches is taken for current.)
ThrottledIsNotDone ==
    Printed =>
        /\ (with_content(poll, poll.head) /\ (delimited \/ poll.steady)) => \E n \in read : n >= poll.head
        /\ (poll.declined /\ poll.head \notin read) => CodeRabbit # "done"

\* What had finished with the head before the poll reads done, unless a new
\* job or a push overtook it: no older notice, later pause, quoted receipt or
\* unreadable configuration hides it.  A summary that does not delimit its
\* result is not believed beside a notice.
FinishedReadsDone ==
    Printed =>
        /\ \A s \in poll.done \cap configured : \E row \in Rows : row = [label |-> LabelOf[s], state |-> "done"]
        /\ ("coderabbit" \in poll.done /\ (delimited \/ ~IsNotice(poll.summary.notice))) => CodeRabbit = "done"
        /\ "copilot" \in poll.done => copilot_state(poll, poll.head) = "done"

\* docs/review-signal-v1.md: a receipt that is stuck in progress, or failed, on
\* the head is reported as such, for each instance.
AmbiguousIsNotDone ==
    Printed => \A s \in Seats :
        LET mine == {i \in DOMAIN poll.comments : poll.comments[i].by = "fuko" /\ poll.comments[i].seat = s}
        IN \A i \in mine :
            (/\ \A j \in mine : j <= i
             /\ poll.comments[i].head = poll.head
             /\ poll.comments[i].of.state # "done") =>
                [label |-> LabelOf[s], state |-> "done"] \notin Rows

=============================================================================

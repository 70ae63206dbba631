----------------------------- MODULE RunReceipts -----------------------------
(***************************************************************************)
(* The run receipts of fuko's own seats: a branch of a job posts a header   *)
(* comment with a receipt, reviews, and rewrites the receipt in place with   *)
(* its outcome; status.py folds the receipts it finds into a row per label.  *)
(* How a branch comes to its outcome is ReviewRun's subject.                *)
(***************************************************************************)
EXTENDS PullRequest, Sequences

CONSTANTS
    Seats,      \* reviewers of the fleet
    LabelOf,    \* the label of each: provider/name
    Backups,    \* labels of the fleet's backups, which have no branch
    MaxJobs     \* bound on review jobs

VARIABLES
    jobs,       \* review jobs started so far
    at,         \* the head the running job's receipts name, 0 when unreadable
    branch,     \* what the running job's branch of each seat does
    comments,   \* the comments that carry a receipt, oldest first
    configured, \* the seats still in .fuko.toml
    reviewed    \* which seat itself reviewed which tree, on every channel

receiptVars == <<jobs, at, branch, comments, configured, reviewed>>

\* An outcome: whether it is a review, whether the seat's own model answered,
\* and whether every channel was published.
Review == [state |-> "done", own |-> TRUE, whole |-> TRUE]
Failure == [state |-> "failed", own |-> TRUE, whole |-> TRUE]
Outcomes == {Failure} \cup [state : {"done"}, own : BOOLEAN, whole : BOOLEAN]
Started == [state |-> "in_progress", own |-> FALSE, whole |-> TRUE]

Receipt(s, of) == [by |-> "fuko", seat |-> s, head |-> at, of |-> of]
Branch(step, comment, of) == [step |-> step, comment |-> comment, of |-> of]
Idle == Branch("idle", 0, Started)

Marks == Outcomes \cup {Started}
Receipts == [by : {"fuko", "other"}, seat : Seats, head : 0..Heads, of : Marks]
Branches == [step : {"idle", "starting", "reviewing", "finalizing"}, comment : Nat, of : Marks]

\* A branch's header is a comment of its own seat.
ReceiptsTypeOK ==
    /\ jobs \in 0..MaxJobs /\ at \in 0..head
    /\ branch \in [Seats -> Branches]
    /\ comments \in Seq(Receipts)
    /\ configured \subseteq Seats
    /\ reviewed \subseteq [seat : Seats, tree : 1..Heads]
    /\ \A s \in Seats : branch[s].comment # 0 =>
          /\ branch[s].comment \in DOMAIN comments
          /\ comments[branch[s].comment].by = "fuko" /\ comments[branch[s].comment].seat = s

ReceiptsInit ==
    /\ jobs = 0 /\ at = 0
    /\ branch = [s \in Seats |-> Idle]
    /\ comments = <<>>
    /\ configured = Seats
    /\ reviewed = {}

-----------------------------------------------------------------------------
\* A job cancels the one before it.  It resolves the head its receipts name
\* (_head_for_receipts) before anything is reviewed.
StartJob ==
    /\ jobs < MaxJobs
    /\ jobs' = jobs + 1
    /\ at' \in {0, head}
    /\ branch' = [s \in Seats |-> IF s \in configured THEN Branch("starting", 0, Started) ELSE Idle]
    /\ UNCHANGED <<comments, configured, reviewed>>

\* _post_branch_header; a header that does not get through has no receipt.
PostHeader(s) ==
    /\ branch[s].step = "starting"
    /\ \/ /\ comments' = Append(comments, Receipt(s, Started))
          /\ branch' = [branch EXCEPT ![s] = Branch("reviewing", Len(comments) + 1, Started)]
       \/ /\ branch' = [branch EXCEPT ![s] = Branch("reviewing", 0, Started)]
          /\ UNCHANGED comments
    /\ UNCHANGED <<jobs, at, configured, reviewed>>

\* The branch reviews the tree it finds, or fails.
Reviews(s) ==
    /\ branch[s].step = "reviewing"
    /\ \E of \in Outcomes :
          /\ branch' = [branch EXCEPT ![s] = Branch("finalizing", @.comment, of)]
          /\ reviewed' = reviewed \cup
                (IF of = Review THEN {[seat |-> s, tree |-> head]} ELSE {})
    /\ UNCHANGED <<jobs, at, comments, configured>>

\* _finalize_branch_header, if the header has an id and the edit gets through.
Finalize(s) ==
    /\ branch[s].step = "finalizing"
    /\ branch' = [branch EXCEPT ![s] = Idle]
    /\ \/ UNCHANGED comments
       \/ /\ branch[s].comment # 0
          /\ comments' = [comments EXCEPT ![branch[s].comment] = Receipt(s, branch[s].of)]
    /\ UNCHANGED <<jobs, at, configured, reviewed>>

\* Somebody else's comment that repeats a receipt.
Quote ==
    /\ \E i \in DOMAIN comments :
          /\ \A j \in DOMAIN comments : comments[j].by = "fuko"
          /\ comments' = Append(comments, [comments[i] EXCEPT !.by = "other"])
    /\ UNCHANGED <<jobs, at, branch, configured, reviewed>>

Retire(s) ==
    /\ configured' = configured \ {s}
    /\ UNCHANGED <<jobs, at, branch, comments, reviewed>>

ReceiptsStep ==
    \/ StartJob \/ Quote
    \/ \E s \in Seats : PostHeader(s) \/ Reviews(s) \/ Finalize(s) \/ Retire(s)

-----------------------------------------------------------------------------
\* _receipt_author_allowed.
AuthorAllowed(c) == c.by = "fuko"

\* fuko_states: the newest receipt of each label, from the comments fetched.
NewestOf(fetched, label) ==
    LET mine == {i \in DOMAIN fetched : AuthorAllowed(fetched[i]) /\ LabelOf[fetched[i].seat] = label}
    IN {fetched[i] : i \in {i \in mine : \A j \in mine : j <= i}}

\* Mutant: the state alone is believed.
StateAlone(of) == of.state = "done"  \* mutant

receipt_is_valid(of) == of.state = "done" /\ of.own

\* _configured_seat_labels, of a configuration that could be read.
configured_seat_labels == {LabelOf[s] : s \in configured} \cup Backups

\* The row of a receipt on a head; known is the configuration's labels, empty
\* when there is no configuration to compare with.
RowState(r, on, known) ==
    IF known # {} /\ LabelOf[r.seat] \notin known THEN "superseded"
    ELSE IF r.head # on THEN "pending"
    ELSE IF r.of.state = "failed" THEN "unavailable"
    ELSE IF r.of.state = "in_progress" THEN "in_progress"
    ELSE IF ~receipt_is_valid(r.of) \/ ~r.of.whole THEN "degraded"
    ELSE "done"

fuko_states(fetched, on, known) ==
    UNION {{[label |-> l, state |-> RowState(r, on, known)] : r \in NewestOf(fetched, l)} :
           l \in {LabelOf[s] : s \in Seats}}

=============================================================================

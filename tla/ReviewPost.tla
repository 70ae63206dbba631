----------------------------- MODULE ReviewPost -----------------------------
(***************************************************************************)
(* The posting of an agentic review: normalize_output, _post_review,       *)
(* _send_review and _review_already_posted of sidecar/backends/agentic.py, *)
(* by the branches of one run on one head of one pull request.  Each       *)
(* branch has a backend instance, hence a stash, of its own.               *)
(*                                                                         *)
(* POST /pulls/{n}/reviews is not idempotent and its answer can be lost.   *)
(* A post is identified by <<branch, body, attempt>>: which branch sent    *)
(* it, with inline comments or body-only, and at which attempt.            *)
(***************************************************************************)
EXTENDS Naturals, FiniteSets

CONSTANTS
    Branches,
    Labellings,         \* the labels a run may meet: `of' each branch, in the
                        \* header of its review (two entries may name the
                        \* same provider and model), and those `before', on
                        \* reviews an earlier run left on this head
    POST_ATTEMPTS

Bodies == {"inline", "body-only"}

Posts == Branches \X Bodies \X (1..POST_ATTEMPTS)
By(p) == p[1]

ASSUME PostConstants ==
    /\ POST_ATTEMPTS \in Nat \ {0}
    /\ IsFiniteSet(Branches)

VARIABLES
    labels,         \* the labels of this run, which never change
    posted,         \* posts committed to the pull request
    pending,        \* posts whose answer was given up and that may yet commit
    late,           \* history: posts that were committed that way
    pc,             \* where a branch is
    body,           \* what it is sending
    attempt,        \* the attempt of the current _send_review
    signals         \* the branch reported its findings as posted

vars == <<labels, posted, pending, late, pc, body, attempt, signals>>

Label(b) == labels.of[b]
Earlier == labels.before

Init ==
    /\ labels \in Labellings
    /\ posted = {}
    /\ pending = {}
    /\ late = {}
    /\ pc = [b \in Branches |-> "claim"]
    /\ body = [b \in Branches |-> "inline"]
    /\ attempt = [b \in Branches |-> 1]
    /\ signals = [b \in Branches |-> FALSE]

Goto(b, l) == pc' = [pc EXCEPT ![b] = l]

\* normalize_output returns: the signals, or none.
Reports(b, landed) ==
    /\ Goto(b, "over")
    /\ signals' = [signals EXCEPT ![b] = landed]

Current(b) == <<b, body[b], attempt[b]>>

-----------------------------------------------------------------------------

\* The stash is claimed and rendered; without an inline comment the payload
\* is body-only from the start.  A branch without a stash posts nothing.
Claim(b) ==
    /\ pc[b] = "claim"
    /\ \/ /\ Goto(b, "send")
          /\ body' \in {[body EXCEPT ![b] = k] : k \in Bodies}
          /\ UNCHANGED signals
       \/ Reports(b, FALSE) /\ UNCHANGED body
    /\ UNCHANGED <<posted, pending, late, attempt>>

\* The shared deadline has passed before this attempt.
OutOfTime(b) ==
    /\ pc[b] = "send"
    /\ Reports(b, FALSE)
    /\ UNCHANGED <<posted, pending, late, body, attempt>>

\* A 2xx.
Accepted(b) ==
    /\ pc[b] = "send"
    /\ posted' = posted \cup {Current(b)}
    /\ Reports(b, TRUE)
    /\ UNCHANGED <<pending, late, body, attempt>>

\* A 422 against inline comments: once more, body-only, attempts from one.
Unanchorable(b) ==
    /\ pc[b] = "send"
    /\ body[b] = "inline"
    /\ body' = [body EXCEPT ![b] = "body-only"]
    /\ attempt' = [attempt EXCEPT ![b] = 1]
    /\ UNCHANGED <<posted, pending, late, pc, signals>>

\* Any other refusal is final.
Refused(b) ==
    /\ pc[b] = "send"
    /\ Reports(b, FALSE)
    /\ UNCHANGED <<posted, pending, late, body, attempt>>

NextAttemptForEver(b) == UNCHANGED attempt /\ Goto(b, "send") /\ UNCHANGED signals  \* mutant

NextAttemptOneMore(b) ==                                                \* mutant
    IF attempt[b] > POST_ATTEMPTS
    THEN Reports(b, FALSE) /\ UNCHANGED attempt
    ELSE /\ attempt' = [attempt EXCEPT ![b] = attempt[b] + 1]
         /\ Goto(b, "send")
         /\ UNCHANGED signals

\* The next attempt, or the end of them.
NextAttempt(b) ==
    IF attempt[b] = POST_ATTEMPTS
    THEN Reports(b, FALSE) /\ UNCHANGED attempt
    ELSE /\ attempt' = [attempt EXCEPT ![b] = attempt[b] + 1]
         /\ Goto(b, "send")
         /\ UNCHANGED signals

\* The connection was never made: nothing can have been committed.
Unreached(b) ==
    /\ pc[b] = "send"
    /\ NextAttempt(b)
    /\ UNCHANGED <<posted, pending, late, body>>

\* A gateway status or a lost answer: the post has been committed, or has not,
\* or will be.
Ambiguous(b) ==
    /\ pc[b] = "send"
    /\ \/ posted' = posted \cup {Current(b)} /\ UNCHANGED pending
       \/ UNCHANGED <<posted, pending>>
       \/ pending' = pending \cup {Current(b)} /\ UNCHANGED posted
    /\ Goto(b, "readback")
    /\ UNCHANGED <<late, body, attempt, signals>>

CommitsLate(p) ==
    /\ p \in pending
    /\ pending' = pending \ {p}
    /\ posted' = posted \cup {p}
    /\ late' = late \cup {p}
    /\ UNCHANGED <<pc, body, attempt, signals>>

-----------------------------------------------------------------------------
(* The read-back *)

AnyReview(b) == posted # {} \/ Earlier # {}                             \* mutant

\* A review of this head whose body carries this branch's header.
Fingerprint(b) ==
    \/ \E p \in posted : Label(By(p)) = Label(b)
    \/ Label(b) \in Earlier

\* What _review_already_posted answers: the read may error, run out of pages
\* or run out of time.
OptimisticAnswers(b) ==                                                 \* mutant
    IF Fingerprint(b) THEN {"yes", "no"} ELSE {"no"}

Answers(b) == {IF Fingerprint(b) THEN "yes" ELSE "no", "unknown"}

ReadBack(b) ==
    /\ pc[b] = "readback"
    /\ \E answer \in Answers(b) :
          \/ answer = "yes" /\ Reports(b, TRUE) /\ UNCHANGED attempt
          \/ answer = "unknown" /\ Reports(b, FALSE) /\ UNCHANGED attempt
          \/ answer = "no" /\ NextAttempt(b)
    /\ UNCHANGED <<posted, pending, late, body>>

\* The job is killed.
Killed(b) ==
    /\ pc[b] # "over"
    /\ Goto(b, "over")
    /\ UNCHANGED <<posted, pending, late, body, attempt, signals>>

Step(b) ==
    /\ \/ Claim(b) \/ OutOfTime(b) \/ Accepted(b) \/ Unanchorable(b) \/ Refused(b)
       \/ Unreached(b) \/ Ambiguous(b) \/ ReadBack(b)
    /\ UNCHANGED labels

Next ==
    \/ \E b \in Branches : Step(b)
    \/ \E b \in Branches : Killed(b) /\ UNCHANGED labels
    \/ \E p \in Posts : CommitsLate(p) /\ UNCHANGED labels

Spec == Init /\ [][Next]_vars

\* Branches are threads, and every request has a timeout.
FairSpec == Spec /\ \A b \in Branches : WF_vars(Step(b))

-----------------------------------------------------------------------------
(* Properties *)

\* Variables have their types; no attempt is made past the budget.
TypeOK ==
    /\ labels \in Labellings
    /\ posted \subseteq Posts
    /\ pending \subseteq Posts
    /\ late \subseteq Posts
    /\ pc \in [Branches -> {"claim", "send", "readback", "over"}]
    /\ body \in [Branches -> Bodies]
    /\ attempt \in [Branches -> 1..POST_ATTEMPTS]
    /\ signals \in [Branches -> BOOLEAN]

\* _send_review: a branch's review is never on the pull request twice, whatever
\* is lost and however often it retries, the body-only degradation included --
\* but for a post that is committed after its answer was given up, which no
\* read-back made before that can see.
PostedOnce == \A p, q \in posted \ late : By(p) = By(q) => p = q

Twins(b) == {c \in Branches \ {b} : Label(c) = Label(b)}
HasPosted(b) == \E p \in posted : By(p) = b

\* normalize_output: a branch that reports its findings as posted has its own
\* review on the pull request.  The read-back knows a review by its label only,
\* so nothing but a review with the same label can have stood in for it: of
\* another branch, or of an earlier run on this head.
SignalsArePosted ==
    \A b \in Branches :
        signals[b] => \/ HasPosted(b)
                      \/ \E c \in Twins(b) : HasPosted(c)
                      \/ Label(b) \in Earlier

\* What the read-back says of itself: a sibling's review cannot satisfy it
\* (agentic.py:1716-1717), so that what is reported is one's own review.  It is
\* not so where labels are shared.
ReportsItsOwn == \A b \in Branches : signals[b] => HasPosted(b)

\* The posting flow ends: attempts are bounded, and the degradation happens
\* once.
PostingEnds == \A b \in Branches : pc[b] = "send" ~> pc[b] = "over"
=============================================================================

----------------------------- MODULE BotReviews -----------------------------
(***************************************************************************)
(* The external reviewers, and what status.py concludes from what they leave *)
(* on a pull request.  CodeRabbit is modelled from what status.py records of  *)
(* it: a summary comment it rewrites in place, whose range line is bumped to  *)
(* the newest head whether or not that head is read; a notice in it while the *)
(* bot is throttled, paused or scanning; and completion signals (a check-run, *)
(* a review on the head) that also appear for heads it did not read.         *)
(***************************************************************************)
EXTENDS PullRequest

VARIABLES
    delimited,  \* whether the summary delimits the result of its last review
    summary,    \* the summary comment
    reply,      \* the notice in an old comment of CodeRabbit's, never rewritten
    reviews,    \* submitted reviews: the head, and what the body is
    check,      \* head |-> its check-run
    read,       \* the heads CodeRabbit has read
    owed,       \* what it has still to publish for the head it worked on
    copilot     \* the heads Copilot reviewed, and its quota notice

botVars == <<delimited, summary, reply, reviews, check, read, owed, copilot>>

\* range: the head its range line names, 0 when there is no summary yet;
\* block: the head the delimited result names; marker: a result without a
\* delimiter; notice: what it says of the bot itself.
NoSummary == [range |-> 0, block |-> 0, marker |-> FALSE, notice |-> "none"]
NothingOwed == [on |-> 0, what |-> {}]

Notices == {"none", "limit", "pause", "scanning"}
Summaries == [range : 0..Heads, block : 0..Heads, marker : BOOLEAN, notice : Notices]
Submitted == [on : 1..Heads, body : {"prose", "empty", "notice"}]
Debts == [on : 0..Heads, what : SUBSET {"review", "summary", "check", "acknowledgement"}]
Checks == {"none", "running", "completed"}
Engaged == [on : SUBSET (1..Heads), quota : BOOLEAN]

BotsTypeOK ==
    /\ delimited \in BOOLEAN
    /\ summary \in Summaries /\ reply \in Notices
    /\ reviews \subseteq Submitted
    /\ check \in [1..Heads -> Checks]
    /\ read \subseteq 1..Heads
    /\ owed \in Debts /\ (owed.what # {} => owed.on # 0)
    /\ copilot \in Engaged

BotsInit ==
    /\ delimited \in BOOLEAN
    /\ summary = NoSummary /\ reply \in {"none", "limit"}
    /\ reviews = {}
    /\ check = [n \in 1..Heads |-> "none"]
    /\ read = {} /\ owed = NothingOwed
    /\ copilot = [on |-> {}, quota |-> FALSE]

Rewritten(notice, keeps) ==
    [summary EXCEPT !.range = head, !.notice = notice, !.marker = @ /\ keeps]

-----------------------------------------------------------------------------
\* It begins to scan the head, also one it was throttled on.
Scans ==
    /\ owed.what = {} /\ head \notin read
    /\ summary' = Rewritten("scanning", FALSE)
    /\ check' = [check EXCEPT ![head] = "running"] \/ (check[head] = "none" /\ UNCHANGED check)
    /\ UNCHANGED <<delimited, reply, reviews, read, owed, copilot>>

\* A rapid push: the range line moves to a head it never engages.
Skips ==
    /\ owed.what = {} /\ summary.range < head
    /\ summary' = Rewritten("none", FALSE)
    /\ UNCHANGED <<delimited, reply, reviews, check, read, owed, copilot>>

\* A head it may not read, or is paused on: the last round's result stays in
\* the summary, beside the notice; completion signals may follow (bound: one
\* acknowledgement per head).
Declines ==
    /\ owed.what = {} /\ head \notin read /\ check[head] # "running"
    /\ \E notice \in {"limit", "pause"} : summary' = Rewritten(notice, TRUE)
    /\ \E signals \in SUBSET {"acknowledgement", "check"} :
          /\ ("acknowledgement" \in signals) => \A r \in reviews : r.on # head
          /\ owed' = [on |-> head, what |-> signals]
    /\ UNCHANGED <<delimited, reply, reviews, check, read, copilot>>

Reads ==
    /\ owed.what = {} /\ summary.range = head /\ summary.notice = "scanning"
    /\ read' = read \cup {head}
    /\ \E review \in SUBSET {"review"} :
          owed' = [on |-> head, what |-> review \cup {"summary"} \cup
                      (IF check[head] = "running" THEN {"check"} ELSE {})]
    /\ UNCHANGED <<delimited, summary, reply, reviews, check, copilot>>

Submits(bodies) == \E b \in bodies : reviews' = reviews \cup {[on |-> owed.on, body |-> b]}

\* One signal at a time; an automatic pause may follow the review.
Publishes ==
    \E what \in owed.what :
        /\ owed' = [owed EXCEPT !.what = @ \ {what}]
        /\ IF what = "summary"
           THEN \E notice \in {"none", "pause"} :
                   summary' = [summary EXCEPT !.notice = notice,
                                 !.block = IF delimited THEN owed.on ELSE 0, !.marker = ~delimited]
           ELSE UNCHANGED summary
        /\ CASE what = "review" -> Submits({"prose", "empty"})
             [] what = "acknowledgement" -> Submits({"empty", "notice"})
             [] OTHER -> UNCHANGED reviews
        /\ check' = IF what = "check" THEN [check EXCEPT ![owed.on] = "completed"] ELSE check
        /\ UNCHANGED <<delimited, reply, read, copilot>>

CopilotReviews ==
    /\ \/ copilot' = [copilot EXCEPT !.on = @ \cup {head}]
       \/ copilot' = [copilot EXCEPT !.quota = TRUE]
    /\ UNCHANGED <<delimited, summary, reply, reviews, check, read, owed>>

CodeRabbitStep == Scans \/ Skips \/ Declines \/ Reads \/ Publishes

-----------------------------------------------------------------------------
\* What follows reads a snapshot of these: s.summary, s.reply, s.reviews,
\* s.check (the check-run of the head asked about), s.copilot.
IsNotice(notice) == notice \in {"limit", "pause"}

\* Mutant: a result anywhere in the summary speaks for the head.
AnyMarker(body, on) == body.block # 0 \/ body.marker  \* mutant

\* _cr_marker_covers_head.
MarkerCovers(body, on) ==
    IF body.block # 0 THEN body.block = on ELSE body.marker /\ ~IsNotice(body.notice)

ReviewOn(s, on) == \E r \in s.reviews : r.on = on
WalkOn(s, on) == on \in {s.summary.range, s.summary.block}

marker_on_head(s, on) == (WalkOn(s, on) \/ ReviewOn(s, on)) /\ MarkerCovers(s.summary, on)

body_on_head(s, on) == \E r \in s.reviews : r.on = on /\ r.body = "prose"

with_content(s, on) == marker_on_head(s, on) \/ body_on_head(s, on)

\* Mutant: content does not outrank a notice.
DemotesAlways(s, on) ==
    LET notice == IF s.summary.range # 0 THEN s.summary.notice ELSE s.reply
    IN CASE notice = "limit" -> "rate_limited" [] notice = "pause" -> "paused"
         [] notice = "scanning" -> "in_progress" [] OTHER -> "done"  \* mutant

\* _cr_demotion, over a completion: by the summary's notice when there is a
\* summary, else by that of any comment.
Demotion(s, on) ==
    LET notice == IF s.summary.range # 0 THEN s.summary.notice ELSE s.reply
    IN IF with_content(s, on) THEN "done"
       ELSE CASE notice = "limit" -> "rate_limited" [] notice = "pause" -> "paused"
              [] notice = "scanning" -> "in_progress" [] OTHER -> "done"

\* The head is not completed: what the bot's comments say.
Transient(s) ==
    IF "limit" \in {s.summary.notice, s.reply} THEN "rate_limited"
    ELSE CASE s.summary.notice = "pause" -> "paused"
           [] s.summary.notice = "scanning" -> "in_progress"
           [] OTHER -> "pending"

coderabbit_state(s, on) ==
    IF s.summary = NoSummary /\ s.reply = "none" /\ s.reviews = {} /\ s.check = "none" THEN "none"
    ELSE IF s.check = "running" THEN "in_progress"
    ELSE IF s.check = "none" /\ ~ReviewOn(s, on) /\ ~(WalkOn(s, on) /\ marker_on_head(s, on)) THEN Transient(s)
    ELSE Demotion(s, on)

copilot_state(s, on) ==
    IF on \in s.copilot.on THEN "done"
    ELSE IF s.copilot.quota THEN "unavailable"
    ELSE IF s.copilot.on = {} THEN "none"
    ELSE "pending"

=============================================================================

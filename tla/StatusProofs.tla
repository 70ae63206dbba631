---------------------------- MODULE StatusProofs -----------------------------
(***************************************************************************)
(* Proofs about `fuko status`: what its rows say of seats and of CodeRabbit  *)
(* holds of a pull request of any number of heads, jobs and seats.          *)
(***************************************************************************)
EXTENDS Status, TLAPS

\* What vouches for a receipt: the seat reviewed its head or a newer one.
Vouched(s, h) == \E r \in reviewed : r.seat = s /\ r.tree >= h

VouchedFor(list) == \A i \in DOMAIN list : list[i].of = Review => Vouched(list[i].seat, list[i].head)
ReceiptsReal ==
    /\ VouchedFor(comments) /\ VouchedFor(poll.comments)
    /\ \A s \in Seats : branch[s].of = Review => Vouched(s, at)

\* The summary's range line leads: what was read, reviewed or is owed is no
\* newer.
RangeLeads ==
    /\ summary.range <= head
    /\ \A n \in read : n <= summary.range
    /\ \A r \in reviews : r.on <= summary.range
    /\ owed.what # {} => owed.on = summary.range

\* Content, whether a result or prose, is of heads that were read; a result
\* without a delimiter is of the head in the range line, unless a notice is
\* beside it.
BodyHonest(body) ==
    /\ body.block # 0 => body.block \in read
    /\ IF delimited THEN ~body.marker ELSE body.block = 0
    /\ body.marker /\ ~IsNotice(body.notice) => body.range \in read
ProseHonest(list) == \A r \in list : r.body = "prose" => r.on \in read
ContentHonest ==
    /\ "review" \in owed.what \/ "summary" \in owed.what => owed.on \in read
    /\ ProseHonest(reviews) /\ BodyHonest(summary)

\* A head that is read is scanned and run no more, once the summary and the
\* check-run that are owed for it are out; then its result is in the summary.
ResultOn(body, n) ==
    /\ body.range = n
    /\ IF delimited THEN body.block = n ELSE body.marker
Settled ==
    /\ summary.range \in read /\ "summary" \notin owed.what =>
          ResultOn(summary, summary.range) /\ summary.notice # "scanning"
    /\ \A n \in read : check[n] = "running" => owed.on = n /\ "check" \in owed.what

BotsInv == RangeLeads /\ ContentHonest /\ Settled

\* What the poll has fetched.
PollHonest ==
    /\ ProseHonest(poll.reviews) /\ BodyHonest(poll.summary)
    /\ poll.steady => \A r \in poll.reviews : r.on <= poll.summary.range
    /\ poll.declined => poll.summary.range = poll.head /\ IsNotice(poll.summary.notice)
    /\ poll.step \in {"head", "comments"} => ~poll.declined /\ ~poll.steady
    /\ poll.step # "head" => poll.head # 0

LastWord(list, s, h) ==
    \E i \in DOMAIN list :
        /\ list[i] = [by |-> "fuko", seat |-> s, head |-> h, of |-> Review]
        /\ \A j \in DOMAIN list : list[j].by = "fuko" /\ list[j].seat = s => j <= i

\* Whom the command saw finished stays so until a job or a push.
SeatsSettled ==
    /\ poll.step # "head" => poll.jobs <= jobs
    /\ \A s \in poll.done \cap Seats :
          IF poll.step # "comments" THEN LastWord(poll.comments, s, poll.head)
          ELSE poll.jobs = jobs => /\ \A t \in Seats : branch[t] = Idle
                                   /\ LastWord(comments, s, poll.head)
    /\ poll.known = {} \/ \A s \in configured : LabelOf[s] \in poll.known
CodeRabbitSettled ==
    /\ poll.step # "rows" => poll.check = "none"
    /\ "coderabbit" \in poll.done =>
        /\ poll.head \in read /\ check[poll.head] # "running" /\ poll.check # "running"
        /\ IF poll.step # "comments" THEN ResultOn(poll.summary, poll.head)
           ELSE head = poll.head => owed.what = {}
CopilotSettled ==
    "copilot" \in poll.done =>
        poll.head \in (IF poll.step \in {"comments", "reviews"} THEN copilot ELSE poll.copilot).on

StatusInv ==
    /\ TypeOK /\ ReceiptsReal /\ BotsInv
    /\ PollHonest /\ SeatsSettled /\ CodeRabbitSettled /\ CopilotSettled

-----------------------------------------------------------------------------
(* Types *)

LEMMA MarkTypes == Started \in Marks /\ Review \in Outcomes /\ Outcomes \subseteq Marks /\ Started # Review
  BY DEF Marks, Outcomes, Started, Review, Failure

LEMMA BranchTypes ==
    ASSUME NEW step \in {"idle", "starting", "reviewing", "finalizing"}, NEW c \in Nat, NEW of \in Marks
    PROVE  /\ Branch(step, c, of) \in Branches
           /\ Branch(step, c, of).step = step /\ Branch(step, c, of).comment = c /\ Branch(step, c, of).of = of
  BY DEF Branch, Branches

LEMMA IdleTypes == Idle \in Branches /\ Idle.step = "idle" /\ Idle.comment = 0 /\ Idle.of = Started
  BY MarkTypes, BranchTypes DEF Idle

LEMMA BranchFields ==
    ASSUME NEW b \in Branches
    PROVE  b.step \in {"idle", "starting", "reviewing", "finalizing"} /\ b.comment \in Nat /\ b.of \in Marks
  BY DEF Branches

LEMMA ReceiptTypes ==
    ASSUME NEW s \in Seats, NEW of \in Marks, at \in 0..Heads
    PROVE  /\ Receipt(s, of) \in Receipts
           /\ Receipt(s, of).by = "fuko" /\ Receipt(s, of).seat = s
           /\ Receipt(s, of).head = at /\ Receipt(s, of).of = of
  BY DEF Receipt, Receipts

LEMMA ReceiptFields ==
    ASSUME NEW c \in Receipts
    PROVE  c.by \in {"fuko", "other"} /\ c.seat \in Seats /\ c.head \in 0..Heads /\ c.of \in Marks
  BY DEF Receipts

\* A copy of a receipt by somebody else.
Copied(c) == [c EXCEPT !.by = "other"]
LEMMA CopiedTypes ==
    ASSUME NEW c \in Receipts
    PROVE  /\ Copied(c) \in Receipts /\ Copied(c).by = "other"
           /\ Copied(c).seat = c.seat /\ Copied(c).head = c.head /\ Copied(c).of = c.of
  BY DEF Copied, Receipts

LEMMA QuoteDoes ==
    ASSUME Quote
    PROVE  /\ \E i \in DOMAIN comments : comments' = Append(comments, Copied(comments[i]))
           /\ UNCHANGED <<jobs, at, branch, configured, reviewed>>
  BY DEF Quote, Copied

LEMMA AppendDoes ==
    ASSUME NEW S, NEW list \in Seq(S), NEW x \in S
    PROVE  /\ Append(list, x) \in Seq(S) /\ Len(list) \in Nat
           /\ DOMAIN list = 1..Len(list) /\ DOMAIN Append(list, x) = 1..(Len(list) + 1)
           /\ \A i \in 1..Len(list) : Append(list, x)[i] = list[i]
           /\ Append(list, x)[Len(list) + 1] = x
  OBVIOUS

LEMMA RewriteDoes ==
    ASSUME NEW S, NEW list \in Seq(S), NEW x \in S, NEW n \in DOMAIN list
    PROVE  /\ [list EXCEPT ![n] = x] \in Seq(S) /\ DOMAIN [list EXCEPT ![n] = x] = DOMAIN list
           /\ \A i \in DOMAIN list : [list EXCEPT ![n] = x][i] = IF i = n THEN x ELSE list[i]
  OBVIOUS

OwnHeaders ==
    \A s \in Seats : branch[s].comment # 0 =>
        /\ branch[s].comment \in DOMAIN comments
        /\ comments[branch[s].comment].by = "fuko" /\ comments[branch[s].comment].seat = s

LEMMA ReceiptsTypeStep ==
    ASSUME head \in 1..Heads, ReceiptsTypeOK, ReceiptsStep, UNCHANGED head
    PROVE  ReceiptsTypeOK'
  <1>0. /\ Heads \in Nat /\ MaxJobs \in Nat /\ head \in Nat /\ 0 \in 0..head
        /\ head \in 0..head /\ at \in 0..Heads /\ head' = head
    BY StatusAssumption DEF ReceiptsTypeOK
  <1>1. /\ branch \in [Seats -> Branches] /\ comments \in Seq(Receipts) /\ OwnHeaders
        /\ jobs \in 0..MaxJobs /\ at \in 0..head /\ configured \subseteq Seats
        /\ reviewed \subseteq [seat : Seats, tree : 1..Heads]
    BY DEF ReceiptsTypeOK, OwnHeaders
  <1>2. ASSUME branch' \in [Seats -> Branches], comments' \in Seq(Receipts), OwnHeaders',
               jobs' \in 0..MaxJobs, at' \in 0..head, configured' \subseteq Seats,
               reviewed' \subseteq [seat : Seats, tree : 1..Heads]
        PROVE  ReceiptsTypeOK'
    BY <1>0, <1>2 DEF ReceiptsTypeOK, OwnHeaders
  <1>3. CASE StartJob
    <2>1. /\ jobs' = jobs + 1 /\ jobs < MaxJobs /\ at' \in {0, head}
          /\ branch' = [s \in Seats |-> IF s \in configured THEN Branch("starting", 0, Started) ELSE Idle]
          /\ UNCHANGED <<comments, configured, reviewed>>
      BY <1>3 DEF StartJob
    <2>2. \A s \in Seats : branch'[s] \in Branches /\ branch'[s].comment = 0
      BY <2>1, BranchTypes, MarkTypes, IdleTypes
    <2>3. branch' \in [Seats -> Branches]
      BY <2>1, <2>2
    <2>4. OwnHeaders'
      BY <2>2 DEF OwnHeaders
    <2>5. QED
      BY <1>0, <1>1, <1>2, <2>1, <2>3, <2>4
  <1>4. CASE Quote
    <2>1. /\ UNCHANGED <<jobs, at, branch, configured, reviewed>>
          /\ \E i \in DOMAIN comments : comments' = Append(comments, Copied(comments[i]))
      BY <1>4, QuoteDoes
    <2>2. PICK i \in DOMAIN comments : comments' = Append(comments, Copied(comments[i]))
      BY <2>1
    <2>3. Copied(comments[i]) \in Receipts
      BY <1>1, CopiedTypes
    <2>4. /\ comments' \in Seq(Receipts)
          /\ \A j \in DOMAIN comments : j \in DOMAIN comments' /\ comments'[j] = comments[j]
      BY <1>1, <2>2, <2>3
    <2>5. OwnHeaders'
      BY <1>1, <2>1, <2>4 DEF OwnHeaders
    <2>6. QED
      BY <1>0, <1>1, <1>2, <2>1, <2>4, <2>5
  <1>5. CASE \E s \in Seats : PostHeader(s)
    <2>1. PICK s \in Seats : PostHeader(s)
      BY <1>5
    <2>2. /\ UNCHANGED <<jobs, at, configured, reviewed>>
          /\ \/ /\ comments' = Append(comments, Receipt(s, Started))
                /\ branch' = [branch EXCEPT ![s] = Branch("reviewing", Len(comments) + 1, Started)]
             \/ /\ branch' = [branch EXCEPT ![s] = Branch("reviewing", 0, Started)]
                /\ UNCHANGED comments
      BY <2>1 DEF PostHeader
    <2>3. /\ Receipt(s, Started) \in Receipts
          /\ Receipt(s, Started).by = "fuko" /\ Receipt(s, Started).seat = s
      BY <1>0, MarkTypes, ReceiptTypes
    <2>4. CASE /\ comments' = Append(comments, Receipt(s, Started))
               /\ branch' = [branch EXCEPT ![s] = Branch("reviewing", Len(comments) + 1, Started)]
      <3>1. /\ comments' \in Seq(Receipts) /\ (Len(comments) + 1) \in Nat /\ (Len(comments) + 1) \in DOMAIN comments'
            /\ comments'[(Len(comments) + 1)] = Receipt(s, Started)
            /\ \A j \in DOMAIN comments : j \in DOMAIN comments' /\ comments'[j] = comments[j]
        BY <1>1, <2>3, <2>4, AppendDoes
      <3>2. /\ Branch("reviewing", Len(comments) + 1, Started) \in Branches
            /\ Branch("reviewing", Len(comments) + 1, Started).comment = (Len(comments) + 1)
        BY <3>1, MarkTypes DEF Branch, Branches
      <3>3. OwnHeaders'
        BY <1>1, <2>3, <2>4, <3>1, <3>2 DEF OwnHeaders
      <3>4. QED
        BY <1>0, <1>1, <1>2, <2>2, <2>4, <3>1, <3>2, <3>3
    <2>5. CASE /\ branch' = [branch EXCEPT ![s] = Branch("reviewing", 0, Started)]
               /\ UNCHANGED comments
      <3>1. /\ Branch("reviewing", 0, Started) \in Branches
            /\ Branch("reviewing", 0, Started).comment = 0
        BY BranchTypes, MarkTypes
      <3>2. OwnHeaders'
        BY <1>1, <2>5, <3>1 DEF OwnHeaders
      <3>3. QED
        BY <1>0, <1>1, <1>2, <2>2, <2>5, <3>1, <3>2
    <2>6. QED
      BY <2>2, <2>4, <2>5
  <1>6. CASE \E s \in Seats : Reviews(s)
    <2>1. PICK s \in Seats : Reviews(s)
      BY <1>6
    <2>2. PICK of \in Outcomes :
              /\ branch' = [branch EXCEPT ![s] = Branch("finalizing", @.comment, of)]
              /\ reviewed' = reviewed \cup (IF of = Review THEN {[seat |-> s, tree |-> head]} ELSE {})
      BY <2>1 DEF Reviews
    <2>3. UNCHANGED <<jobs, at, comments, configured>>
      BY <2>1 DEF Reviews
    <2>4. /\ Branch("finalizing", branch[s].comment, of) \in Branches
          /\ Branch("finalizing", branch[s].comment, of).comment = branch[s].comment
      BY <1>1, BranchTypes, BranchFields, MarkTypes
    <2>5. OwnHeaders'
      BY <1>1, <2>2, <2>3, <2>4 DEF OwnHeaders
    <2>6. QED
      BY <1>0, <1>1, <1>2, <2>2, <2>3, <2>4, <2>5
  <1>7. CASE \E s \in Seats : Finalize(s)
    <2>1. PICK s \in Seats : Finalize(s)
      BY <1>7
    <2>2. /\ UNCHANGED <<jobs, at, configured, reviewed>>
          /\ branch' = [branch EXCEPT ![s] = Idle]
          /\ \/ UNCHANGED comments
             \/ /\ branch[s].comment # 0
                /\ comments' = [comments EXCEPT ![branch[s].comment] = Receipt(s, branch[s].of)]
      BY <2>1 DEF Finalize
    <2>3. /\ Receipt(s, branch[s].of) \in Receipts
          /\ Receipt(s, branch[s].of).by = "fuko" /\ Receipt(s, branch[s].of).seat = s
      BY <1>0, <1>1, BranchFields, ReceiptTypes
    <2>4. branch' \in [Seats -> Branches] /\ branch'[s].comment = 0 /\ \A t \in Seats \ {s} : branch'[t] = branch[t]
      BY <1>1, <2>2, IdleTypes
    <2>5. CASE UNCHANGED comments
      <3>1. OwnHeaders'
        BY <1>1, <2>4, <2>5 DEF OwnHeaders
      <3>2. QED
        BY <1>0, <1>1, <1>2, <2>2, <2>4, <2>5, <3>1
    <2>6. CASE /\ branch[s].comment # 0
               /\ comments' = [comments EXCEPT ![branch[s].comment] = Receipt(s, branch[s].of)]
      <3>1. branch[s].comment \in DOMAIN comments
        BY <1>1, <2>6 DEF OwnHeaders
      <3>2. /\ comments' \in Seq(Receipts) /\ DOMAIN comments' = DOMAIN comments
            /\ \A i \in DOMAIN comments :
                  comments'[i] = IF i = branch[s].comment THEN Receipt(s, branch[s].of) ELSE comments[i]
        BY <1>1, <2>3, <2>6, <3>1, RewriteDoes
      <3>3. \A t \in Seats \ {s} : branch[t].comment # 0 => branch[t].comment # branch[s].comment
        BY <1>1, <2>6 DEF OwnHeaders
      <3>4. OwnHeaders'
        BY <1>1, <2>4, <3>2, <3>3 DEF OwnHeaders
      <3>5. QED
        BY <1>0, <1>1, <1>2, <2>2, <2>4, <3>2, <3>4
    <2>7. QED
      BY <2>2, <2>5, <2>6
  <1>8. CASE \E s \in Seats : Retire(s)
    <2>1. configured' \subseteq configured /\ UNCHANGED <<jobs, at, branch, comments, reviewed>>
      BY <1>8 DEF Retire
    <2>2. OwnHeaders'
      BY <1>1, <2>1 DEF OwnHeaders
    <2>3. QED
      BY <1>0, <1>1, <1>2, <2>1, <2>2
  <1>9. QED
    BY <1>3, <1>4, <1>5, <1>6, <1>7, <1>8 DEF ReceiptsStep

LEMMA SummaryFields ==
    ASSUME NEW body \in Summaries
    PROVE  /\ body.range \in 0..Heads /\ body.block \in 0..Heads
           /\ body.marker \in BOOLEAN /\ body.notice \in Notices
  BY DEF Summaries

LEMMA RewrittenTypes ==
    ASSUME summary \in Summaries, head \in 1..Heads, NEW notice \in Notices, NEW keeps \in BOOLEAN
    PROVE  /\ Rewritten(notice, keeps) \in Summaries
           /\ Rewritten(notice, keeps).range = head /\ Rewritten(notice, keeps).block = summary.block
           /\ Rewritten(notice, keeps).notice = notice
           /\ Rewritten(notice, keeps).marker = (summary.marker /\ keeps)
  <1>1. head \in 0..Heads
    BY StatusAssumption
  <1>2. QED
    BY <1>1 DEF Rewritten, Summaries

LEMMA DebtFields ==
    ASSUME NEW d \in Debts
    PROVE  d.on \in 0..Heads /\ d.what \in SUBSET {"review", "summary", "check", "acknowledgement"}
  BY DEF Debts

\* What is owed once one of it is out.
Less(d, what) == [d EXCEPT !.what = @ \ {what}]
LEMMA LessTypes ==
    ASSUME NEW d \in Debts, NEW what
    PROVE  Less(d, what) \in Debts /\ Less(d, what).on = d.on /\ Less(d, what).what = d.what \ {what}
  BY DEF Less, Debts

\* The summary with the result of the head worked on.
WithResult(body, notice) ==
    [body EXCEPT !.notice = notice, !.block = IF delimited THEN owed.on ELSE 0, !.marker = ~delimited]
LEMMA WithResultTypes ==
    ASSUME NEW body \in Summaries, NEW notice \in Notices, delimited \in BOOLEAN, owed \in Debts
    PROVE  /\ WithResult(body, notice) \in Summaries
           /\ WithResult(body, notice).range = body.range /\ WithResult(body, notice).notice = notice
           /\ WithResult(body, notice).block = IF delimited THEN owed.on ELSE 0
           /\ WithResult(body, notice).marker = ~delimited
  <1>1. owed.on \in 0..Heads /\ 0 \in 0..Heads
    BY DebtFields, StatusAssumption
  <1>2. (IF delimited THEN owed.on ELSE 0) \in 0..Heads
    BY <1>1
  <1>3. QED
    BY <1>2 DEF WithResult, Summaries

LEMMA BotsFacts ==
    ASSUME BotsTypeOK, head \in 1..Heads
    PROVE  /\ Heads \in Nat /\ head \in Nat /\ summary \in Summaries
           /\ summary.range \in Nat /\ summary.block \in Nat /\ summary.marker \in BOOLEAN
           /\ summary.notice \in Notices /\ delimited \in BOOLEAN /\ owed \in Debts
           /\ \A n \in read : n \in Nat /\ n \in 1..Heads
           /\ \A r \in reviews : r.on \in Nat /\ r.on \in 1..Heads
  <1>1. Heads \in Nat /\ 1..Heads \subseteq Nat /\ 0..Heads \subseteq Nat
    BY StatusAssumption
  <1>2. /\ summary \in Summaries /\ read \subseteq 1..Heads /\ reviews \subseteq Submitted
        /\ delimited \in BOOLEAN /\ owed \in Debts
    BY DEF BotsTypeOK
  <1>3. \A r \in Submitted : r.on \in 1..Heads
    BY DEF Submitted
  <1>4. QED
    BY <1>1, <1>2, <1>3, SummaryFields

\* The range line moves to the head, which nobody has to publish for.
LEMMA MovesLead ==
    ASSUME BotsTypeOK, head \in 1..Heads, RangeLeads, UNCHANGED <<head, read, reviews>>,
           summary'.range = head, owed'.what # {} => owed'.on = head
    PROVE  RangeLeads'
  <1>1. summary.range <= head /\ \A n \in read : n <= summary.range
    BY DEF RangeLeads
  <1>2. \A r \in reviews : r.on <= summary.range
    BY DEF RangeLeads
  <1>3. (\A n \in read : n <= head) /\ head <= head
    BY <1>1, BotsFacts
  <1>4. \A r \in reviews : r.on <= head
    BY <1>1, <1>2, BotsFacts
  <1>5. QED
    BY <1>3, <1>4 DEF RangeLeads

LEMMA ScansKeeps ==
    ASSUME head \in 1..Heads, BotsTypeOK, BotsInv, Scans, UNCHANGED head
    PROVE  BotsTypeOK' /\ BotsInv'
  <1>1. /\ owed.what = {} /\ head \notin read /\ summary' = Rewritten("scanning", FALSE)
        /\ check' = [check EXCEPT ![head] = "running"] \/ UNCHANGED check
        /\ UNCHANGED <<delimited, reply, reviews, read, owed, copilot>>
    BY DEF Scans
  <1>2. /\ summary' \in Summaries /\ summary'.range = head /\ summary'.block = summary.block
        /\ summary'.notice = "scanning" /\ summary'.marker = FALSE
    BY <1>1, RewrittenTypes DEF BotsTypeOK, Notices
  <1>3. BotsTypeOK'
    BY <1>1, <1>2 DEF BotsTypeOK, Checks
  <1>6. RangeLeads'
    BY <1>1, <1>2, MovesLead DEF BotsInv
  <1>7. ContentHonest'
    BY <1>1, <1>2 DEF BotsInv, ContentHonest, ProseHonest, BodyHonest
  <1>8. \A n \in read : n # head /\ n \in 1..Heads /\ check'[n] = check[n]
    BY <1>1 DEF BotsTypeOK
  <1>9. Settled'
    BY <1>1, <1>2, <1>8 DEF BotsInv, Settled
  <1>10. QED
    BY <1>3, <1>6, <1>7, <1>9 DEF BotsInv

LEMMA SkipsKeeps ==
    ASSUME head \in 1..Heads, BotsTypeOK, BotsInv, Skips, UNCHANGED head
    PROVE  BotsTypeOK' /\ BotsInv'
  <1>1. /\ owed.what = {} /\ summary.range < head /\ summary' = Rewritten("none", FALSE)
        /\ UNCHANGED <<delimited, reply, reviews, check, read, owed, copilot>>
    BY DEF Skips
  <1>2. /\ summary' \in Summaries /\ summary'.range = head /\ summary'.block = summary.block
        /\ summary'.notice = "none" /\ summary'.marker = FALSE
    BY <1>1, RewrittenTypes DEF BotsTypeOK, Notices
  <1>3. BotsTypeOK'
    BY <1>1, <1>2 DEF BotsTypeOK
  <1>6. RangeLeads'
    BY <1>1, <1>2, MovesLead DEF BotsInv
  <1>7. ContentHonest'
    BY <1>1, <1>2 DEF BotsInv, ContentHonest, ProseHonest, BodyHonest
  <1>4. (\A n \in read : n <= summary.range) /\ summary.range \in Nat /\ head \in Nat
    BY BotsFacts DEF BotsInv, RangeLeads
  <1>8. head \notin read
    BY <1>1, <1>4
  <1>9. Settled'
    BY <1>1, <1>2, <1>8 DEF BotsInv, Settled
  <1>10. QED
    BY <1>3, <1>6, <1>7, <1>9 DEF BotsInv

LEMMA DeclinesKeeps ==
    ASSUME head \in 1..Heads, BotsTypeOK, BotsInv, Declines, UNCHANGED head
    PROVE  BotsTypeOK' /\ BotsInv'
  <1>0. PICK notice \in {"limit", "pause"} : summary' = Rewritten(notice, TRUE)
    BY DEF Declines
  <1>1. /\ owed.what = {} /\ head \notin read
        /\ UNCHANGED <<delimited, reply, reviews, check, read, copilot>>
    BY DEF Declines
  <1>a. PICK signals \in SUBSET {"acknowledgement", "check"} : owed' = [on |-> head, what |-> signals]
    BY DEF Declines
  <1>2. /\ summary' \in Summaries /\ summary'.range = head /\ summary'.block = summary.block
        /\ summary'.notice = notice /\ summary'.marker = summary.marker
    BY <1>0, RewrittenTypes, BotsFacts DEF Notices
  <1>b. /\ owed'.on = head /\ owed'.what = signals /\ owed' \in Debts
        /\ "review" \notin signals /\ "summary" \notin signals
    BY <1>a, StatusAssumption DEF Debts
  <1>3. BotsTypeOK'
    BY <1>1, <1>2, <1>b DEF BotsTypeOK
  <1>6. RangeLeads'
    BY <1>1, <1>2, <1>b, MovesLead DEF BotsInv
  <1>7. ContentHonest'
    <2>1. IsNotice(summary'.notice)
      BY <1>2 DEF IsNotice
    <2>2. BodyHonest(summary) /\ ProseHonest(reviews)
      BY DEF BotsInv, ContentHonest
    <2>3. BodyHonest(summary)'
      BY <1>1, <1>2, <2>1, <2>2 DEF BodyHonest
    <2>4. ProseHonest(reviews)'
      BY <1>1, <2>2 DEF ProseHonest
    <2>5. QED
      BY <1>b, <2>3, <2>4 DEF ContentHonest
  <1>9. Settled'
    BY <1>1, <1>2, <1>b DEF BotsInv, Settled
  <1>10. QED
    BY <1>3, <1>6, <1>7, <1>9 DEF BotsInv

LEMMA ReadsKeeps ==
    ASSUME head \in 1..Heads, BotsTypeOK, BotsInv, Reads, UNCHANGED head
    PROVE  BotsTypeOK' /\ BotsInv'
  <1>1. /\ owed.what = {} /\ summary.range = head /\ read' = read \cup {head}
        /\ UNCHANGED <<delimited, summary, reply, reviews, check, copilot>>
    BY DEF Reads
  <1>2. PICK review \in SUBSET {"review"} :
            owed' = [on |-> head, what |-> review \cup {"summary"} \cup
                      (IF check[head] = "running" THEN {"check"} ELSE {})]
    BY DEF Reads
  <1>3. /\ owed'.on = head /\ owed' \in Debts /\ "summary" \in owed'.what
        /\ check[head] = "running" => "check" \in owed'.what
    BY <1>2, StatusAssumption DEF Debts
  <1>4. BotsTypeOK'
    <2>1. owed'.on # 0
      BY <1>3, StatusAssumption
    <2>2. read' \subseteq 1..Heads
      BY <1>1 DEF BotsTypeOK
    <2>3. QED
      BY <1>1, <1>3, <2>1, <2>2 DEF BotsTypeOK
  <1>6. RangeLeads'
    <2>1. /\ \A n \in read : n <= summary.range
          /\ \A r \in reviews : r.on <= summary.range
          /\ head <= head
      BY BotsFacts DEF BotsInv, RangeLeads
    <2>2. QED
      BY <1>1, <1>3, <2>1 DEF RangeLeads
  <1>7. ContentHonest'
    <2>1. BodyHonest(summary) /\ ProseHonest(reviews)
      BY DEF BotsInv, ContentHonest
    <2>2. BodyHonest(summary)' /\ ProseHonest(reviews)'
      BY <1>1, <2>1 DEF BodyHonest, ProseHonest
    <2>3. QED
      BY <1>1, <1>3, <2>2 DEF ContentHonest
  <1>8. \A n \in read : check[n] # "running"
    BY <1>1 DEF BotsInv, Settled
  <1>9. Settled'
    BY <1>1, <1>3, <1>8 DEF Settled
  <1>10. QED
    BY <1>4, <1>6, <1>7, <1>9 DEF BotsInv

LEMMA PublishesDoes ==
    ASSUME NEW what \in owed.what,
           owed' = [owed EXCEPT !.what = @ \ {what}],
           IF what = "summary"
           THEN \E notice \in {"none", "pause"} :
                   summary' = [summary EXCEPT !.notice = notice,
                                 !.block = IF delimited THEN owed.on ELSE 0, !.marker = ~delimited]
           ELSE UNCHANGED summary,
           CASE what = "review" -> Submits({"prose", "empty"})
             [] what = "acknowledgement" -> Submits({"empty", "notice"})
             [] OTHER -> UNCHANGED reviews,
           check' = IF what = "check" THEN [check EXCEPT ![owed.on] = "completed"] ELSE check,
           UNCHANGED <<delimited, reply, read, copilot>>
    PROVE  /\ owed' = Less(owed, what)
           /\ what = "summary" => \E notice \in {"none", "pause"} : summary' = WithResult(summary, notice)
           /\ what # "summary" => summary' = summary
           /\ \/ reviews' = reviews
              \/ \E body \in {"prose", "empty", "notice"} :
                    /\ reviews' = reviews \cup {[on |-> owed.on, body |-> body]}
                    /\ body = "prose" => what = "review"
           /\ what = "check" => check' = [check EXCEPT ![owed.on] = "completed"]
           /\ what # "check" => check' = check
  <1>1. CASE what = "review"
    BY <1>1 DEF Less, Submits
  <1>2. CASE what = "acknowledgement"
    BY <1>2 DEF Less, Submits
  <1>3. CASE what # "review" /\ what # "acknowledgement"
    BY <1>3 DEF Less, WithResult
  <1>4. QED
    BY <1>1, <1>2, <1>3

LEMMA PublishesKeeps ==
    ASSUME head \in 1..Heads, BotsTypeOK, BotsInv, Publishes, UNCHANGED head
    PROVE  BotsTypeOK' /\ BotsInv'
  <1>1. PICK what \in owed.what :
            /\ owed' = [owed EXCEPT !.what = @ \ {what}]
            /\ IF what = "summary"
               THEN \E notice \in {"none", "pause"} :
                       summary' = [summary EXCEPT !.notice = notice,
                                     !.block = IF delimited THEN owed.on ELSE 0, !.marker = ~delimited]
               ELSE UNCHANGED summary
            /\ CASE what = "review" -> Submits({"prose", "empty"})
                 [] what = "acknowledgement" -> Submits({"empty", "notice"})
                 [] OTHER -> UNCHANGED reviews
            /\ check' = IF what = "check" THEN [check EXCEPT ![owed.on] = "completed"] ELSE check
            /\ UNCHANGED <<delimited, reply, read, copilot>>
    BY Zenon DEF Publishes
  <1>2. /\ owed' = Less(owed, what)
        /\ what = "summary" => \E notice \in {"none", "pause"} : summary' = WithResult(summary, notice)
        /\ what # "summary" => summary' = summary
        /\ \/ reviews' = reviews
           \/ \E body \in {"prose", "empty", "notice"} :
                 /\ reviews' = reviews \cup {[on |-> owed.on, body |-> body]}
                 /\ body = "prose" => what = "review"
        /\ what = "check" => check' = [check EXCEPT ![owed.on] = "completed"]
        /\ what # "check" => check' = check
        /\ UNCHANGED <<delimited, reply, read, copilot>>
    BY <1>1, PublishesDoes
  <1>3. /\ owed' \in Debts /\ owed'.on = owed.on /\ owed'.what = owed.what \ {what}
        /\ owed.on \in 1..Heads /\ owed.on # 0 /\ owed.on = summary.range /\ owed.on <= owed.on
        /\ "review" \in owed.what \/ "summary" \in owed.what => owed.on \in read
    <2>1. owed'.on = owed.on /\ owed'.what = owed.what \ {what} /\ owed' \in Debts
      BY <1>2, BotsFacts, LessTypes
    <2>2. owed.on \in 0..Heads /\ owed.on # 0
      BY <1>1, BotsFacts, DebtFields DEF BotsTypeOK
    <2>3. owed.on \in 1..Heads /\ owed.on <= owed.on
      BY <2>2, StatusAssumption
    <2>4. QED
      BY <1>1, <2>1, <2>2, <2>3 DEF BotsInv, RangeLeads, ContentHonest
  <1>4. \/ what # "summary" /\ summary' = summary
        \/ /\ what = "summary" /\ summary' \in Summaries /\ summary'.range = owed.on
           /\ summary'.notice \in {"none", "pause"}
           /\ summary'.block = (IF delimited THEN owed.on ELSE 0) /\ summary'.marker = ~delimited
    <2>1. CASE what = "summary"
      <3>1. PICK notice \in {"none", "pause"} : summary' = WithResult(summary, notice)
        BY <1>2, <2>1
      <3>2. notice \in Notices
        BY DEF Notices
      <3>3. QED
        BY <1>3, <2>1, <3>1, <3>2, BotsFacts, WithResultTypes
    <2>2. QED
      BY <1>2, <2>1
  <1>5. \A r \in reviews' : \/ r \in reviews
                            \/ r.on = owed.on /\ (r.body = "prose" => what = "review")
    <2>1. CASE reviews' = reviews
      BY <2>1
    <2>2. ASSUME NEW body \in {"prose", "empty", "notice"},
                 reviews' = reviews \cup {[on |-> owed.on, body |-> body]}, body = "prose" => what = "review"
          PROVE  \A r \in reviews' : \/ r \in reviews
                                     \/ r.on = owed.on /\ (r.body = "prose" => what = "review")
      BY <2>2
    <2>3. QED
      BY <1>2, <2>1, <2>2
  <1>6. BotsTypeOK'
    <2>1. reviews' \subseteq Submitted
      BY <1>2, <1>3 DEF BotsTypeOK, Submitted
    <2>2. check' \in [1..Heads -> Checks]
      BY <1>2, <1>3 DEF BotsTypeOK, Checks
    <2>3. summary' \in Summaries
      BY <1>4 DEF BotsTypeOK
    <2>4. owed'.what # {} => owed'.on # 0
      BY <1>3
    <2>5. QED
      BY <1>2, <1>3, <2>1, <2>2, <2>3, <2>4 DEF BotsTypeOK
  <1>7. RangeLeads'
    <2>1. summary'.range = summary.range
      BY <1>3, <1>4
    <2>2. \A r \in reviews' : r.on <= summary.range
      BY <1>3, <1>5 DEF BotsInv, RangeLeads
    <2>3. QED
      BY <1>2, <1>3, <2>1, <2>2 DEF BotsInv, RangeLeads
  <1>8. ContentHonest'
    <2>1. ProseHonest(reviews)'
      BY <1>1, <1>2, <1>3, <1>5 DEF BotsInv, ContentHonest, ProseHonest
    <2>2. BodyHonest(summary)'
      <3>1. CASE what # "summary"
        BY <1>2, <1>4, <3>1 DEF BotsInv, ContentHonest, BodyHonest
      <3>2. CASE what = "summary"
        <4>1. delimited \in BOOLEAN /\ delimited' = delimited /\ read' = read
          BY <1>2, BotsFacts
        <4>2. CASE delimited
          BY <1>1, <1>3, <1>4, <3>2, <4>1, <4>2 DEF BodyHonest
        <4>3. CASE ~delimited
          BY <1>1, <1>3, <1>4, <3>2, <4>1, <4>3 DEF BodyHonest
        <4>4. QED
          BY <4>2, <4>3
      <3>3. QED
        BY <3>1, <3>2
    <2>3. QED
      BY <1>2, <1>3, <2>1, <2>2 DEF ContentHonest
  <1>9. Settled'
    <2>1. \A n \in read' : check'[n] = "running" => owed'.on = n /\ "check" \in owed'.what
      <3>1. \A n \in read : n \in 1..Heads
        BY BotsFacts
      <3>2. CASE what = "check"
        BY <1>2, <1>3, <3>1, <3>2 DEF BotsInv, Settled, BotsTypeOK
      <3>3. CASE what # "check"
        BY <1>2, <1>3, <3>3 DEF BotsInv, Settled
      <3>4. QED
        BY <3>2, <3>3
    <2>2. CASE what # "summary"
      <3>1. summary' = summary /\ read' = read /\ delimited' = delimited
        BY <1>2, <2>2
      <3>2. "summary" \notin owed'.what => "summary" \notin owed.what
        BY <1>3, <2>2
      <3>3. QED
        BY <2>1, <3>1, <3>2 DEF BotsInv, Settled, ResultOn
    <2>3. CASE what = "summary"
      <3>1. delimited \in BOOLEAN /\ delimited' = delimited /\ summary'.notice # "scanning"
        BY <1>2, <1>4, <2>3, BotsFacts
      <3>2. IF delimited' THEN summary'.block = summary'.range ELSE summary'.marker
        BY <1>4, <2>3, <3>1
      <3>3. QED
        BY <2>1, <3>1, <3>2 DEF Settled, ResultOn
    <2>4. QED
      BY <2>2, <2>3
  <1>10. QED
    BY <1>6, <1>7, <1>8, <1>9 DEF BotsInv

LEMMA CopilotKeeps ==
    ASSUME head \in 1..Heads, BotsTypeOK, BotsInv, CopilotReviews, UNCHANGED head
    PROVE  BotsTypeOK' /\ BotsInv'
  <1>1. /\ UNCHANGED <<delimited, summary, reply, reviews, check, read, owed>>
        /\ copilot' = [copilot EXCEPT !.on = @ \cup {head}] \/ copilot' = [copilot EXCEPT !.quota = TRUE]
    BY DEF CopilotReviews
  <1>2. copilot' \in Engaged
    <2>1. copilot.on \cup {head} \in SUBSET (1..Heads) /\ copilot \in Engaged
      BY DEF BotsTypeOK, Engaged
    <2>2. QED
      BY <1>1, <2>1 DEF Engaged
  <1>3. BotsTypeOK'
    BY <1>1, <1>2 DEF BotsTypeOK
  <1>4. QED
    BY <1>1, <1>3 DEF BotsInv, RangeLeads, ContentHonest, ProseHonest, BodyHonest, Settled, ResultOn

LEMMA BotsKeep ==
    ASSUME head \in 1..Heads, BotsTypeOK, BotsInv, BotsAct
    PROVE  BotsTypeOK' /\ BotsInv'
  <1>1. head' = head /\ (CodeRabbitStep \/ CopilotReviews)
    BY DEF BotsAct
  <1>2. QED
    BY <1>1, ScansKeeps, SkipsKeeps, DeclinesKeeps, ReadsKeeps, PublishesKeeps, CopilotKeeps
    DEF CodeRabbitStep

-----------------------------------------------------------------------------
(* The command's steps *)

LEMMA PollFields ==
    ASSUME NEW p \in Polls
    PROVE  /\ p.head \in 0..Heads /\ p.jobs \in 0..MaxJobs
           /\ p.done \subseteq Seats \cup {"coderabbit", "copilot"}
           /\ p.declined \in BOOLEAN /\ p.steady \in BOOLEAN
           /\ p.comments \in Seq(Receipts) /\ p.summary \in Summaries /\ p.reply \in Notices
           /\ p.reviews \subseteq Submitted /\ p.copilot \in Engaged /\ p.check \in Checks
  BY DEF Polls

\* Who had finished when the head was fetched.
Finished ==
    {s \in Seats : SeatDone(s)} \cup (IF BotDone THEN {"coderabbit"} ELSE {})
       \cup (IF head \in copilot.on THEN {"copilot"} ELSE {})

LEMMA FetchHeadDoes ==
    ASSUME TypeOK, FetchHead
    PROVE  /\ poll' \in Polls /\ UNCHANGED <<head, receiptVars, botVars, installed>>
           /\ poll.step = "head" /\ poll'.step = "comments"
           /\ poll'.head = head /\ poll'.jobs = jobs /\ poll'.done = Finished
           /\ \A f \in {"declined", "steady", "comments", "summary", "reply", "reviews", "copilot", "check", "known"} :
                  poll'[f] = poll[f]
  <1>1. poll \in Polls /\ head \in 0..Heads /\ jobs \in 0..MaxJobs
    BY StatusAssumption DEF TypeOK, ReceiptsTypeOK
  <1>2. Finished \subseteq Seats \cup {"coderabbit", "copilot"}
    BY DEF Finished
  <1>3. /\ poll' = [poll EXCEPT !.step = "comments", !.head = head, !.jobs = jobs, !.done = Finished]
        /\ poll.step = "head" /\ UNCHANGED <<head, receiptVars, botVars, installed>>
    BY DEF FetchHead, Finished
  <1>4. QED
    BY <1>1, <1>2, <1>3 DEF Polls

LEMMA FetchCommentsDoes ==
    ASSUME TypeOK, FetchComments
    PROVE  /\ poll' \in Polls /\ UNCHANGED <<head, receiptVars, botVars, installed>>
           /\ poll.step = "comments" /\ poll'.step = "reviews"
           /\ poll'.comments = comments /\ poll'.summary = summary /\ poll'.reply = reply
           /\ poll'.done = poll.done \ ((IF jobs = poll.jobs THEN {} ELSE Seats)
                                          \cup (IF head = poll.head THEN {} ELSE {"coderabbit"}))
           /\ poll'.declined = (head = poll.head /\ summary.range = head /\ IsNotice(summary.notice))
           /\ \A f \in {"head", "jobs", "steady", "reviews", "copilot", "check", "known"} : poll'[f] = poll[f]
  <1>1. poll \in Polls /\ comments \in Seq(Receipts) /\ summary \in Summaries /\ reply \in Notices
    BY DEF TypeOK, ReceiptsTypeOK, BotsTypeOK
  <1>2. /\ poll' = [poll EXCEPT !.step = "reviews", !.comments = comments,
                        !.summary = summary, !.reply = reply,
                        !.done = @ \ ((IF jobs = poll.jobs THEN {} ELSE Seats)
                                        \cup (IF head = poll.head THEN {} ELSE {"coderabbit"})),
                        !.declined = head = poll.head /\ summary.range = head /\ IsNotice(summary.notice)]
        /\ poll.step = "comments" /\ UNCHANGED <<head, receiptVars, botVars, installed>>
    BY DEF FetchComments
  <1>3. QED
    BY <1>1, <1>2 DEF Polls

LEMMA FetchReviewsDoes ==
    ASSUME TypeOK, FetchReviews
    PROVE  /\ poll' \in Polls /\ UNCHANGED <<head, receiptVars, botVars, installed>>
           /\ poll.step = "reviews" /\ poll'.step = "checks"
           /\ poll'.reviews = reviews /\ poll'.copilot = copilot /\ poll'.steady = (summary = poll.summary)
           /\ \A f \in {"head", "jobs", "done", "declined", "comments", "summary", "reply", "check", "known"} :
                  poll'[f] = poll[f]
  <1>1. poll \in Polls /\ reviews \subseteq Submitted /\ copilot \in Engaged
    BY DEF TypeOK, BotsTypeOK
  <1>2. /\ poll' = [poll EXCEPT !.step = "checks", !.reviews = reviews, !.copilot = copilot,
                                !.steady = summary = poll.summary]
        /\ poll.step = "reviews" /\ UNCHANGED <<head, receiptVars, botVars, installed>>
    BY DEF FetchReviews
  <1>3. QED
    BY <1>1, <1>2 DEF Polls

LEMMA FetchChecksDoes ==
    ASSUME TypeOK, PollHonest, FetchChecks
    PROVE  /\ poll' \in Polls /\ UNCHANGED <<head, receiptVars, botVars, installed>>
           /\ poll.step = "checks" /\ poll'.step = "rows"
           /\ poll'.check \in {"none", check[poll.head]} /\ poll'.known \in {{}, configured_seat_labels}
           /\ \A f \in {"head", "jobs", "done", "declined", "steady", "comments", "summary", "reply",
                        "reviews", "copilot"} : poll'[f] = poll[f]
  <1>1. PICK c \in {"none", check[poll.head]}, known \in {{}, configured_seat_labels} :
            poll' = [poll EXCEPT !.step = "rows", !.check = c, !.known = known]
    BY DEF FetchChecks
  <1>2. poll \in Polls /\ configured \subseteq Seats /\ check \in [1..Heads -> Checks] /\ poll.step = "checks"
    BY DEF TypeOK, ReceiptsTypeOK, BotsTypeOK, FetchChecks
  <1>3. poll.head \in 1..Heads
    <2>1. poll.head \in 0..Heads /\ poll.head # 0
      BY <1>2, PollFields DEF PollHonest
    <2>2. QED
      BY <2>1, StatusAssumption
  <1>4. c \in Checks
    BY <1>2, <1>3 DEF Checks
  <1>5. known \subseteq {LabelOf[s] : s \in Seats} \cup Backups
    BY <1>2 DEF configured_seat_labels
  <1>6. UNCHANGED <<head, receiptVars, botVars, installed>>
    BY DEF FetchChecks
  <1>7. QED
    BY <1>1, <1>2, <1>4, <1>5, <1>6 DEF Polls

LEMMA NoPollTypes ==
    /\ NoPoll \in Polls /\ NoPoll.step = "head" /\ NoPoll.done = {} /\ ~NoPoll.declined /\ ~NoPoll.steady
    /\ DOMAIN NoPoll.comments = {} /\ NoPoll.summary = NoSummary /\ NoPoll.reviews = {} /\ NoPoll.known = {}
    /\ NoPoll.check = "none" /\ NoSummary \in Summaries /\ NoSummary.block = 0 /\ ~NoSummary.marker
    /\ NoSummary.range = 0
  <1>1. 0 \in 0..Heads /\ 0 \in 0..MaxJobs
    BY StatusAssumption
  <1>2. /\ NoSummary \in Summaries /\ NoSummary.block = 0 /\ ~NoSummary.marker
        /\ NoSummary.range = 0
    BY <1>1 DEF NoSummary, Summaries, Notices
  <1>3. <<>> \in Seq(Receipts) /\ DOMAIN <<>> = {}
    OBVIOUS
  <1>4. [on |-> {}, quota |-> FALSE] \in Engaged /\ "none" \in Notices /\ "none" \in Checks
    BY DEF Engaged, Notices, Checks
  <1>5. QED
    BY <1>1, <1>2, <1>3, <1>4 DEF NoPoll, Polls

LEMMA TypeStep ==
    ASSUME TypeOK, BotsInv, PollHonest, [Next]_vars
    PROVE  TypeOK'
  <1>0. head \in 1..Heads /\ ReceiptsTypeOK /\ BotsTypeOK /\ poll \in Polls
    BY DEF TypeOK
  <1>1. CASE Push
    <2>1. head' = head + 1 /\ head < Heads /\ UNCHANGED <<receiptVars, botVars, poll>>
      BY <1>1 DEF Push, Pushed
    <2>2. head' \in 1..Heads /\ 0..head \subseteq 0..head'
      BY <1>0, <2>1, StatusAssumption
    <2>3. ReceiptsTypeOK' /\ BotsTypeOK'
      BY <1>0, <2>1, <2>2 DEF ReceiptsTypeOK, BotsTypeOK, receiptVars, botVars
    <2>4. QED
      BY <1>0, <2>1, <2>2, <2>3 DEF TypeOK
  <1>2. CASE SeatsAct
    <2>1. ReceiptsStep /\ UNCHANGED <<head, botVars, poll>>
      BY <1>2 DEF SeatsAct
    <2>2. ReceiptsTypeOK' /\ BotsTypeOK'
      BY <1>0, <2>1, ReceiptsTypeStep DEF BotsTypeOK, botVars
    <2>3. QED
      BY <1>0, <2>1, <2>2 DEF TypeOK
  <1>3. CASE BotsAct
    <2>1. UNCHANGED <<head, receiptVars, poll>>
      BY <1>3 DEF BotsAct
    <2>2. ReceiptsTypeOK' /\ BotsTypeOK'
      BY <1>0, <1>3, <2>1, BotsKeep DEF ReceiptsTypeOK, receiptVars
    <2>3. QED
      BY <1>0, <2>1, <2>2 DEF TypeOK
  <1>4. ASSUME UNCHANGED <<head, receiptVars, botVars>>, poll' \in Polls PROVE TypeOK'
    BY <1>0, <1>4 DEF TypeOK, ReceiptsTypeOK, BotsTypeOK, receiptVars, botVars
  <1>5. CASE FetchHead \/ FetchComments \/ FetchReviews \/ FetchChecks
    BY <1>4, <1>5, FetchHeadDoes, FetchCommentsDoes, FetchReviewsDoes, FetchChecksDoes
  <1>6. CASE PollAgain
    BY <1>4, <1>6, NoPollTypes DEF PollAgain
  <1>7. CASE UNCHANGED vars
    BY <1>0, <1>4, <1>7 DEF vars
  <1>8. QED
    BY <1>1, <1>2, <1>3, <1>5, <1>6, <1>7 DEF Next

-----------------------------------------------------------------------------
(* Receipts *)

LEMMA VouchedStays ==
    ASSUME reviewed \subseteq reviewed', NEW s, NEW h, Vouched(s, h)
    PROVE  Vouched(s, h)'
  BY DEF Vouched

LEMMA ReceiptsOfSeats ==
    ASSUME TypeOK, TypeOK', VouchedFor(comments), SeatsAct,
           \A s \in Seats : branch[s].of = Review => Vouched(s, at)
    PROVE  /\ reviewed \subseteq reviewed' /\ VouchedFor(comments)'
           /\ \A s \in Seats : branch'[s].of = Review => Vouched(s, at)'
  <1>0. /\ branch \in [Seats -> Branches] /\ comments \in Seq(Receipts) /\ head \in Nat /\ at \in 0..Heads
        /\ at \in 0..head /\ OwnHeaders
    BY StatusAssumption DEF TypeOK, ReceiptsTypeOK, OwnHeaders
  <1>1. CASE StartJob
    <2>1. /\ branch' = [s \in Seats |-> IF s \in configured THEN Branch("starting", 0, Started) ELSE Idle]
          /\ UNCHANGED <<comments, configured, reviewed>>
      BY <1>1 DEF StartJob
    <2>2. \A s \in Seats : branch'[s].of = Started
      BY <2>1, BranchTypes, MarkTypes, IdleTypes
    <2>3. QED
      BY <2>1, <2>2, MarkTypes DEF VouchedFor, Vouched
  <1>2. CASE Quote
    <2>1. /\ UNCHANGED <<jobs, at, branch, configured, reviewed>>
          /\ \E i \in DOMAIN comments : comments' = Append(comments, Copied(comments[i]))
      BY <1>2, QuoteDoes
    <2>2. PICK i \in DOMAIN comments : comments' = Append(comments, Copied(comments[i]))
      BY <2>1
    <2>3. /\ Copied(comments[i]) \in Receipts
          /\ Copied(comments[i]).seat = comments[i].seat /\ Copied(comments[i]).head = comments[i].head
          /\ Copied(comments[i]).of = comments[i].of
      BY <1>0, CopiedTypes
    <2>4. \A j \in DOMAIN comments' : comments'[j] = Copied(comments[i]) \/ (j \in DOMAIN comments /\ comments'[j] = comments[j])
      BY <1>0, <2>2, <2>3, AppendDoes
    <2>5. VouchedFor(comments)'
      BY <2>1, <2>3, <2>4 DEF VouchedFor, Vouched
    <2>6. QED
      BY <2>1, <2>5 DEF Vouched
  <1>3. CASE \E s \in Seats : PostHeader(s)
    <2>1. PICK s \in Seats : PostHeader(s)
      BY <1>3
    <2>2. PICK c \in Nat : branch' = [branch EXCEPT ![s] = Branch("reviewing", c, Started)]
      <3>1. Len(comments) + 1 \in Nat /\ 0 \in Nat
        BY <1>0
      <3>2. QED
        BY <2>1, <3>1 DEF PostHeader
    <2>3. /\ UNCHANGED <<jobs, at, configured, reviewed>>
          /\ comments' = Append(comments, Receipt(s, Started)) \/ UNCHANGED comments
      BY <2>1 DEF PostHeader
    <2>4. Receipt(s, Started) \in Receipts /\ Receipt(s, Started).of = Started
      BY <1>0, MarkTypes, ReceiptTypes
    <2>5. \A j \in DOMAIN comments' : comments'[j] = Receipt(s, Started) \/ (j \in DOMAIN comments /\ comments'[j] = comments[j])
      BY <1>0, <2>3, <2>4, AppendDoes
    <2>6. VouchedFor(comments)'
      BY <2>3, <2>4, <2>5, MarkTypes DEF VouchedFor, Vouched
    <2>7. branch'[s].of = Started /\ \A t \in Seats \ {s} : branch'[t] = branch[t]
      BY <1>0, <2>2, BranchTypes, MarkTypes
    <2>8. QED
      BY <2>3, <2>6, <2>7, MarkTypes DEF Vouched
  <1>4. CASE \E s \in Seats : Reviews(s)
    <2>1. PICK s \in Seats : Reviews(s)
      BY <1>4
    <2>2. PICK of \in Outcomes :
              /\ branch' = [branch EXCEPT ![s] = Branch("finalizing", @.comment, of)]
              /\ reviewed' = reviewed \cup (IF of = Review THEN {[seat |-> s, tree |-> head]} ELSE {})
      BY <2>1 DEF Reviews
    <2>3. UNCHANGED <<jobs, at, comments, configured>> /\ reviewed \subseteq reviewed'
      BY <2>1, <2>2 DEF Reviews
    <2>4. branch'[s].of = of /\ \A t \in Seats \ {s} : branch'[t] = branch[t]
      BY <1>0, <2>2, BranchTypes, BranchFields, MarkTypes
    <2>5. of = Review => Vouched(s, at)'
      <3>1. head >= at /\ at' = at
        BY <1>0, <2>3
      <3>2. SUFFICES ASSUME of = Review PROVE \E r \in reviewed' : r.seat = s /\ r.tree >= at'
        BY DEF Vouched
      <3>3. [seat |-> s, tree |-> head] \in reviewed'
        BY <2>2, <3>2
      <3>4. [seat |-> s, tree |-> head].seat = s /\ [seat |-> s, tree |-> head].tree >= at'
        BY <3>1
      <3>5. QED
        BY <3>3, <3>4
    <2>6. VouchedFor(comments)'
      BY <2>3, VouchedStays DEF VouchedFor
    <2>7. \A t \in Seats : branch'[t].of = Review => Vouched(t, at)'
      BY <2>3, <2>4, <2>5, VouchedStays
    <2>8. QED
      BY <2>3, <2>6, <2>7
  <1>5. CASE \E s \in Seats : Finalize(s)
    <2>1. PICK s \in Seats : Finalize(s)
      BY <1>5
    <2>2. /\ UNCHANGED <<jobs, at, configured, reviewed>>
          /\ branch' = [branch EXCEPT ![s] = Idle]
          /\ \/ UNCHANGED comments
             \/ /\ branch[s].comment # 0
                /\ comments' = [comments EXCEPT ![branch[s].comment] = Receipt(s, branch[s].of)]
      BY <2>1 DEF Finalize
    <2>3. /\ Receipt(s, branch[s].of) \in Receipts /\ Receipt(s, branch[s].of).seat = s
          /\ Receipt(s, branch[s].of).head = at /\ Receipt(s, branch[s].of).of = branch[s].of
      BY <1>0, BranchFields, ReceiptTypes
    <2>4. branch'[s].of = Started /\ \A t \in Seats \ {s} : branch'[t] = branch[t]
      BY <1>0, <2>2, IdleTypes
    <2>5. \A j \in DOMAIN comments' : /\ j \in DOMAIN comments
                                      /\ comments'[j] = Receipt(s, branch[s].of) \/ comments'[j] = comments[j]
      <3>1. CASE UNCHANGED comments
        BY <3>1
      <3>2. CASE /\ branch[s].comment # 0
                 /\ comments' = [comments EXCEPT ![branch[s].comment] = Receipt(s, branch[s].of)]
        <4>1. branch[s].comment \in DOMAIN comments
          BY <1>0, <3>2 DEF OwnHeaders
        <4>2. QED
          BY <1>0, <2>3, <3>2, <4>1, RewriteDoes
      <3>3. QED
        BY <2>2, <3>1, <3>2
    <2>6. VouchedFor(comments)'
      BY <2>2, <2>3, <2>5 DEF VouchedFor, Vouched
    <2>7. QED
      BY <2>2, <2>4, <2>6, MarkTypes DEF Vouched
  <1>6. CASE \E s \in Seats : Retire(s)
    BY <1>6 DEF Retire, VouchedFor, Vouched
  <1>7. QED
    BY <1>1, <1>2, <1>3, <1>4, <1>5, <1>6 DEF SeatsAct, ReceiptsStep

LEMMA ReceiptsRealStep ==
    ASSUME TypeOK, TypeOK', BotsInv, PollHonest, ReceiptsReal, [Next]_vars
    PROVE  ReceiptsReal'
  <1>0. /\ VouchedFor(comments) /\ VouchedFor(poll.comments)
        /\ \A s \in Seats : branch[s].of = Review => Vouched(s, at)
    BY DEF ReceiptsReal
  <1>1. CASE SeatsAct
    <2>1. /\ reviewed \subseteq reviewed' /\ VouchedFor(comments)'
          /\ \A s \in Seats : branch'[s].of = Review => Vouched(s, at)'
      BY <1>0, <1>1, ReceiptsOfSeats
    <2>2. poll' = poll
      BY <1>1 DEF SeatsAct
    <2>3. VouchedFor(poll.comments)'
      BY <1>0, <2>1, <2>2, VouchedStays DEF VouchedFor
    <2>4. QED
      BY <2>1, <2>3 DEF ReceiptsReal
  <1>2. ASSUME UNCHANGED receiptVars, VouchedFor(poll'.comments)
        PROVE  ReceiptsReal'
    BY <1>0, <1>2 DEF receiptVars, ReceiptsReal, VouchedFor, Vouched
  <1>3. CASE Push \/ BotsAct \/ UNCHANGED vars
    BY <1>0, <1>2, <1>3 DEF Push, BotsAct, vars
  <1>4. CASE FetchHead \/ FetchReviews \/ FetchChecks
    <2>1. UNCHANGED receiptVars /\ poll'.comments = poll.comments
      BY <1>4, FetchHeadDoes, FetchReviewsDoes, FetchChecksDoes
    <2>2. QED
      BY <1>0, <1>2, <2>1
  <1>5. CASE FetchComments
    BY <1>0, <1>2, <1>5, FetchCommentsDoes
  <1>6. CASE PollAgain
    <2>1. poll' = NoPoll /\ UNCHANGED receiptVars
      BY <1>6 DEF PollAgain
    <2>2. VouchedFor(poll'.comments)
      BY <2>1, NoPollTypes DEF VouchedFor
    <2>3. QED
      BY <1>2, <2>1, <2>2
  <1>7. QED
    BY <1>1, <1>3, <1>4, <1>5, <1>6 DEF Next

-----------------------------------------------------------------------------
(* The poll *)

LEMMA BotsInvStep ==
    ASSUME TypeOK, BotsInv, [Next]_vars
    PROVE  BotsInv'
  <1>1. CASE BotsAct
    BY <1>1, BotsKeep DEF TypeOK
  <1>2. CASE Push
    <2>1. head' = head + 1 /\ UNCHANGED botVars
      BY <1>2 DEF Push, Pushed
    <2>2. summary.range <= head /\ summary.range \in Nat /\ head \in Nat
      BY BotsFacts DEF BotsInv, RangeLeads, TypeOK
    <2>3. summary'.range <= head'
      BY <2>1, <2>2 DEF botVars
    <2>4. QED
      BY <2>1, <2>3 DEF BotsInv, RangeLeads, ContentHonest, ProseHonest, BodyHonest, Settled, ResultOn, botVars
  <1>3. ASSUME UNCHANGED <<head, botVars>> PROVE BotsInv'
    BY <1>3 DEF BotsInv, RangeLeads, ContentHonest, ProseHonest, BodyHonest, Settled, ResultOn, botVars
  <1>4. QED
    BY <1>1, <1>2, <1>3 DEF Next, SeatsAct, FetchHead, FetchComments, FetchReviews, FetchChecks, PollAgain, vars

\* What CodeRabbit has read it has read for good, and its check-run on it does
\* not run again.
LEMMA ReadStays ==
    ASSUME TypeOK, [Next]_vars
    PROVE  /\ read \subseteq read' /\ delimited' = delimited
           /\ \A n \in read : check[n] # "running" => check'[n] # "running"
  <1>0. check \in [1..Heads -> Checks] /\ \A n \in read : n \in 1..Heads
    BY BotsFacts DEF TypeOK, BotsTypeOK
  <1>1. ASSUME Scans PROVE /\ UNCHANGED <<read, delimited>>
                           /\ \A n \in read : check'[n] = check[n]
    BY <1>0, <1>1 DEF Scans
  <1>2. ASSUME Publishes PROVE /\ UNCHANGED <<read, delimited>>
                               /\ \A n \in read : check'[n] = check[n] \/ check'[n] = "completed"
    BY <1>0, <1>2 DEF Publishes
  <1>3. ASSUME Reads PROVE read \subseteq read' /\ UNCHANGED <<check, delimited>>
    BY <1>3 DEF Reads
  <1>4. ASSUME Skips \/ Declines \/ CopilotReviews PROVE UNCHANGED <<read, check, delimited>>
    BY <1>4 DEF Skips, Declines, CopilotReviews
  <1>5. CASE BotsAct
    BY <1>1, <1>2, <1>3, <1>4, <1>5 DEF BotsAct, CodeRabbitStep
  <1>6. ASSUME UNCHANGED botVars PROVE UNCHANGED <<read, check, delimited>>
    BY <1>6 DEF botVars
  <1>7. QED
    BY <1>5, <1>6 DEF Next, Push, SeatsAct, FetchHead, FetchComments, FetchReviews, FetchChecks, PollAgain, vars

LEMMA PollHonestStep ==
    ASSUME TypeOK, BotsInv, PollHonest, [Next]_vars
    PROVE  PollHonest'
  <1>0. /\ ProseHonest(poll.reviews) /\ BodyHonest(poll.summary)
        /\ poll.steady => \A r \in poll.reviews : r.on <= poll.summary.range
        /\ poll.declined => poll.summary.range = poll.head /\ IsNotice(poll.summary.notice)
        /\ poll.step # "head" => poll.head # 0
        /\ poll.step \in {"head", "comments"} => ~poll.declined /\ ~poll.steady
    BY DEF PollHonest
  <1>1. /\ ProseHonest(reviews) /\ BodyHonest(summary) /\ head # 0
        /\ \A r \in reviews : r.on <= summary.range
    BY StatusAssumption DEF BotsInv, ContentHonest, RangeLeads, TypeOK
  <1>2. ASSUME ProseHonest(poll'.reviews), BodyHonest(poll'.summary),
               poll'.steady => \A r \in poll'.reviews : r.on <= poll'.summary.range,
               poll'.declined => poll'.summary.range = poll'.head /\ IsNotice(poll'.summary.notice),
               poll'.step # "head" => poll'.head # 0,
               poll'.step \in {"head", "comments"} => ~poll'.declined /\ ~poll'.steady
        PROVE  PollHonest'
    <2>1. BodyHonest(poll.summary)' /\ ProseHonest(poll.reviews)'
      BY <1>2, ReadStays DEF BodyHonest, ProseHonest
    <2>2. QED
      BY <1>2, <2>1 DEF PollHonest
  <1>3. CASE UNCHANGED poll
    BY <1>0, <1>2, <1>3
  <1>4. CASE FetchHead
    BY <1>0, <1>1, <1>2, <1>4, FetchHeadDoes
  <1>5. CASE FetchComments
    BY <1>0, <1>1, <1>2, <1>5, FetchCommentsDoes
  <1>6. CASE FetchReviews
    BY <1>0, <1>1, <1>2, <1>6, FetchReviewsDoes
  <1>7. CASE FetchChecks
    BY <1>0, <1>2, <1>7, FetchChecksDoes
  <1>8. CASE PollAgain
    <2>1. poll' = NoPoll
      BY <1>8 DEF PollAgain
    <2>2. ProseHonest({}) /\ BodyHonest(NoSummary)
      BY NoPollTypes DEF ProseHonest, BodyHonest
    <2>3. QED
      BY <1>2, <2>1, <2>2, NoPollTypes
  <1>9. QED
    BY <1>3, <1>4, <1>5, <1>6, <1>7, <1>8 DEF Next, Push, SeatsAct, BotsAct, vars

LEMMA QuoteKeepsLastWords ==
    ASSUME NEW list \in Seq(Receipts), NEW c \in Receipts, c.by = "other", NEW s, NEW h, LastWord(list, s, h)
    PROVE  LastWord(Append(list, c), s, h)
  <1>1. PICK i \in DOMAIN list :
            /\ list[i] = [by |-> "fuko", seat |-> s, head |-> h, of |-> Review]
            /\ \A j \in DOMAIN list : list[j].by = "fuko" /\ list[j].seat = s => j <= i
    BY DEF LastWord
  <1>2. i \in DOMAIN Append(list, c) /\ Append(list, c)[i] = list[i]
    BY AppendDoes
  <1>3. \A j \in DOMAIN Append(list, c) :
            Append(list, c)[j] = c \/ (j \in DOMAIN list /\ Append(list, c)[j] = list[j])
    BY AppendDoes
  <1>4. \A j \in DOMAIN Append(list, c) :
            Append(list, c)[j].by = "fuko" /\ Append(list, c)[j].seat = s => j <= i
    BY <1>1, <1>3
  <1>5. QED
    BY <1>1, <1>2, <1>4 DEF LastWord

\* While no branch is at work, the seats of the running job add nothing.
LEMMA RestOfSeats ==
    ASSUME TypeOK, SeatsAct
    PROVE  /\ jobs \in Nat /\ jobs' \in Nat /\ jobs <= jobs' /\ configured' \subseteq configured
           /\ UNCHANGED <<head, botVars, poll>>
           /\ jobs' = jobs /\ (\A t \in Seats : branch[t] = Idle) =>
                 /\ branch' = branch
                 /\ \A s, h : LastWord(comments, s, h) => LastWord(comments', s, h)
  <1>0. /\ jobs \in Nat /\ comments \in Seq(Receipts) /\ ReceiptsStep /\ UNCHANGED <<head, botVars, poll>>
    BY StatusAssumption DEF TypeOK, ReceiptsTypeOK, SeatsAct
  <1>1. CASE StartJob
    <2>1. jobs' = jobs + 1 /\ UNCHANGED configured
      BY <1>1 DEF StartJob
    <2>2. jobs' \in Nat /\ jobs <= jobs' /\ jobs' # jobs
      BY <1>0, <2>1
    <2>3. QED
      BY <1>0, <2>1, <2>2
  <1>2. CASE Quote
    <2>1. PICK i \in DOMAIN comments : comments' = Append(comments, Copied(comments[i]))
      BY <1>2, QuoteDoes
    <2>2. UNCHANGED <<jobs, branch, configured>>
      BY <1>2, QuoteDoes
    <2>3. Copied(comments[i]) \in Receipts /\ Copied(comments[i]).by = "other"
      BY <1>0, CopiedTypes
    <2>4. \A s, h : LastWord(comments, s, h) => LastWord(comments', s, h)
      BY <1>0, <2>1, <2>3, QuoteKeepsLastWords
    <2>5. QED
      BY <1>0, <2>2, <2>4
  <1>3. CASE \E s \in Seats : PostHeader(s) \/ Reviews(s) \/ Finalize(s)
    <2>1. PICK s \in Seats : branch[s].step # "idle" /\ UNCHANGED <<jobs, configured>>
      BY <1>3 DEF PostHeader, Reviews, Finalize
    <2>2. ~(\A t \in Seats : branch[t] = Idle)
      BY <2>1, IdleTypes
    <2>3. QED
      BY <1>0, <2>1, <2>2
  <1>4. CASE \E s \in Seats : Retire(s)
    <2>1. configured' \subseteq configured /\ UNCHANGED <<jobs, branch, comments>>
      BY <1>4 DEF Retire
    <2>2. QED
      BY <1>0, <2>1
  <1>5. QED
    BY <1>0, <1>1, <1>2, <1>3, <1>4 DEF ReceiptsStep

LEMMA SeatsSettledStep ==
    ASSUME TypeOK, PollHonest, SeatsSettled, [Next]_vars
    PROVE  SeatsSettled'
  <1>0. /\ poll.step # "head" => poll.jobs <= jobs
        /\ \A s \in poll.done \cap Seats :
              /\ poll.step # "comments" => LastWord(poll.comments, s, poll.head)
              /\ poll.step = "comments" /\ poll.jobs = jobs =>
                    (\A t \in Seats : branch[t] = Idle) /\ LastWord(comments, s, poll.head)
        /\ poll.known = {} \/ \A s \in configured : LabelOf[s] \in poll.known
        /\ poll.jobs \in Nat /\ jobs \in Nat /\ jobs <= jobs /\ configured \subseteq Seats
    BY PollFields, StatusAssumption DEF SeatsSettled, TypeOK, ReceiptsTypeOK
  <1>1. ASSUME poll'.step # "head" => poll'.jobs <= jobs',
               \A s \in poll'.done \cap Seats :
                  /\ poll'.step # "comments" => LastWord(poll'.comments, s, poll'.head)
                  /\ poll'.step = "comments" /\ poll'.jobs = jobs' =>
                        (\A t \in Seats : branch'[t] = Idle) /\ LastWord(comments', s, poll'.head),
               poll'.known = {} \/ \A s \in configured' : LabelOf[s] \in poll'.known
        PROVE  SeatsSettled'
    BY <1>1 DEF SeatsSettled, LastWord
  <1>2. CASE UNCHANGED <<receiptVars, poll>>
    BY <1>0, <1>1, <1>2 DEF receiptVars
  <1>3. CASE SeatsAct
    <2>1. /\ jobs' \in Nat /\ jobs <= jobs' /\ configured' \subseteq configured /\ poll' = poll
          /\ jobs' = jobs /\ (\A t \in Seats : branch[t] = Idle) =>
                branch' = branch /\ \A s, h : LastWord(comments, s, h) => LastWord(comments', s, h)
      BY <1>3, RestOfSeats
    <2>2. poll.step # "head" => poll.jobs <= jobs' /\ (poll.jobs = jobs' => jobs' = jobs)
      BY <1>0, <2>1
    <2>3. QED
      BY <1>0, <1>1, <2>1, <2>2
  <1>4. CASE FetchHead
    <2>1. \A s \in Finished \cap Seats : SeatDone(s)
      BY StatusAssumption DEF Finished
    <2>2. \A s \in Finished \cap Seats : (\A t \in Seats : branch[t] = Idle) /\ LastWord(comments, s, head)
      <3>1. ASSUME NEW s \in Seats, SeatDone(s)
            PROVE  (\A t \in Seats : branch[t] = Idle) /\ LastWord(comments, s, head)
        <4>1. PICK i \in DOMAIN comments :
                  /\ comments[i] = [by |-> "fuko", seat |-> s, head |-> head, of |-> Review]
                  /\ \A j \in DOMAIN comments : comments[j].by = "fuko" /\ comments[j].seat = s => j <= i
          BY <3>1 DEF SeatDone
        <4>2. QED
          BY <3>1, <4>1 DEF SeatDone, LastWord
      <3>2. QED
        BY <2>1, <3>1
    <2>3. /\ poll'.step = "comments" /\ poll'.done = Finished /\ poll'.jobs = jobs /\ poll'.head = head
          /\ poll'.known = poll.known /\ UNCHANGED receiptVars
      BY <1>4, FetchHeadDoes
    <2>4. QED
      BY <1>0, <1>1, <2>2, <2>3 DEF receiptVars
  <1>5. CASE FetchComments
    <2>1. /\ poll.step = "comments" /\ poll'.step = "reviews" /\ poll'.comments = comments
          /\ poll'.jobs = poll.jobs /\ poll'.head = poll.head /\ poll'.known = poll.known
          /\ UNCHANGED receiptVars
      BY <1>5, FetchCommentsDoes
    <2>2. poll'.done = poll.done \ ((IF jobs = poll.jobs THEN {} ELSE Seats)
                                      \cup (IF head = poll.head THEN {} ELSE {"coderabbit"}))
      BY <1>5, FetchCommentsDoes
    <2>3. \A s \in poll'.done \cap Seats : s \in poll.done /\ jobs = poll.jobs
      BY <2>2
    <2>4. QED
      BY <1>0, <1>1, <2>1, <2>3 DEF receiptVars
  <1>6. CASE FetchReviews
    <2>1. /\ poll.step = "reviews" /\ poll'.step = "checks" /\ poll'.comments = poll.comments
          /\ poll'.done = poll.done /\ poll'.jobs = poll.jobs /\ poll'.head = poll.head
          /\ poll'.known = poll.known /\ UNCHANGED receiptVars
      BY <1>6, FetchReviewsDoes
    <2>2. QED
      BY <1>0, <1>1, <2>1 DEF receiptVars
  <1>7. CASE FetchChecks
    <2>1. /\ poll.step = "checks" /\ poll'.step = "rows" /\ poll'.comments = poll.comments
          /\ poll'.done = poll.done /\ poll'.jobs = poll.jobs /\ poll'.head = poll.head
          /\ poll'.known \in {{}, configured_seat_labels} /\ UNCHANGED receiptVars
      BY <1>7, FetchChecksDoes
    <2>2. \A s \in configured : LabelOf[s] \in configured_seat_labels
      BY DEF configured_seat_labels
    <2>3. QED
      BY <1>0, <1>1, <2>1, <2>2 DEF receiptVars
  <1>8. CASE PollAgain
    <2>1. poll' = NoPoll
      BY <1>8 DEF PollAgain
    <2>2. QED
      BY <1>1, <2>1, NoPollTypes
  <1>9. QED
    BY <1>2, <1>3, <1>4, <1>5, <1>6, <1>7, <1>8 DEF Next, Push, BotsAct, vars

\* A head that is read, with nothing owed, is left alone until the next push.
LEMMA RestOfCodeRabbit ==
    ASSUME TypeOK, BotsInv, head \in read, owed.what = {}, BotsAct
    PROVE  owed' = owed
  <1>1. /\ head <= summary.range /\ summary.range <= head
        /\ head \in Nat /\ summary.range \in Nat
    BY BotsFacts DEF BotsInv, RangeLeads, TypeOK
  <1>2. summary.range = head
    BY <1>1
  <1>3. summary.notice # "scanning"
    BY <1>2 DEF BotsInv, Settled
  <1>4. ~Scans /\ ~Declines /\ ~Publishes /\ ~Reads
    BY <1>3 DEF Scans, Declines, Publishes, Reads
  <1>5. ~Skips
    <2>1. ~(summary.range < head)
      BY <1>1
    <2>2. QED
      BY <2>1 DEF Skips
  <1>6. QED
    BY <1>4, <1>5 DEF BotsAct, CodeRabbitStep, CopilotReviews

LEMMA CodeRabbitSettledStep ==
    ASSUME TypeOK, BotsInv, PollHonest, CodeRabbitSettled, [Next]_vars
    PROVE  CodeRabbitSettled'
  <1>0. /\ poll.step # "rows" => poll.check = "none"
        /\ "coderabbit" \in poll.done =>
              /\ poll.head \in read /\ check[poll.head] # "running" /\ poll.check # "running"
              /\ poll.step # "comments" => ResultOn(poll.summary, poll.head)
              /\ poll.step = "comments" /\ head = poll.head => owed.what = {}
    BY DEF CodeRabbitSettled
  <1>1. ASSUME poll'.step # "rows" => poll'.check = "none",
               "coderabbit" \in poll'.done =>
                  /\ poll'.head \in read /\ check[poll'.head] # "running" /\ poll'.check # "running"
                  /\ poll'.step # "comments" => ResultOn(poll'.summary, poll'.head)
                  /\ poll'.step = "comments" /\ head' = poll'.head => owed'.what = {}
        PROVE  CodeRabbitSettled'
    BY <1>1, ReadStays DEF CodeRabbitSettled, ResultOn
  <1>2. CASE UNCHANGED <<head, botVars, poll>>
    BY <1>0, <1>1, <1>2 DEF botVars
  <1>3. CASE Push
    <2>1. UNCHANGED <<botVars, poll>> /\ head' = head + 1
      BY <1>3 DEF Push, Pushed
    <2>2. ASSUME poll.head \in read PROVE head' # poll.head
      <3>1. /\ poll.head <= summary.range /\ summary.range <= head
            /\ poll.head \in Nat /\ summary.range \in Nat /\ head \in Nat
        BY <2>2, BotsFacts DEF BotsInv, RangeLeads, TypeOK
      <3>2. QED
        BY <2>1, <3>1
    <2>3. QED
      BY <1>0, <1>1, <2>1, <2>2 DEF botVars
  <1>4. CASE BotsAct
    <2>1. head' = head /\ poll' = poll
      BY <1>4 DEF BotsAct
    <2>2. head \in read /\ owed.what = {} => owed' = owed
      BY <1>4, RestOfCodeRabbit
    <2>3. QED
      BY <1>0, <1>1, <2>1, <2>2
  <1>5. CASE FetchHead
    <2>1. /\ poll.step = "head" /\ poll'.step = "comments" /\ poll'.head = head /\ poll'.done = Finished
          /\ poll'.check = poll.check /\ UNCHANGED botVars
      BY <1>5, FetchHeadDoes
    <2>2. "coderabbit" \in Finished => BotDone
      BY StatusAssumption DEF Finished
    <2>3. BotDone => head \in read /\ owed.what = {} /\ check[head] # "running"
      BY DEF BotDone, BotsInv, Settled
    <2>4. QED
      BY <1>0, <1>1, <2>1, <2>2, <2>3 DEF botVars
  <1>6. CASE FetchComments
    <2>1. /\ poll.step = "comments" /\ poll'.step = "reviews" /\ poll'.head = poll.head
          /\ poll'.check = poll.check /\ poll'.summary = summary
      BY <1>6, FetchCommentsDoes
    <2>2. "coderabbit" \in poll'.done => "coderabbit" \in poll.done /\ head = poll.head
      <3>1. poll'.done = poll.done \ ((IF jobs = poll.jobs THEN {} ELSE Seats)
                                        \cup (IF head = poll.head THEN {} ELSE {"coderabbit"}))
        BY <1>6, FetchCommentsDoes
      <3>2. QED
        BY <3>1
    <2>3. ASSUME head \in read, owed.what = {} PROVE ResultOn(summary, head)
      <3>1. /\ head <= summary.range /\ summary.range <= head
            /\ head \in Nat /\ summary.range \in Nat
        BY <2>3, BotsFacts DEF BotsInv, RangeLeads, TypeOK
      <3>2. summary.range = head
        BY <3>1
      <3>3. QED
        BY <2>3, <3>2 DEF BotsInv, Settled
    <2>4. QED
      BY <1>0, <1>1, <2>1, <2>2, <2>3
  <1>7. CASE FetchReviews
    <2>1. /\ poll.step = "reviews" /\ poll'.step = "checks" /\ poll'.head = poll.head
          /\ poll'.check = poll.check /\ poll'.summary = poll.summary /\ poll'.done = poll.done
      BY <1>7, FetchReviewsDoes
    <2>2. QED
      BY <1>0, <1>1, <2>1
  <1>8. CASE FetchChecks
    <2>1. /\ poll.step = "checks" /\ poll'.step = "rows" /\ poll'.head = poll.head
          /\ poll'.check \in {"none", check[poll.head]} /\ poll'.summary = poll.summary
          /\ poll'.done = poll.done
      BY <1>8, FetchChecksDoes
    <2>2. QED
      BY <1>0, <1>1, <2>1
  <1>9. CASE PollAgain
    <2>1. poll' = NoPoll
      BY <1>9 DEF PollAgain
    <2>2. QED
      BY <1>1, <2>1, NoPollTypes
  <1>10. QED
    BY <1>2, <1>3, <1>4, <1>5, <1>6, <1>7, <1>8, <1>9 DEF Next, SeatsAct, vars

LEMMA CopilotSettledStep ==
    ASSUME TypeOK, PollHonest, CopilotSettled, [Next]_vars
    PROVE  CopilotSettled'
  <1>0. copilot \in Engaged /\ "copilot" \notin Seats
    BY StatusAssumption DEF TypeOK, BotsTypeOK
  <1>1. copilot.on \subseteq copilot'.on
    <2>1. CASE BotsAct
      BY <1>0, <2>1 DEF BotsAct, CodeRabbitStep, CopilotReviews, Scans, Skips, Declines, Reads, Publishes, Engaged
    <2>2. CASE UNCHANGED botVars
      BY <2>2 DEF botVars
    <2>3. QED
      BY <2>1, <2>2 DEF Next, Push, SeatsAct, FetchHead, FetchComments, FetchReviews, FetchChecks, PollAgain, vars
  <1>2. CASE UNCHANGED poll
    BY <1>1, <1>2 DEF CopilotSettled
  <1>3. CASE FetchHead
    <2>1. "copilot" \in Finished => head \in copilot.on
      BY <1>0 DEF Finished
    <2>2. QED
      BY <1>1, <1>3, <2>1, FetchHeadDoes DEF CopilotSettled
  <1>4. CASE FetchComments
    <2>1. poll'.done \subseteq poll.done
      BY <1>4, FetchCommentsDoes
    <2>2. QED
      BY <1>1, <1>4, <2>1, FetchCommentsDoes DEF CopilotSettled
  <1>5. CASE FetchReviews
    BY <1>5, FetchReviewsDoes DEF CopilotSettled
  <1>6. CASE FetchChecks
    BY <1>6, FetchChecksDoes DEF CopilotSettled
  <1>7. CASE PollAgain
    BY <1>7, NoPollTypes DEF PollAgain, CopilotSettled
  <1>8. QED
    BY <1>2, <1>3, <1>4, <1>5, <1>6, <1>7 DEF Next, Push, SeatsAct, BotsAct, vars

-----------------------------------------------------------------------------
(* The invariant *)

LEMMA StatusInit == Init => StatusInv
  <1> SUFFICES ASSUME Init PROVE StatusInv
    OBVIOUS
  <1>0. /\ Heads \in Nat \ {0} /\ MaxJobs \in Nat /\ head = 1 /\ 1 \in 1..Heads /\ 0 \in 0..Heads
        /\ 0 \in 0..head /\ 0 \in 0..MaxJobs /\ poll = NoPoll
    BY StatusAssumption DEF Init, PullInit
  <1>1. /\ jobs = 0 /\ at = 0 /\ branch = [s \in Seats |-> Idle] /\ comments = <<>>
        /\ configured = Seats /\ reviewed = {}
    BY DEF Init, ReceiptsInit
  <1>2. /\ delimited \in BOOLEAN /\ summary = NoSummary /\ reply \in {"none", "limit"} /\ reviews = {}
        /\ check = [n \in 1..Heads |-> "none"] /\ read = {} /\ owed = NothingOwed
        /\ copilot = [on |-> {}, quota |-> FALSE]
    BY DEF Init, BotsInit
  <1>3. ReceiptsTypeOK
    <2>1. branch \in [Seats -> Branches] /\ \A s \in Seats : branch[s].comment = 0
      BY <1>1, IdleTypes
    <2>2. comments \in Seq(Receipts)
      BY <1>1
    <2>3. QED
      BY <1>0, <1>1, <2>1, <2>2 DEF ReceiptsTypeOK
  <1>4. owed \in Debts /\ owed.what = {} /\ copilot \in Engaged
    BY <1>0, <1>2 DEF NothingOwed, Debts, Engaged
  <1>5. BotsTypeOK
    BY <1>2, <1>4, NoPollTypes DEF BotsTypeOK, Notices, Checks
  <1>6. TypeOK
    BY <1>0, <1>3, <1>5, NoPollTypes DEF TypeOK
  <1>7. ReceiptsReal
    <2>1. \A s \in Seats : branch[s].of # Review
      BY <1>1, IdleTypes, MarkTypes
    <2>2. DOMAIN comments = {} /\ DOMAIN poll.comments = {}
      BY <1>0, <1>1, NoPollTypes
    <2>3. QED
      BY <2>1, <2>2 DEF ReceiptsReal, VouchedFor
  <1>8. BotsInv
    <2>1. summary.range <= head
      BY <1>0, <1>2, NoPollTypes
    <2>2. QED
      BY <1>2, <1>4, <2>1, NoPollTypes DEF BotsInv, RangeLeads, ContentHonest, ProseHonest, BodyHonest, Settled
  <1>9. PollHonest /\ SeatsSettled /\ CodeRabbitSettled /\ CopilotSettled
    <2>1. ProseHonest(poll.reviews) /\ BodyHonest(poll.summary)
      BY <1>0, NoPollTypes DEF ProseHonest, BodyHonest
    <2>2. QED
      BY <1>0, <2>1, NoPollTypes DEF PollHonest, SeatsSettled, CodeRabbitSettled, CopilotSettled
  <1>10. QED
    BY <1>6, <1>7, <1>8, <1>9 DEF StatusInv

LEMMA StatusInvariant == Spec => []StatusInv
  <1>1. StatusInv /\ [Next]_vars => StatusInv'
    <2> SUFFICES ASSUME StatusInv, [Next]_vars PROVE StatusInv'
      OBVIOUS
    <2>1. /\ TypeOK /\ ReceiptsReal /\ BotsInv
          /\ PollHonest /\ SeatsSettled /\ CodeRabbitSettled /\ CopilotSettled
      BY DEF StatusInv
    <2>2. TypeOK' /\ BotsInv' /\ PollHonest'
      BY <2>1, TypeStep, BotsInvStep, PollHonestStep
    <2>3. ReceiptsReal' /\ SeatsSettled' /\ CodeRabbitSettled' /\ CopilotSettled'
      BY <2>1, <2>2, ReceiptsRealStep, SeatsSettledStep, CodeRabbitSettledStep, CopilotSettledStep
    <2>4. QED
      BY <2>2, <2>3 DEF StatusInv
  <1>2. QED
    BY <1>1, StatusInit, PTL DEF Spec

-----------------------------------------------------------------------------
(* What the rows say *)

\* Only a whole review of the seat's own makes a row of its head done.
LEMMA DoneIsReview ==
    ASSUME NEW r \in Receipts, NEW on, NEW known, RowState(r, on, known) = "done"
    PROVE  r.head = on /\ r.of = Review
  <1>1. r.head = on /\ r.of.state # "failed" /\ r.of.state # "in_progress" /\ r.of.own /\ r.of.whole
    BY DEF RowState, receipt_is_valid
  <1>2. r.of \in Marks
    BY ReceiptFields
  <1>3. r.of \in [state : {"done"}, own : BOOLEAN, whole : BOOLEAN]
    BY <1>1, <1>2 DEF Marks, Outcomes, Started, Failure
  <1>4. QED
    BY <1>1, <1>3 DEF Review

LEMMA ReviewIsDone ==
    ASSUME NEW r, NEW on, NEW known, r.head = on, r.of = Review, known = {} \/ LabelOf[r.seat] \in known
    PROVE  RowState(r, on, known) = "done"
  <1>1. receipt_is_valid(r.of) /\ r.of.whole /\ r.of.state = "done"
    BY DEF receipt_is_valid, Review
  <1>2. QED
    BY <1>1 DEF RowState

LEMMA RowIsOfReceipt ==
    ASSUME NEW row \in Rows
    PROVE  \E s \in Seats : \E r \in NewestOf(poll.comments, LabelOf[s]) :
               row = [label |-> LabelOf[s], state |-> RowState(r, poll.head, poll.known)]
  BY DEF Rows, fuko_states

LEMMA ReceiptHasRow ==
    ASSUME NEW s \in Seats, NEW r \in NewestOf(poll.comments, LabelOf[s])
    PROVE  [label |-> LabelOf[s], state |-> RowState(r, poll.head, poll.known)] \in Rows
  BY DEF Rows, fuko_states

LEMMA RealCoverage == StatusInv => CoverageIsReal
  <1> SUFFICES ASSUME StatusInv, Printed, NEW row \in Rows, row.state = "done"
               PROVE  \E r \in reviewed : LabelOf[r.seat] = row.label /\ r.tree >= poll.head
    BY DEF CoverageIsReal
  <1>1. PICK s \in Seats : \E r \in NewestOf(poll.comments, LabelOf[s]) :
               row = [label |-> LabelOf[s], state |-> RowState(r, poll.head, poll.known)]
    BY RowIsOfReceipt
  <1>2. PICK r \in NewestOf(poll.comments, LabelOf[s]) :
               row = [label |-> LabelOf[s], state |-> RowState(r, poll.head, poll.known)]
    BY <1>1
  <1>3. PICK i \in DOMAIN poll.comments : r = poll.comments[i] /\ LabelOf[r.seat] = LabelOf[s]
    BY <1>2 DEF NewestOf
  <1>4. poll.comments \in Seq(Receipts)
    BY PollFields DEF StatusInv, TypeOK
  <1>5. r \in Receipts /\ RowState(r, poll.head, poll.known) = "done"
    BY <1>2, <1>3, <1>4
  <1>6. r.head = poll.head /\ r.of = Review
    BY <1>5, DoneIsReview
  <1>7. Vouched(r.seat, r.head)
    BY <1>3, <1>6 DEF StatusInv, ReceiptsReal, VouchedFor
  <1>8. QED
    BY <1>2, <1>3, <1>6, <1>7 DEF Vouched

LEMMA RealContent == StatusInv => ThrottledIsNotDone
  <1> SUFFICES ASSUME StatusInv, Printed PROVE ThrottledIsNotDone
    BY DEF ThrottledIsNotDone
  <1>0. /\ PollHonest /\ BotsInv /\ delimited \in BOOLEAN /\ poll.head # 0 /\ poll.head \in Nat
        /\ poll.summary.marker \in BOOLEAN /\ poll.summary.range \in Nat
        /\ \A r \in poll.reviews : r.on \in Nat
    <2>1. poll \in Polls /\ delimited \in BOOLEAN
      BY DEF StatusInv, TypeOK, BotsTypeOK
    <2>2. /\ poll.head \in 0..Heads /\ poll.summary.range \in 0..Heads
          /\ poll.summary.marker \in BOOLEAN /\ poll.reviews \subseteq Submitted
      BY <2>1, PollFields, SummaryFields
    <2>3. \A r \in Submitted : r.on \in 1..Heads
      BY DEF Submitted
    <2>4. QED
      BY <2>1, <2>2, <2>3, StatusAssumption DEF StatusInv, PollHonest, Printed
  <1>1. body_on_head(poll, poll.head) => poll.head \in read
    BY <1>0 DEF body_on_head, PollHonest, ProseHonest
  <1>2. poll.head \in Nat /\ poll.head >= poll.head
    BY <1>0
  <1>3. ASSUME marker_on_head(poll, poll.head), delimited \/ poll.steady
        PROVE  \E n \in read : n >= poll.head
    <2>1. CASE poll.summary.block # 0
      <3>1. poll.summary.block = poll.head /\ poll.summary.block \in read
        BY <1>0, <1>3, <2>1 DEF marker_on_head, MarkerCovers, PollHonest, BodyHonest
      <3>2. QED
        BY <1>2, <3>1
    <2>2. CASE poll.summary.block = 0
      <3>1. poll.summary.marker /\ ~IsNotice(poll.summary.notice)
        BY <1>3, <2>2 DEF marker_on_head, MarkerCovers
      <3>2. ~delimited /\ poll.summary.range \in read
        BY <1>0, <3>1 DEF PollHonest, BodyHonest
      <3>3. \A r \in poll.reviews : r.on <= poll.summary.range
        BY <1>0, <1>3, <3>2 DEF PollHonest
      <3>4. poll.summary.range >= poll.head
        <4>1. CASE ReviewOn(poll, poll.head)
          BY <1>0, <3>3, <4>1 DEF ReviewOn
        <4>2. CASE WalkOn(poll, poll.head)
          BY <1>0, <2>2, <4>2 DEF WalkOn
        <4>3. QED
          BY <1>3, <4>1, <4>2 DEF marker_on_head
      <3>5. QED
        BY <3>2, <3>4
    <2>3. QED
      BY <2>1, <2>2
  <1>4. ASSUME poll.declined, poll.head \notin read PROVE CodeRabbit # "done"
    <2>1. /\ poll.summary.range = poll.head /\ poll.summary.notice \in {"limit", "pause"}
          /\ poll.summary.range # 0
      BY <1>0, <1>4 DEF PollHonest, IsNotice
    <2>2. ~marker_on_head(poll, poll.head)
      <3>1. poll.summary.block # poll.head
        BY <1>0, <1>4 DEF PollHonest, BodyHonest
      <3>2. QED
        BY <2>1, <3>1 DEF marker_on_head, MarkerCovers, IsNotice
    <2>3. ~with_content(poll, poll.head)
      BY <1>1, <1>4, <2>2 DEF with_content
    <2>4. Demotion(poll, poll.head) # "done"
      BY <2>1, <2>3 DEF Demotion
    <2>5. Transient(poll) # "done"
      BY DEF Transient
    <2>6. QED
      BY <2>4, <2>5 DEF CodeRabbit, coderabbit_state
  <1>5. QED
    BY <1>1, <1>2, <1>3, <1>4 DEF ThrottledIsNotDone, with_content

LEMMA FinishedShows ==
    (\A s, t \in Seats : LabelOf[s] = LabelOf[t] => s = t) /\ StatusInv => FinishedReadsDone
  <1> SUFFICES ASSUME \A s, t \in Seats : LabelOf[s] = LabelOf[t] => s = t, StatusInv, Printed
               PROVE  FinishedReadsDone
    BY DEF FinishedReadsDone
  <1>0. /\ poll \in Polls /\ configured \subseteq Seats /\ poll.comments \in Seq(Receipts)
        /\ poll.step = "rows" /\ delimited \in BOOLEAN /\ poll.head # 0
    BY PollFields DEF StatusInv, TypeOK, ReceiptsTypeOK, BotsTypeOK, Printed, PollHonest
  <1>1. ASSUME NEW s \in poll.done \cap configured
        PROVE  \E row \in Rows : row = [label |-> LabelOf[s], state |-> "done"]
    <2>1. s \in Seats /\ LastWord(poll.comments, s, poll.head)
      BY <1>0, <1>1 DEF StatusInv, SeatsSettled
    <2>2. PICK i \in DOMAIN poll.comments :
              /\ poll.comments[i] = [by |-> "fuko", seat |-> s, head |-> poll.head, of |-> Review]
              /\ \A j \in DOMAIN poll.comments :
                    poll.comments[j].by = "fuko" /\ poll.comments[j].seat = s => j <= i
      BY <2>1 DEF LastWord
    <2>3. \A j \in DOMAIN poll.comments : poll.comments[j].seat \in Seats
      BY <1>0, ReceiptFields
    <2>4. poll.comments[i] \in NewestOf(poll.comments, LabelOf[s])
      <3>1. \A j \in DOMAIN poll.comments :
                AuthorAllowed(poll.comments[j]) /\ LabelOf[poll.comments[j].seat] = LabelOf[s] => j <= i
        BY <2>1, <2>2, <2>3 DEF AuthorAllowed
      <3>2. AuthorAllowed(poll.comments[i]) /\ LabelOf[poll.comments[i].seat] = LabelOf[s]
        BY <2>2 DEF AuthorAllowed
      <3>3. QED
        BY <3>1, <3>2 DEF NewestOf
    <2>5. poll.known = {} \/ LabelOf[poll.comments[i].seat] \in poll.known
      BY <1>1, <2>2 DEF StatusInv, SeatsSettled
    <2>6. RowState(poll.comments[i], poll.head, poll.known) = "done"
      BY <2>2, <2>5, ReviewIsDone
    <2>7. QED
      BY <2>1, <2>4, <2>6, ReceiptHasRow
  <1>2. ASSUME "coderabbit" \in poll.done, delimited \/ ~IsNotice(poll.summary.notice)
        PROVE  CodeRabbit = "done"
    <2>1. ResultOn(poll.summary, poll.head) /\ poll.check # "running"
      BY <1>0, <1>2 DEF StatusInv, CodeRabbitSettled
    <2>2. MarkerCovers(poll.summary, poll.head) /\ WalkOn(poll, poll.head)
      <3>1. CASE delimited
        BY <1>0, <2>1, <3>1 DEF ResultOn, MarkerCovers, WalkOn
      <3>2. CASE ~delimited
        <4>1. poll.summary.block = 0
          BY <3>2 DEF StatusInv, PollHonest, BodyHonest
        <4>2. QED
          BY <1>2, <2>1, <3>2, <4>1 DEF ResultOn, MarkerCovers, WalkOn
      <3>3. QED
        BY <1>0, <3>1, <3>2
    <2>3. marker_on_head(poll, poll.head) /\ with_content(poll, poll.head)
      BY <2>2 DEF marker_on_head, with_content
    <2>4. poll.summary # NoSummary
      BY <1>0, <2>1 DEF ResultOn, NoSummary
    <2>5. Demotion(poll, poll.head) = "done"
      BY <2>3 DEF Demotion
    <2>6. QED
      BY <2>1, <2>2, <2>3, <2>4, <2>5 DEF CodeRabbit, coderabbit_state
  <1>3. "copilot" \in poll.done => copilot_state(poll, poll.head) = "done"
    BY <1>0 DEF StatusInv, CopilotSettled, copilot_state
  <1>4. QED
    BY <1>1, <1>2, <1>3 DEF FinishedReadsDone

\* What fuko status has fetched, and the receipts, notices and debts it is
\* fetched from, keep their types, and a branch's header stays its own comment.
THEOREM StatusTypeCorrect == Spec => []TypeOK
  <1>1. StatusInv => TypeOK
    BY DEF StatusInv
  <1>2. QED
    BY <1>1, StatusInvariant, PTL

\* fuko_states: a seat's row reads done only over a review of its own, of that
\* head or a newer one, whoever was cancelled, lost, quoted or renamed.
THEOREM DoneIsCovered == Spec => []CoverageIsReal
  BY RealCoverage, StatusInvariant, PTL

\* coderabbit_state: content vouches only for heads that were read, and a head
\* the summary declines is not done, whatever completion signals it has.
THEOREM DeclinedIsNotDone == Spec => []ThrottledIsNotDone
  BY RealContent, StatusInvariant, PTL

\* reviewer_states: whoever had finished before the poll reads done in it, for
\* seats whose labels tell them apart.
THEOREM FinishedStaysDone ==
    ASSUME \A s, t \in Seats : LabelOf[s] = LabelOf[t] => s = t
    PROVE  Spec => []FinishedReadsDone
  <1>1. StatusInv => FinishedReadsDone
    BY FinishedShows
  <1>2. QED
    BY <1>1, StatusInvariant, PTL

=============================================================================

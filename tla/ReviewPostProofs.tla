-------------------------- MODULE ReviewPostProofs --------------------------
(***************************************************************************)
(* Theorems about ReviewPost, for any branches, labels and number of       *)
(* attempts.                                                               *)
(***************************************************************************)
EXTENDS ReviewPost, TLAPS

-----------------------------------------------------------------------------
(* Types *)

\* What a branch is sending is one of the posts, and is its own.
LEMMA CurrentIsAPost ==
    ASSUME TypeOK, NEW b \in Branches
    PROVE  Current(b) \in Posts /\ By(Current(b)) = b
    BY DEF TypeOK, Current, Posts, By, Bodies

\* The next attempt of _send_review stays within _POST_ATTEMPTS.
LEMMA NextAttemptTypes ==
    ASSUME TypeOK, NEW b \in Branches, NextAttempt(b)
    PROVE  /\ pc' \in [Branches -> {"claim", "send", "readback", "over"}]
           /\ attempt' \in [Branches -> 1..POST_ATTEMPTS]
           /\ signals' \in [Branches -> BOOLEAN]
    <1>1. CASE attempt[b] = POST_ATTEMPTS
      BY <1>1 DEF TypeOK, NextAttempt, Reports, Goto
    <1>2. CASE attempt[b] # POST_ATTEMPTS
      <2>1. attempt[b] + 1 \in 1..POST_ATTEMPTS
        BY <1>2, PostConstants DEF TypeOK
      <2>2. QED
        BY <1>2, <2>1 DEF TypeOK, NextAttempt, Goto
    <1>3. QED
      BY <1>1, <1>2

\* A run keeps its labels.
LEMMA LabelsStay == [Next]_vars => UNCHANGED labels
    BY DEF Next, Step, vars

LEMMA TypeStep == TypeOK /\ [Next]_vars => TypeOK'
  <1> SUFFICES ASSUME TypeOK, [Next]_vars PROVE TypeOK'
    OBVIOUS
  <1>0. labels' \in Labellings
    BY LabelsStay DEF TypeOK
  <1>1. ASSUME NEW b \in Branches, Claim(b) PROVE TypeOK'
    <2>1. body' \in [Branches -> Bodies]
      BY <1>1 DEF TypeOK, Claim
    <2>2. pc' \in [Branches -> {"claim", "send", "readback", "over"}]
      BY <1>1 DEF TypeOK, Claim, Reports, Goto
    <2>3. signals' \in [Branches -> BOOLEAN]
      BY <1>1 DEF TypeOK, Claim, Reports
    <2>4. QED
      BY <1>0, <1>1, <2>1, <2>2, <2>3 DEF TypeOK, Claim
  <1>2. ASSUME NEW b \in Branches, OutOfTime(b) \/ Refused(b) PROVE TypeOK'
    BY <1>0, <1>2 DEF TypeOK, OutOfTime, Refused, Reports, Goto
  <1>3. ASSUME NEW b \in Branches, Accepted(b) PROVE TypeOK'
    <2>1. Current(b) \in Posts
      BY CurrentIsAPost
    <2>2. QED
      BY <1>0, <1>3, <2>1 DEF TypeOK, Accepted, Reports, Goto
  <1>4. ASSUME NEW b \in Branches, Unanchorable(b) PROVE TypeOK'
    BY <1>0, <1>4, PostConstants DEF TypeOK, Unanchorable, Bodies
  <1>5. ASSUME NEW b \in Branches, Unreached(b) PROVE TypeOK'
    <2>1. NextAttempt(b)
      BY <1>5 DEF Unreached
    <2>2. QED
      BY <1>0, <1>5, <2>1, NextAttemptTypes DEF TypeOK, Unreached
  <1>6. ASSUME NEW b \in Branches, Ambiguous(b) PROVE TypeOK'
    <2>1. Current(b) \in Posts
      BY CurrentIsAPost
    <2>2. posted' \subseteq Posts /\ pending' \subseteq Posts
      BY <1>6, <2>1 DEF TypeOK, Ambiguous
    <2>3. QED
      BY <1>0, <1>6, <2>2 DEF TypeOK, Ambiguous, Goto
  <1>7. ASSUME NEW b \in Branches, ReadBack(b) PROVE TypeOK'
    <2>1. CASE NextAttempt(b)
      BY <1>0, <1>7, <2>1, NextAttemptTypes DEF TypeOK, ReadBack
    <2>2. CASE (Reports(b, TRUE) \/ Reports(b, FALSE)) /\ UNCHANGED attempt
      BY <1>0, <1>7, <2>2 DEF TypeOK, ReadBack, Reports, Goto
    <2>3. QED
      BY <1>7, <2>1, <2>2 DEF ReadBack
  <1>8. ASSUME NEW b \in Branches, Killed(b) PROVE TypeOK'
    BY <1>0, <1>8 DEF TypeOK, Killed, Goto
  <1>9. ASSUME NEW p \in Posts, CommitsLate(p) PROVE TypeOK'
    BY <1>0, <1>9 DEF TypeOK, CommitsLate
  <1>10. CASE UNCHANGED vars
    BY <1>10 DEF TypeOK, vars
  <1>11. QED
    BY <1>1, <1>2, <1>3, <1>4, <1>5, <1>6, <1>7, <1>8, <1>9, <1>10 DEF Next, Step

\* ReviewPost keeps the types of its variables, and no branch attempts a post
\* more than _POST_ATTEMPTS times over.
THEOREM PostTypeCorrect == Spec => []TypeOK
  <1>1. Init => TypeOK
    BY PostConstants DEF Init, TypeOK, Bodies
  <1>2. QED
    BY <1>1, TypeStep, PTL DEF Spec

-----------------------------------------------------------------------------
(* At most one review of a branch *)

\* A branch that is about to send has no review on the pull request, late ones
\* aside: that is what a read-back answered "no" has established.
NothingPostedBefore ==
    /\ \A b \in Branches : pc[b] \in {"claim", "send"} => \A p \in posted \ late : By(p) # b
    /\ PostedOnce

\* The step of one branch: only it moves, and it adds at most its current post
\* while it has none.
LEMMA OneMorePost ==
    ASSUME TypeOK, NothingPostedBefore, NEW b \in Branches,
           pc[b] = "send",
           posted' = posted \cup {Current(b)}, UNCHANGED late,
           pc' = [pc EXCEPT ![b] = "over"] \/ pc' = [pc EXCEPT ![b] = "readback"]
    PROVE  NothingPostedBefore'
    <1>1. By(Current(b)) = b
      BY CurrentIsAPost
    <1>2. \A p \in posted \ late : By(p) # b
      BY DEF NothingPostedBefore
    <1>3. PostedOnce'
      BY <1>1, <1>2 DEF NothingPostedBefore, PostedOnce
    <1>4. ASSUME NEW c \in Branches, pc'[c] \in {"claim", "send"}
          PROVE  \A p \in posted' \ late' : By(p) # c
      <2>1. c # b /\ pc[c] \in {"claim", "send"}
        BY <1>4 DEF TypeOK
      <2>2. QED
        BY <2>1, <1>1 DEF NothingPostedBefore
    <1>5. QED
      BY <1>3, <1>4 DEF NothingPostedBefore

\* The step of a branch that commits nothing and is not about to send unless
\* nothing of its own is posted.
LEMMA NoPost ==
    ASSUME TypeOK, NothingPostedBefore, NEW b \in Branches,
           UNCHANGED <<posted, late>>, NEW l, pc' = [pc EXCEPT ![b] = l],
           l \in {"claim", "send"} => \A p \in posted \ late : By(p) # b
    PROVE  NothingPostedBefore'
    <1>1. ASSUME NEW c \in Branches, pc'[c] \in {"claim", "send"}
          PROVE  \A p \in posted \ late : By(p) # c
      <2>1. CASE c = b
        BY <1>1, <2>1 DEF TypeOK
      <2>2. CASE c # b
        BY <1>1, <2>2 DEF TypeOK, NothingPostedBefore
      <2>3. QED
        BY <2>1, <2>2
    <1>2. QED
      BY <1>1 DEF NothingPostedBefore, PostedOnce

LEMMA NextAttemptGoes ==
    ASSUME NEW b \in Branches, NextAttempt(b)
    PROVE  pc' = [pc EXCEPT ![b] = "over"] \/ pc' = [pc EXCEPT ![b] = "send"]
    BY DEF NextAttempt, Reports, Goto

LEMMA PostStep == TypeOK /\ NothingPostedBefore /\ [Next]_vars => NothingPostedBefore'
  <1> SUFFICES ASSUME TypeOK, NothingPostedBefore, [Next]_vars PROVE NothingPostedBefore'
    OBVIOUS
  <1>1. ASSUME NEW b \in Branches, Claim(b) PROVE NothingPostedBefore'
    <2>1. \A p \in posted \ late : By(p) # b
      BY <1>1 DEF Claim, NothingPostedBefore
    <2>2. QED
      BY <1>1, <2>1, NoPost DEF Claim, Reports, Goto
  <1>2. ASSUME NEW b \in Branches, OutOfTime(b) \/ Refused(b) PROVE NothingPostedBefore'
    BY <1>2, NoPost DEF OutOfTime, Refused, Reports, Goto
  <1>3. ASSUME NEW b \in Branches, Accepted(b) PROVE NothingPostedBefore'
    BY <1>3, OneMorePost DEF Accepted, Reports, Goto
  <1>4. ASSUME NEW b \in Branches, Unanchorable(b) PROVE NothingPostedBefore'
    BY <1>4 DEF Unanchorable, NothingPostedBefore, PostedOnce
  <1>5. ASSUME NEW b \in Branches, Unreached(b) PROVE NothingPostedBefore'
    <2>1. \A p \in posted \ late : By(p) # b
      BY <1>5 DEF Unreached, NothingPostedBefore
    <2>2. UNCHANGED <<posted, late>> /\ NextAttempt(b)
      BY <1>5 DEF Unreached
    <2>3. QED
      BY <2>1, <2>2, NextAttemptGoes, NoPost
  <1>6. ASSUME NEW b \in Branches, Ambiguous(b) PROVE NothingPostedBefore'
    <2>1. pc' = [pc EXCEPT ![b] = "readback"] /\ pc[b] = "send"
      BY <1>6 DEF Ambiguous, Goto
    <2>2. CASE posted' = posted \cup {Current(b)} /\ UNCHANGED late
      BY <2>1, <2>2, OneMorePost
    <2>3. CASE UNCHANGED <<posted, late>>
      BY <2>1, <2>3, NoPost
    <2>4. QED
      BY <1>6, <2>2, <2>3 DEF Ambiguous
  <1>7. ASSUME NEW b \in Branches, ReadBack(b) PROVE NothingPostedBefore'
    <2>1. UNCHANGED <<posted, late>>
      BY <1>7 DEF ReadBack
    <2>2. CASE pc' = [pc EXCEPT ![b] = "over"]
      BY <2>1, <2>2, NoPost
    <2>3. CASE "no" \in Answers(b) /\ NextAttempt(b)
      <3>1. ~Fingerprint(b)
        BY <2>3 DEF Answers
      <3>2. \A p \in posted \ late : By(p) # b
        BY <3>1 DEF Fingerprint
      <3>3. QED
        BY <2>1, <2>3, <3>2, NextAttemptGoes, NoPost
    <2>4. QED
      BY <1>7, <2>2, <2>3 DEF ReadBack, Reports, Goto
  <1>8. ASSUME NEW b \in Branches, Killed(b) PROVE NothingPostedBefore'
    BY <1>8, NoPost DEF Killed, Goto
  <1>9. ASSUME NEW p \in Posts, CommitsLate(p) PROVE NothingPostedBefore'
    BY <1>9 DEF CommitsLate, NothingPostedBefore, PostedOnce
  <1>10. CASE UNCHANGED vars
    BY <1>10 DEF vars, NothingPostedBefore, PostedOnce
  <1>11. QED
    BY <1>1, <1>2, <1>3, <1>4, <1>5, <1>6, <1>7, <1>8, <1>9, <1>10 DEF Next, Step

\* _send_review: but for posts committed after their answer was given up, no
\* branch's review is ever on the pull request twice -- for any branches, even
\* with shared labels, and any number of attempts.
THEOREM PostsAtMostOnce == Spec => []PostedOnce
  <1>1. Init => TypeOK /\ NothingPostedBefore
    BY PostConstants DEF Init, TypeOK, Bodies, NothingPostedBefore, PostedOnce
  <1>2. TypeOK /\ NothingPostedBefore /\ [Next]_vars => (TypeOK /\ NothingPostedBefore)'
    BY TypeStep, PostStep
  <1>3. TypeOK /\ NothingPostedBefore => PostedOnce
    BY DEF NothingPostedBefore
  <1>4. QED
    BY <1>1, <1>2, <1>3, PTL DEF Spec

-----------------------------------------------------------------------------
(* Signals of a review with one's label *)

\* What backs the signals of b, by the posts of a state: SignalsArePosted.
Backed(b) == HasPosted(b) \/ (\E c \in Twins(b) : HasPosted(c)) \/ Label(b) \in Earlier

\* Posts are never taken back, so what backs a branch goes on backing it.
LEMMA BackedForGood ==
    ASSUME NEW b \in Branches, posted \subseteq posted', UNCHANGED labels, Backed(b)
    PROVE  Backed(b)'
    <1>1. ASSUME NEW c, HasPosted(c) PROVE HasPosted(c)'
      BY <1>1 DEF HasPosted
    <1>2. QED
      BY <1>1 DEF Backed, Twins, Label, Earlier

\* What a read-back finds backs the branch that asked.
LEMMA FoundBacks ==
    ASSUME TypeOK, NEW b \in Branches, Fingerprint(b)
    PROVE  Backed(b)
    <1>1. CASE Label(b) \in Earlier
      BY <1>1 DEF Backed
    <1>2. ASSUME NEW p \in posted, Label(By(p)) = Label(b) PROVE Backed(b)
      <2>1. By(p) \in Branches /\ HasPosted(By(p))
        BY DEF TypeOK, Posts, By, HasPosted
      <2>2. By(p) = b \/ By(p) \in Twins(b)
        BY <1>2, <2>1 DEF Twins
      <2>3. QED
        BY <2>1, <2>2 DEF Backed
    <1>3. QED
      BY <1>1, <1>2 DEF Fingerprint

LEMMA SignalKept ==
    ASSUME SignalsArePosted, posted \subseteq posted', UNCHANGED <<labels, signals>>
    PROVE  SignalsArePosted'
    <1>1. ASSUME NEW b \in Branches, signals[b] PROVE Backed(b)'
      BY <1>1, BackedForGood DEF SignalsArePosted, Backed
    <1>2. QED
      BY <1>1 DEF SignalsArePosted, Backed

LEMMA SignalReported ==
    ASSUME TypeOK, SignalsArePosted, posted \subseteq posted', UNCHANGED labels,
           NEW b \in Branches,
           NEW landed \in BOOLEAN, signals' = [signals EXCEPT ![b] = landed],
           landed => Backed(b)'
    PROVE  SignalsArePosted'
    <1>1. ASSUME NEW c \in Branches, signals'[c] PROVE Backed(c)'
      <2>1. CASE c = b
        BY <1>1, <2>1 DEF TypeOK
      <2>2. CASE c # b
        <3>1. signals[c]
          BY <1>1, <2>2 DEF TypeOK
        <3>2. QED
          BY <3>1, BackedForGood DEF SignalsArePosted, Backed
      <2>3. QED
        BY <2>1, <2>2
    <1>2. QED
      BY <1>1 DEF SignalsArePosted, Backed

LEMMA NextAttemptSignals ==
    ASSUME NEW b \in Branches, NextAttempt(b)
    PROVE  signals' = [signals EXCEPT ![b] = FALSE] \/ UNCHANGED signals
    BY DEF NextAttempt, Reports

LEMMA SignalStep == TypeOK /\ SignalsArePosted /\ [Next]_vars => SignalsArePosted'
  <1> SUFFICES ASSUME TypeOK, SignalsArePosted, [Next]_vars PROVE SignalsArePosted'
    OBVIOUS
  <1>0. UNCHANGED labels
    BY LabelsStay
  <1>1. ASSUME NEW b \in Branches, Claim(b) \/ OutOfTime(b) \/ Refused(b) \/ Unreached(b)
                                   \/ Unanchorable(b) \/ Killed(b) \/ Ambiguous(b)
        PROVE  SignalsArePosted'
    <2>1. posted \subseteq posted'
      BY <1>1 DEF Claim, OutOfTime, Refused, Unreached, Unanchorable, Killed, Ambiguous
    <2>2. signals' = [signals EXCEPT ![b] = FALSE] \/ UNCHANGED signals
      BY <1>1, NextAttemptSignals
         DEF Claim, OutOfTime, Refused, Unreached, Unanchorable, Killed, Ambiguous, Reports
    <2>3. QED
      BY <1>0, <2>1, <2>2, SignalKept, SignalReported
  <1>2. ASSUME NEW b \in Branches, Accepted(b) PROVE SignalsArePosted'
    <2>1. posted' = posted \cup {Current(b)} /\ signals' = [signals EXCEPT ![b] = TRUE]
      BY <1>2 DEF Accepted, Reports
    <2>2. HasPosted(b)'
      BY <2>1, CurrentIsAPost DEF HasPosted
    <2>3. Backed(b)'
      BY <2>2 DEF Backed
    <2>4. QED
      BY <1>0, <2>1, <2>3, SignalReported
  <1>3. ASSUME NEW b \in Branches, ReadBack(b) PROVE SignalsArePosted'
    <2>1. UNCHANGED posted
      BY <1>3 DEF ReadBack
    <2>2. CASE signals' = [signals EXCEPT ![b] = FALSE] \/ UNCHANGED signals
      BY <1>0, <2>1, <2>2, SignalKept, SignalReported
    <2>3. CASE "yes" \in Answers(b) /\ signals' = [signals EXCEPT ![b] = TRUE]
      <3>1. Fingerprint(b)
        BY <2>3 DEF Answers
      <3>2. Backed(b)'
        BY <1>0, <2>1, <3>1, FoundBacks, BackedForGood
      <3>3. QED
        BY <1>0, <2>1, <2>3, <3>2, SignalReported
    <2>4. QED
      BY <1>3, <2>2, <2>3, NextAttemptSignals DEF ReadBack, Reports
  <1>4. ASSUME NEW p \in Posts, CommitsLate(p) PROVE SignalsArePosted'
    BY <1>0, <1>4, SignalKept DEF CommitsLate
  <1>5. CASE UNCHANGED vars
    BY <1>0, <1>5, SignalKept DEF vars
  <1>6. QED
    BY <1>1, <1>2, <1>3, <1>4, <1>5 DEF Next, Step

\* normalize_output: a branch only reports findings when a review with its
\* label is on the pull request -- its own, a twin's of the same model or an
\* earlier run's -- for any branches and any labels, the shared ones included,
\* and even when posts commit late.  A label that nobody else used on the head
\* therefore vouches for the branch's own review.
THEOREM SignalsAreHonest == Spec => []SignalsArePosted
  <1>1. Init => TypeOK /\ SignalsArePosted
    BY PostConstants DEF Init, TypeOK, Bodies, SignalsArePosted
  <1>2. TypeOK /\ SignalsArePosted /\ [Next]_vars => (TypeOK /\ SignalsArePosted)'
    BY TypeStep, SignalStep
  <1>3. QED
    BY <1>1, <1>2, PTL DEF Spec
=============================================================================

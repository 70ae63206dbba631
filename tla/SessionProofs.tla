---------------------------- MODULE SessionProofs ----------------------------
(***************************************************************************)
(* Theorems about Session, for any failover chain, feed, lengths, pipe      *)
(* capacity and number of deliveries, and for runners and sidecars that die *)
(* anywhere.                                                               *)
(***************************************************************************)
EXTENDS Session, FiniteSetTheorems, TLAPS

-----------------------------------------------------------------------------
(* Types *)

LEMMA FeedOfLines == Feed \subseteq Lines
    BY HarnessAssumption DEF Lines, Shown

LEMMA ContentFields ==
    ASSUME NEW p \in Contents
    PROVE  /\ p.in \in 0..PipeCap /\ p.out \in Seq(Lines) /\ p.err \in 0..PipeCap
           /\ \A n \in 0..PipeCap : [p EXCEPT !.in = n] \in Contents /\ [p EXCEPT !.in = n].out = p.out
           /\ \A n \in 0..PipeCap : [p EXCEPT !.err = n] \in Contents /\ [p EXCEPT !.err = n].out = p.out
           /\ \A s \in Seq(Lines) : [p EXCEPT !.out = s] \in Contents /\ [p EXCEPT !.out = s].out = s
    BY DEF Contents

LEMMA AmountFields ==
    ASSUME NEW a \in Amounts
    PROVE  /\ a.lines \in Nat /\ a.warnings \in Nat /\ a.prompt \in Nat
           /\ \A n \in Nat : /\ [a EXCEPT !.lines = n] \in Amounts
                            /\ [a EXCEPT !.warnings = n] \in Amounts
                            /\ [a EXCEPT !.prompt = n] \in Amounts
    BY DEF Amounts

LEMMA CaptureFields ==
    ASSUME NEW c \in Captures
    PROVE  /\ c.accepted \in Nat /\ c.on \in BOOLEAN /\ c.failed \in BOOLEAN /\ c.stored \in BOOLEAN
           /\ \A n \in Nat : [c EXCEPT !.accepted = n] \in Captures
           /\ \A t \in BOOLEAN : /\ [c EXCEPT !.failed = t] \in Captures
                                 /\ [c EXCEPT !.closed = t] \in Captures
    BY DEF Captures

LEMMA EmptyPipe == Empty \in Contents /\ Len(Empty.out) <= PipeCap
    BY HarnessAssumption DEF Empty, Contents

LEMMA LengthsAreAmounts == \A k \in Keys : Lengths[k] \in Amounts
    BY HarnessAssumption DEF Amounts

LEMMA CountIsNat ==
    ASSUME NEW s \in Seq(Lines), NEW e
    PROVE  Count(s, e) \in Nat
  <1>1. {i \in DOMAIN s : s[i].event = e} \subseteq 1..Len(s)
    OBVIOUS
  <1>2. IsFiniteSet({i \in DOMAIN s : s[i].event = e})
    BY <1>1, FS_Interval, FS_Subset
  <1>3. QED
    BY <1>2, FS_CardinalityType DEF Count

LEMMA FiguresAreFigured == \A s \in Seq(Lines) : Figures(s) \in Figured
    BY CountIsNat DEF Figures, Figured

\* What the sink is handed is a line.
LEMMA ScrubbedIsLine == \A l \in Lines : Scrubbed(l) \in Lines
    BY DEF Scrubbed, Scrub, ScrubPartial, Lines, Shown

LEMMA CutIsLine == \A l \in Lines : CutOf(l) \subseteq Lines
    BY DEF CutOf, Lines, Shown, Events

LEMMA LastWordsAreLines ==
    ASSUME HarnessTypeOK, NEW words \in LastWords
    PROVE  /\ words \in Seq(Lines)
           /\ words = <<>> \/ (Len(words) = 1 /\ left.lines > 0 /\ Len(pipe.out) < PipeCap)
  <1>1. CASE words = <<>>
    BY <1>1
  <1>2. CASE words # <<>>
    <2>1. left.lines > 0 /\ Len(pipe.out) < PipeCap
      BY <1>2 DEF LastWords
    <2>2. \/ \E l \in Feed : words = <<Unterminated(l)>>
          \/ \E m \in Feed : \E l \in CutOf(m) : words = <<l>>
      BY <1>2 DEF LastWords
    <2>3. \A l \in Feed : Unterminated(l) \in Lines
      BY FeedOfLines DEF Unterminated, Lines
    <2>4. \E l \in Lines : words = <<l>>
      BY <2>2, <2>3, FeedOfLines, CutIsLine
    <2>5. QED
      BY <2>1, <2>4
  <1>3. QED
    BY <1>1, <1>2

LEMMA DiesTypes ==
    ASSUME HarnessTypeOK, NEW how \in {"exited", "killed"}, Dies(how), ending' \in {"open", "killed", "broken"}
    PROVE  HarnessTypeOK'
  <1>1. PICK words \in LastWords :
            /\ pipe' = [pipe EXCEPT !.out = @ \o words]
            /\ left' = [left EXCEPT !.lines = @ - Len(words)]
    BY DEF Dies
  <1>2. /\ words \in Seq(Lines)
        /\ words = <<>> \/ (Len(words) = 1 /\ left.lines > 0 /\ Len(pipe.out) < PipeCap)
    BY LastWordsAreLines
  <1>3. /\ pipe.out \in Seq(Lines) /\ Len(pipe.out) <= PipeCap /\ PipeCap \in Nat /\ left.lines \in Nat
        /\ pipe \in Contents /\ left \in Amounts
    BY HarnessAssumption, ContentFields, AmountFields DEF HarnessTypeOK
  <1>4. /\ pipe.out \o words \in Seq(Lines)
        /\ Len(pipe.out \o words) <= PipeCap
        /\ left.lines - Len(words) \in Nat
    <2>1. /\ pipe.out \o words \in Seq(Lines)
          /\ Len(pipe.out \o words) = Len(pipe.out) + Len(words)
          /\ Len(pipe.out) \in Nat
      BY <1>2, <1>3
    <2>2. Len(words) = 0 \/ (Len(words) = 1 /\ left.lines > 0 /\ Len(pipe.out) < PipeCap)
      BY <1>2
    <2>3. CASE Len(words) = 0
      <3>1. Len(pipe.out \o words) <= PipeCap
        BY <1>3, <2>1, <2>3
      <3>2. left.lines - Len(words) \in Nat
        BY <1>3, <2>3
      <3>3. QED
        BY <2>1, <3>1, <3>2
    <2>4. CASE Len(words) = 1 /\ left.lines > 0 /\ Len(pipe.out) < PipeCap
      <3>1. Len(pipe.out \o words) <= PipeCap
        BY <1>3, <2>1, <2>4
      <3>2. left.lines - Len(words) \in Nat
        BY <1>3, <2>4
      <3>3. QED
        BY <2>1, <3>1, <3>2
    <2>5. QED
      BY <2>2, <2>3, <2>4
  <1>5. pipe' \in Contents /\ Len(pipe'.out) <= PipeCap
    BY <1>1, <1>3, <1>4, ContentFields
  <1>6. left' \in Amounts
    BY <1>1, <1>3, <1>4, AmountFields
  <1>7. QED
    BY <1>5, <1>6 DEF Dies, HarnessTypeOK

LEMMA OfferTypes ==
    ASSUME HarnessTypeOK, NEW l \in Lines, Offer(l)
    PROVE  capture' \in Captures /\ files' \in [Keys -> Seq(Lines)]
  <1>1. /\ files \in [Keys -> Seq(Lines)] /\ leg \in Keys /\ files[leg] \in Seq(Lines)
        /\ capture \in Captures /\ capture.accepted + 1 \in Nat
    BY CaptureFields DEF HarnessTypeOK
  <1>2. Scrubbed(l) \in Lines /\ Line("noise", "none") \in Lines
    BY ScrubbedIsLine DEF Line, Lines, Events, Shown
  <1>3. CASE UNCHANGED <<capture, files>>
    BY <1>1, <1>3
  <1>4. CASE /\ files' = [files EXCEPT ![leg] = Append(@, Scrubbed(l))]
             /\ capture' = [capture EXCEPT !.accepted = @ + 1]
    <2>1. Append(files[leg], Scrubbed(l)) \in Seq(Lines)
      BY <1>1, <1>2
    <2>2. QED
      BY <1>1, <1>4, <2>1, CaptureFields
  <1>5. ASSUME capture' = Inert, NEW piece \in {<<>>, <<Line("noise", "none")>>},
               files' = [files EXCEPT ![leg] = @ \o piece]
        PROVE  capture' \in Captures /\ files' \in [Keys -> Seq(Lines)]
    <2>1. piece \in Seq(Lines)
      <3>1. CASE piece = <<>>
        BY <3>1
      <3>2. CASE piece = <<Line("noise", "none")>>
        BY <3>2, <1>2
      <3>3. QED
        BY <1>5, <3>1, <3>2
    <2>2. files[leg] \o piece \in Seq(Lines)
      BY <1>1, <2>1
    <2>3. QED
      BY <1>1, <1>5, <2>2, CaptureFields DEF Inert
  <1>6. QED
    BY <1>3, <1>4, <1>5 DEF Offer

LEMMA HarnessTypeStep == HarnessTypeOK /\ HarnessStep => HarnessTypeOK'
  <1> SUFFICES ASSUME HarnessTypeOK, HarnessStep PROVE HarnessTypeOK'
    OBVIOUS
  <1>0. /\ pipe \in Contents /\ Len(pipe.out) <= PipeCap /\ PipeCap \in Nat \ {0}
        /\ pipe.in \in 0..PipeCap /\ pipe.out \in Seq(Lines) /\ pipe.err \in 0..PipeCap
        /\ left \in Amounts /\ left.lines \in Nat /\ left.warnings \in Nat /\ left.prompt \in Nat
    BY HarnessAssumption, ContentFields, AmountFields DEF HarnessTypeOK
  <1>1. CASE Feeds
    <2>1. /\ pipe' = pipe \/ (pipe.in < PipeCap /\ pipe' = [pipe EXCEPT !.in = @ + 1])
          /\ left' = [left EXCEPT !.prompt = 0] \/ (left.prompt > 0 /\ left' = [left EXCEPT !.prompt = @ - 1])
      BY <1>1 DEF Feeds
    <2>2. pipe' \in Contents /\ pipe'.out = pipe.out
      <3>1. CASE pipe' = pipe
        BY <1>0, <3>1
      <3>2. CASE pipe.in < PipeCap /\ pipe' = [pipe EXCEPT !.in = @ + 1]
        <4>1. pipe.in + 1 \in 0..PipeCap
          BY <1>0, <3>2
        <4>2. QED
          BY <1>0, <3>2, <4>1, ContentFields
      <3>3. QED
        BY <2>1, <3>1, <3>2
    <2>3. left' \in Amounts
      <3>1. CASE left' = [left EXCEPT !.prompt = 0]
        BY <1>0, <3>1, AmountFields
      <3>2. CASE left.prompt > 0 /\ left' = [left EXCEPT !.prompt = @ - 1]
        <4>1. left.prompt - 1 \in Nat
          BY <1>0, <3>2
        <4>2. QED
          BY <1>0, <3>2, <4>1, AmountFields
      <3>3. QED
        BY <2>1, <3>1, <3>2
    <2>4. QED
      BY <1>0, <1>1, <2>2, <2>3 DEF Feeds, HarnessTypeOK
  <1>2. CASE Drains
    <2>1. pipe.err - 1 \in 0..PipeCap /\ pipe' = [pipe EXCEPT !.err = pipe.err - 1]
      BY <1>0, <1>2 DEF Drains
    <2>2. pipe' \in Contents /\ pipe'.out = pipe.out
      BY <1>0, <2>1, ContentFields
    <2>3. QED
      BY <1>0, <1>2, <2>2 DEF Drains, HarnessTypeOK
  <1>3. CASE ChildStep
    <2>1. CASE ChildReads
      <3>1. PICK n \in 0..PipeCap : pipe' = [pipe EXCEPT !.in = n]
        <4>1. (IF pipe.in > 0 THEN pipe.in - 1 ELSE 0) \in 0..PipeCap
          BY <1>0
        <4>2. QED
          BY <2>1, <4>1 DEF ChildReads
      <3>2. pipe' \in Contents /\ pipe'.out = pipe.out
        BY <1>0, <3>1, ContentFields
      <3>3. QED
        BY <1>0, <1>3, <2>1, <3>2 DEF ChildStep, ChildReads, Does, HarnessTypeOK
    <2>2. CASE ChildSays
      <3>1. PICK l \in Feed : pipe' = [pipe EXCEPT !.out = Append(@, l)]
        BY <2>2 DEF ChildSays
      <3>2. Len(pipe.out) < PipeCap /\ left.lines > 0
        BY <2>2 DEF ChildSays, Does, Able
      <3>3. /\ Append(pipe.out, l) \in Seq(Lines) /\ Len(Append(pipe.out, l)) <= PipeCap
            /\ left.lines - 1 \in Nat
        BY <1>0, <3>2, FeedOfLines
      <3>4. pipe' \in Contents /\ Len(pipe'.out) <= PipeCap
        BY <1>0, <3>1, <3>3, ContentFields
      <3>5. left' \in Amounts
        BY <1>0, <2>2, <3>3, AmountFields DEF ChildSays
      <3>6. QED
        BY <1>3, <2>2, <3>4, <3>5 DEF ChildStep, ChildSays, Does, HarnessTypeOK
    <2>3. CASE ChildWarns
      <3>1. pipe.err < PipeCap /\ left.warnings > 0
        BY <2>3 DEF ChildWarns, Does, Able
      <3>2. /\ pipe' = [pipe EXCEPT !.err = pipe.err + 1] /\ pipe.err + 1 \in 0..PipeCap
            /\ left' = [left EXCEPT !.warnings = left.warnings - 1] /\ left.warnings - 1 \in Nat
        BY <1>0, <2>3, <3>1 DEF ChildWarns
      <3>3. pipe' \in Contents /\ pipe'.out = pipe.out
        BY <1>0, <3>2, ContentFields
      <3>4. left' \in Amounts
        BY <1>0, <3>2, AmountFields
      <3>5. QED
        BY <1>0, <1>3, <2>3, <3>3, <3>4 DEF ChildStep, ChildWarns, Does, HarnessTypeOK
    <2>4. CASE ChildBlocks \/ ChildHangs
      BY <1>3, <2>4 DEF ChildStep, ChildBlocks, ChildHangs, HarnessTypeOK
    <2>5. QED
      BY <1>3, <2>1, <2>2, <2>3, <2>4 DEF ChildStep
  <1>4. CASE ChildExits
    BY <1>4, DiesTypes DEF ChildExits, HarnessTypeOK
  <1>5. CASE Kill
    <2>1. CASE Dies("killed")
      BY <1>5, <2>1, DiesTypes DEF Kill
    <2>2. CASE UNCHANGED <<leg, main, proc, waits, pipe, left, held, capture, files>>
      BY <1>5, <2>2 DEF Kill, HarnessTypeOK
    <2>3. QED
      BY <1>5, <2>1, <2>2 DEF Kill
  <1>6. CASE Tees
    <2>1. pipe.out # <<>> /\ pipe' = [pipe EXCEPT !.out = Tail(pipe.out)]
      BY <1>6 DEF Tees
    <2>2. Head(pipe.out) \in Lines /\ Tail(pipe.out) \in Seq(Lines) /\ Len(Tail(pipe.out)) <= PipeCap
      BY <1>0, <2>1
    <2>3. capture' \in Captures /\ files' \in [Keys -> Seq(Lines)]
      BY <1>6, <2>2, OfferTypes DEF Tees
    <2>4. pipe' \in Contents /\ Len(pipe'.out) <= PipeCap
      BY <1>0, <2>1, <2>2, ContentFields
    <2>5. QED
      BY <1>6, <2>2, <2>3, <2>4 DEF Tees, HarnessTypeOK
  <1>7. CASE Folds
    BY <1>7 DEF Folds, HarnessTypeOK
  <1>8. ASSUME NEW how \in {"open", "killed", "broken"}, Finally(how) PROVE HarnessTypeOK'
    <2>1. left' \in Amounts
      BY <1>8, LengthsAreAmounts DEF Finally, HarnessTypeOK
    <2>2. QED
      BY <1>8, <2>1, EmptyPipe DEF Finally, HarnessTypeOK
  <1>9. CASE FeedOver \/ PipeFails
    BY <1>8, <1>9 DEF FeedOver, PipeFails, HarnessTypeOK
  <1>10. QED
    BY <1>1, <1>2, <1>3, <1>4, <1>5, <1>6, <1>7, <1>9 DEF HarnessStep

\* The changes a request goes through.
Replies == {"", "stored", "unconfigured", "refused"}
WithBody(u, b) == [u EXCEPT !.body = b]
WithReply(u, r) == [u EXCEPT !.reply = r]
Finished(u) == [u EXCEPT !.over = TRUE]
SameBut(u, b, o, why, r) == u.body = b /\ u.over = o /\ u.refusal = why /\ u.reply = r

LEMMA RequestFields ==
    ASSUME NEW u \in Requests
    PROVE  /\ u.body \in Seq(Lines) /\ u.over \in BOOLEAN /\ u # None
           /\ u.refusal \in {"no", "unconfigured", "unusable"}
           /\ u.reply \in {"", "stored", "unconfigured", "refused"}
           /\ \A b \in Seq(Lines) : /\ WithBody(u, b) \in Requests
                                    /\ SameBut(WithBody(u, b), b, u.over, u.refusal, u.reply)
           /\ Finished(u) \in Requests /\ SameBut(Finished(u), u.body, TRUE, u.refusal, u.reply)
           /\ \A r \in Replies : /\ WithReply(u, r) \in Requests
                                 /\ SameBut(WithReply(u, r), u.body, u.over, u.refusal, r)
    BY StoreAssumption DEF Requests, WithBody, WithReply, Finished, SameBut, Replies

Again(p, n) == [p EXCEPT !.again = n, !.step = "index"]

LEMMA PostFields ==
    ASSUME NEW p \in Posts
    PROVE  /\ p.key \in Keys \cup {None} /\ p.kind \in {"leg", "run"} /\ p.step \in {"index", "row"}
           /\ p.again \in 0..Redelivered /\ p.figures \in Figured \cup {None}
           /\ \A n \in 0..Redelivered :
                 /\ Again(p, n) \in Posts
                 /\ Again(p, n).key = p.key /\ Again(p, n).figures = p.figures /\ Again(p, n).step = "index"
           /\ \A k \in Keys \cup {None} :
                 /\ ThenRow(p, k) \in Posts
                 /\ ThenRow(p, k).key = k /\ ThenRow(p, k).figures = p.figures /\ ThenRow(p, k).step = "row"
    BY DEF Posts, ThenRow, Again

LEMMA PutTypes ==
    ASSUME StoreTypeOK, NEW k \in Keys, NEW how \in PutOutcomes, Put(k, how)
    PROVE  /\ blobs' \in [Keys -> Seq(Lines) \cup {None}]
           /\ uploads' \in [Keys -> Requests \cup {None}]
  <1>1. /\ blobs \in [Keys -> Seq(Lines) \cup {None}] /\ uploads \in [Keys -> Requests \cup {None}]
        /\ uploads[k] \in Requests /\ uploads[k].body \in Seq(Lines)
    <2>1. blobs \in [Keys -> Seq(Lines) \cup {None}] /\ uploads \in [Keys -> Requests \cup {None}]
      BY DEF StoreTypeOK
    <2>2. uploads[k] # None
      BY DEF Put
    <2>3. QED
      BY <2>1, <2>2, RequestFields
  <1>2. (IF how = "fails" \/ blobs[k] # None THEN blobs[k] ELSE uploads[k].body) \in Seq(Lines) \cup {None}
    BY <1>1
  <1>3. PICK r \in {"stored", "refused"} : uploads' = [uploads EXCEPT ![k] = WithReply(uploads[k], r)]
    <2>1. (IF how = "stored" /\ blobs[k] = None THEN "stored" ELSE "refused") \in {"stored", "refused"}
      OBVIOUS
    <2>2. QED
      BY <1>1, <2>1 DEF Put, WithReply
  <1>4. WithReply(uploads[k], r) \in Requests
    BY <1>1, RequestFields DEF Replies
  <1>5. QED
    BY <1>1, <1>2, <1>3, <1>4 DEF Put

LEMMA ContinueTypes ==
    ASSUME StoreTypeOK, NEW p \in posts, NEW ref \in {p.key, None}, Continue(p, ref)
    PROVE  posts' \subseteq Posts /\ \A q \in posts' : q.key # None => q.figures \in Figured
  <1>1. p \in Posts /\ (p.key # None => p.figures \in Figured)
    BY DEF StoreTypeOK
  <1>2. /\ ThenRow(p, ref) \in Posts /\ ThenRow(p, ref).key = ref /\ ThenRow(p, ref).figures = p.figures
    <2>1. ref \in Keys \cup {None}
      BY <1>1, PostFields
    <2>2. QED
      BY <1>1, <2>1, PostFields
  <1>3. \A q \in posts' : q \in posts \/ q = ThenRow(p, ref)
    BY DEF Continue
  <1>4. QED
    BY <1>1, <1>2, <1>3 DEF StoreTypeOK

LEMMA ListingTypes ==
    ASSUME NEW s \in Listings, NEW n \in Nat, n < Len(s)
    PROVE  n + 1 \in 1..Cardinality(Indexed) /\ s[n + 1] \in Indexed
  <1>1. s \in [1..Cardinality(Indexed) -> Indexed]
    BY DEF Listings, SetToSeqs
  <1>2. Indexed \subseteq 1..Legs /\ IsFiniteSet(1..Legs)
    BY FS_Interval, HarnessAssumption DEF Indexed, Keys
  <1>3. Cardinality(Indexed) \in Nat
    BY <1>2, FS_Subset, FS_CardinalityType
  <1>4. Len(s) = Cardinality(Indexed)
    BY <1>1, <1>3
  <1>5. QED
    BY <1>1, <1>3, <1>4

LEMMA StoreTypeStep == StoreTypeOK /\ StoreStep => StoreTypeOK'
  <1> SUFFICES ASSUME StoreTypeOK, StoreStep PROVE StoreTypeOK'
    OBVIOUS
  <1>1. CASE SidecarPuts
    <2>1. /\ blobs' \in [Keys -> Seq(Lines) \cup {None}]
          /\ uploads' \in [Keys -> Requests \cup {None}]
      BY <1>1, PutTypes DEF SidecarPuts
    <2>2. QED
      BY <1>1, <2>1 DEF SidecarPuts, StoreTypeOK
  <1>2. CASE SidecarDies
    BY <1>2 DEF SidecarDies, StoreTypeOK
  <1>3. CASE IndexTranscript
    <2>1. PICK p \in posts :
              /\ \E ref \in {p.key, None} : Continue(p, ref)
              /\ \/ UNCHANGED index
                 \/ p.key # None /\ \E at \in Ticks :
                      index' = [index EXCEPT ![p.key] = IF @ = None THEN [at |-> at, figures |-> p.figures] ELSE @]
              /\ UNCHANGED <<backend, blobs, uploads, runs, reader>>
      BY <1>3 DEF IndexTranscript
    <2>2. posts' \subseteq Posts /\ \A q \in posts' : q.key # None => q.figures \in Figured
      BY <2>1, ContinueTypes
    <2>3. index' \in [Keys -> IndexRows \cup {None}]
      <3>1. CASE UNCHANGED index
        BY <3>1 DEF StoreTypeOK
      <3>2. ASSUME p.key # None, NEW at \in Ticks,
                   index' = [index EXCEPT ![p.key] = IF @ = None THEN [at |-> at, figures |-> p.figures] ELSE @]
            PROVE  index' \in [Keys -> IndexRows \cup {None}]
        <4>1. p.key \in Keys /\ p.figures \in Figured /\ index \in [Keys -> IndexRows \cup {None}]
          BY <3>2, PostFields DEF StoreTypeOK
        <4>2. [at |-> at, figures |-> p.figures] \in IndexRows
          BY <4>1 DEF IndexRows
        <4>3. QED
          BY <3>2, <4>1, <4>2
      <3>3. QED
        BY <2>1, <3>1, <3>2
    <2>4. QED
      BY <2>1, <2>2, <2>3 DEF StoreTypeOK
  <1>4. CASE RecordRow
    <2>1. PICK p \in posts :
              /\ runs' = runs \/ (p.key # None /\ runs' = [runs EXCEPT ![p.key] = @ + 1])
              /\ posts' = (posts \ {p}) \cup
                    (IF p.again > 0 /\ p.key # None
                     THEN {[p EXCEPT !.again = @ - 1, !.step = "index"]} ELSE {})
              /\ UNCHANGED <<backend, blobs, uploads, index, reader>>
      BY <1>4 DEF RecordRow
    <2>2. p \in Posts /\ (p.key # None => p.figures \in Figured) /\ p.key \in Keys \cup {None}
      BY PostFields DEF StoreTypeOK
    <2>3. posts' \subseteq Posts /\ \A q \in posts' : q.key # None => q.figures \in Figured
      <3>1. CASE p.again > 0 /\ p.key # None
        <4>0. p.again \in 0..Redelivered
          BY <2>2, PostFields
        <4>1. p.again - 1 \in 0..Redelivered
          BY <3>1, <4>0, StoreAssumption
        <4>2. /\ Again(p, p.again - 1) \in Posts /\ Again(p, p.again - 1).key = p.key
              /\ Again(p, p.again - 1).figures = p.figures
          BY <2>2, <4>1, PostFields
        <4>3. \A q \in posts' : q \in posts \/ q = Again(p, p.again - 1)
          BY <2>1 DEF Again
        <4>4. QED
          BY <2>2, <4>2, <4>3 DEF StoreTypeOK
      <3>2. CASE ~(p.again > 0 /\ p.key # None)
        BY <2>1, <3>2 DEF StoreTypeOK
      <3>3. QED
        BY <3>1, <3>2
    <2>4. runs' \in [Keys -> Nat]
      BY <2>1, <2>2 DEF StoreTypeOK
    <2>5. QED
      BY <2>1, <2>3, <2>4 DEF StoreTypeOK
  <1>5. CASE LosePost
    BY <1>5 DEF LosePost, StoreTypeOK
  <1>6. CASE ReaderStarts
    BY <1>6 DEF ReaderStarts, Unread, Indexed, StoreTypeOK
  <1>7. CASE ReaderPages
    <2>1. PICK s \in Listings :
              IF reader.offset < Len(s)
              THEN reader' = [reader EXCEPT !.shown = @ \cup {s[reader.offset + 1]}, !.offset = @ + 1]
              ELSE reader' = [reader EXCEPT !.on = FALSE]
      BY <1>7 DEF ReaderPages
    <2>2. reader \in [owed : SUBSET Keys, shown : SUBSET Keys, offset : Nat, on : BOOLEAN]
      BY DEF StoreTypeOK
    <2>3. reader' \in [owed : SUBSET Keys, shown : SUBSET Keys, offset : Nat, on : BOOLEAN]
      <3>1. CASE reader.offset < Len(s)
        <4>1. s[reader.offset + 1] \in Keys
          <5>1. reader.offset \in Nat
            BY <2>2
          <5>2. QED
            BY <3>1, <5>1, ListingTypes DEF Indexed
        <4>2. reader.shown \cup {s[reader.offset + 1]} \in SUBSET Keys /\ reader.offset + 1 \in Nat
          BY <2>2, <4>1
        <4>3. QED
          BY <2>1, <2>2, <3>1, <4>2
      <3>2. CASE ~(reader.offset < Len(s))
        BY <2>1, <2>2, <3>2
      <3>3. QED
        BY <3>1, <3>2
    <2>4. QED
      BY <1>7, <2>3 DEF ReaderPages, StoreTypeOK
  <1>8. QED
    BY <1>1, <1>2, <1>3, <1>4, <1>5, <1>6, <1>7 DEF StoreStep

LEMMA UnopenedTypes == \A on \in BOOLEAN : /\ Unopened(on) \in Captures
                                           /\ Unopened(on).on = on /\ Unopened(on).accepted = 0
                                           /\ Unopened(on).stored = FALSE
    BY DEF Unopened, Captures

LEMMA ShippedTypes ==
    ASSUME TypeOK, NEW stored \in BOOLEAN, NEW failed \in BOOLEAN, Shipped(stored, failed)
    PROVE  /\ capture' \in Captures /\ main' = "ending" /\ sent' = 0
           /\ capture'.stored = stored /\ capture'.on = capture.on /\ capture'.accepted = capture.accepted
           /\ capture'.failed = (capture.failed \/ failed)
  <1>1. capture \in Captures
    BY DEF TypeOK, HarnessTypeOK
  <1>2. capture' = [capture EXCEPT !.stored = stored, !.failed = capture.failed \/ failed]
    BY DEF Shipped
  <1>3. QED
    BY <1>1, <1>2 DEF Captures, Shipped

LEMMA ReceivesTypes ==
    ASSUME StoreTypeOK, NEW k \in Keys, uploads[k] # None, NEW l \in Lines, Receives(k, l)
    PROVE  uploads[k] \in Requests /\ \E v \in Requests :
              /\ uploads' = [uploads EXCEPT ![k] = v]
              /\ \/ uploads[k].refusal = "no" /\ v = WithBody(uploads[k], Append(uploads[k].body, l))
                 \/ uploads[k].refusal # "no" /\ v = WithBody(uploads[k], uploads[k].body)
                 \/ v = WithReply(uploads[k], Refusal(uploads[k].refusal))
  <1>1. uploads \in [Keys -> Requests \cup {None}] /\ uploads[k] \in Requests
    BY DEF StoreTypeOK
  <1>2. Append(uploads[k].body, l) \in Seq(Lines) /\ uploads[k].body \in Seq(Lines)
    <2>1. uploads[k].body \in Seq(Lines)
      BY <1>1, RequestFields
    <2>2. QED
      BY <2>1
  <1>3. Refusal(uploads[k].refusal) \in Replies
    BY DEF Refusal, Replies
  <1>4. /\ WithBody(uploads[k], Append(uploads[k].body, l)) \in Requests
        /\ WithBody(uploads[k], uploads[k].body) \in Requests
        /\ WithReply(uploads[k], Refusal(uploads[k].refusal)) \in Requests
    BY <1>1, <1>2, <1>3, RequestFields
  <1>5. CASE uploads' = [uploads EXCEPT ![k].body = IF uploads[k].refusal = "no" THEN Append(@, l) ELSE @]
    <2>1. CASE uploads[k].refusal = "no"
      BY <1>1, <1>4, <1>5, <2>1 DEF WithBody
    <2>2. CASE uploads[k].refusal # "no"
      BY <1>1, <1>4, <1>5, <2>2 DEF WithBody
    <2>3. QED
      BY <2>1, <2>2
  <1>6. CASE uploads' = [uploads EXCEPT ![k].reply = Refusal(uploads[k].refusal)]
    BY <1>1, <1>4, <1>6 DEF WithReply
  <1>7. QED
    BY <1>5, <1>6 DEF Receives

LEMMA BodyEndsTypes ==
    ASSUME StoreTypeOK, NEW k \in Keys, uploads[k] # None, BodyEnds(k)
    PROVE  uploads[k] \in Requests /\ \E v \in Requests :
              /\ uploads' = [uploads EXCEPT ![k] = v]
              /\ \/ uploads[k].refusal = "no" /\ v = Finished(uploads[k])
                 \/ uploads[k].refusal # "no" /\ v = WithReply(uploads[k], Refusal(uploads[k].refusal))
  <1>1. uploads \in [Keys -> Requests \cup {None}] /\ uploads[k] \in Requests
    BY DEF StoreTypeOK
  <1>2. Refusal(uploads[k].refusal) \in Replies
    BY DEF Refusal, Replies
  <1>3. Finished(uploads[k]) \in Requests /\ WithReply(uploads[k], Refusal(uploads[k].refusal)) \in Requests
    BY <1>1, <1>2, RequestFields
  <1>4. CASE uploads[k].refusal = "no"
    BY <1>1, <1>3, <1>4 DEF BodyEnds, Finished
  <1>5. CASE uploads[k].refusal # "no"
    BY <1>1, <1>3, <1>5 DEF BodyEnds, WithReply
  <1>6. QED
    BY <1>4, <1>5

LEMMA AcceptsTypes ==
    ASSUME StoreTypeOK, NEW k \in Keys, Accepts(k)
    PROVE  \E v \in Requests :
              /\ uploads' = [uploads EXCEPT ![k] = v]
              /\ v.body = <<>> /\ v.over = FALSE /\ v.reply = ""
              /\ v.refusal = "no" => backend = "set"
  <1> DEFINE why == CASE backend = "unset" -> "unconfigured" [] backend = "unusable" -> "unusable" [] OTHER -> "no"
             v == [refusal |-> why, body |-> <<>>, over |-> FALSE, reply |-> ""]
  <1>1. why \in {"no", "unconfigured", "unusable"} /\ (why = "no" => backend = "set")
    BY DEF StoreTypeOK
  <1>2. uploads' = [uploads EXCEPT ![k] = v]
    BY DEF Accepts
  <1> HIDE DEF why
  <1>3. v \in Requests
    BY <1>1 DEF Requests
  <1>4. QED
    BY <1>1, <1>2, <1>3

LEMMA DisconnectsTypes ==
    ASSUME StoreTypeOK, NEW k \in Keys, uploads[k] # None, Disconnects(k)
    PROVE  uploads' = [uploads EXCEPT ![k] = None] \/ (uploads[k].over /\ uploads' = uploads)
    BY DEF StoreTypeOK, Disconnects

-----------------------------------------------------------------------------
(* The invariant *)

\* A line that came with its newline was not cut inside a credential.
Shielded(l) == l.whole => l.cred \notin {"fragment", "torn"}
FeedShielded == \A i \in DOMAIN pipe.out : Shielded(pipe.out[i])
FilesScrubbed == \A k \in Keys : \A i \in DOMAIN files[k] : ~Reveals(files[k][i])

\* The legs to come have written nothing, and until its sink fails a capture
\* has counted every line of its file.
Untouched == \A k \in Keys : k > leg \/ (k = leg /\ main = "opening") => files[k] = <<>>
Counted == capture.on /\ ~capture.failed => capture.accepted = Len(files[leg])

\* A leg whose transcript is closed: nothing writes to its file again.
Resting == {"shipping", "waiting", "ending", "done", "dead"}
AtRest(k) == k < leg \/ (k = leg /\ main \in Resting)

\* A request holds what was sent of the file, all of it once its body is over.
RequestOK(k) ==
    LET u == uploads[k] IN
    /\ AtRest(k)
    /\ u.refusal = "no" => backend = "set"
    /\ u.over => /\ u.refusal = "no" /\ u.body = files[k]
                 /\ k = leg /\ main = "waiting" => sent = Len(files[k])
    /\ ~u.over /\ u.reply = "" /\ u.refusal = "no" =>
          /\ k = leg /\ main = "waiting" /\ sent <= Len(files[k])
          /\ u.body = SubSeq(files[k], 1, sent)
    /\ u.reply = "stored" => blobs[k] # None
Uploading ==
    /\ main # "waiting" => sent = 0
    /\ \A k \in Keys : uploads[k] # None => RequestOK(k)
BlobOK == \A k \in Keys : blobs[k] # None => AtRest(k) /\ blobs[k] = files[k] /\ backend = "set"
StoredOK == capture.stored => blobs[leg] # None

\* A post that names a transcript was made of its blob, and refers to its row
\* once that is written; so does the row, and whoever refers to the row.
PostOK(p) ==
    p.key # None =>
        /\ blobs[p.key] # None /\ p.figures = Figures(blobs[p.key])
        /\ p.step = "row" => index[p.key] # None
IndexOK ==
    /\ \A p \in posts : PostOK(p)
    /\ \A k \in Keys :
          /\ index[k] # None => blobs[k] # None /\ index[k].figures = Figures(blobs[k])
          /\ runs[k] > 0 => index[k] # None

Scrubbing == FeedShielded /\ FilesScrubbed
Storing == Untouched /\ Counted /\ Uploading /\ BlobOK /\ StoredOK
SessionInv == TypeOK /\ Scrubbing /\ Storing /\ IndexOK

-----------------------------------------------------------------------------
(* Types, continued *)

LEMMA PrefixIsWhole == \A f \in Seq(Lines) : SubSeq(f, 1, Len(f)) = f
    OBVIOUS

\* What a branch may post of a leg.
LEMMA PostsOfLeg ==
    ASSUME TypeOK, Storing, NEW kind \in {"leg", "run"}
    PROVE  /\ Post(kind, Key, Fig) \in Posts
           /\ Post(kind, Key, Fig).key # None => Post(kind, Key, Fig).figures \in Figured
           /\ PostOK(Post(kind, Key, Fig))
  <1>1. leg \in Keys /\ files[leg] \in Seq(Lines) /\ capture.accepted \in Nat
    BY CaptureFields DEF TypeOK, HarnessTypeOK
  <1>2. Indexable => /\ Accepted = files[leg] /\ blobs[leg] # None /\ blobs[leg] = files[leg]
    BY <1>1, PrefixIsWhole DEF Indexable, Accepted, Storing, Counted, StoredOK, BlobOK
  <1>3. /\ Key \in Keys \cup {None} /\ Fig \in Figured \cup {None}
        /\ Key # None => Fig \in Figured /\ blobs[Key] # None /\ Fig = Figures(blobs[Key])
    BY <1>1, <1>2, FiguresAreFigured DEF Key, Fig
  <1>4. /\ Post(kind, Key, Fig).key = Key /\ Post(kind, Key, Fig).figures = Fig
        /\ Post(kind, Key, Fig).step = "index"
    BY DEF Post
  <1>5. Post(kind, Key, Fig) \in Posts
    BY <1>3, StoreAssumption DEF Post, Posts
  <1>6. QED
    BY <1>3, <1>4, <1>5 DEF PostOK

LEMMA TypeStep == TypeOK /\ Storing /\ [Next]_vars => TypeOK'
  <1> SUFFICES ASSUME TypeOK, Storing, [Next]_vars PROVE TypeOK'
    OBVIOUS
  <1> USE DEF TypeOK, harnessVars, storeVars
  <1>0. /\ leg \in Keys /\ capture \in Captures /\ files[leg] \in Seq(Lines)
        /\ uploads \in [Keys -> Requests \cup {None}] /\ blobs \in [Keys -> Seq(Lines) \cup {None}]
        /\ sent \in Nat /\ Legs \in Nat /\ Keys = 1..Legs
    BY HarnessAssumption DEF HarnessTypeOK, StoreTypeOK, Keys
  <1>1. CASE Opens
    BY <1>1, UnopenedTypes DEF Opens, Open, HarnessTypeOK, StoreTypeOK
  <1>2. CASE Drives
    BY <1>2, HarnessTypeStep DEF Drives, StoreTypeOK
  <1>3. CASE Closes
    <2>1. capture' \in Captures
      BY <1>0, <1>3 DEF Closes, Captures, Inert
    <2>2. QED
      BY <1>3, <2>1 DEF Closes, Stays, HarnessTypeOK, StoreTypeOK
  <1>4. ASSUME NEW stored \in BOOLEAN, NEW failed \in BOOLEAN, Shipped(stored, failed), Stays, UNCHANGED target
        PROVE  HarnessTypeOK' /\ target' \in Targets /\ sent' \in Nat
    <2>1. capture' \in Captures /\ main' = "ending" /\ sent' = 0
      BY <1>4, ShippedTypes
    <2>2. QED
      BY <1>4, <2>1 DEF Stays, HarnessTypeOK
  <1>5. CASE ShipsDirectly
    <2>1. HarnessTypeOK' /\ target' \in Targets /\ sent' \in Nat
      BY <1>4, <1>5 DEF ShipsDirectly
    <2>2. blobs' \in [Keys -> Seq(Lines) \cup {None}]
      BY <1>0, <1>5 DEF ShipsDirectly
    <2>3. QED
      BY <1>5, <2>1, <2>2 DEF ShipsDirectly, StoreTypeOK
  <1>6. CASE Connects
    <2>1. uploads' \in [Keys -> Requests \cup {None}]
      BY <1>0, <1>6, AcceptsTypes DEF Connects
    <2>2. QED
      BY <1>6, <2>1 DEF Connects, Stays, HarnessTypeOK, StoreTypeOK
  <1>7. CASE Sends
    <2>1. uploads[leg] # None /\ sent' \in Nat
      <3>1. uploads[leg] # None /\ (sent' = sent + 1 \/ sent' = sent)
        BY <1>7, Zenon DEF Sends
      <3>2. QED
        BY <1>0, <3>1
    <2>2. uploads' \in [Keys -> Requests \cup {None}]
      <3>1. CASE sent < Len(files[leg]) /\ Receives(leg, files[leg][sent + 1])
        <4>1. files[leg][sent + 1] \in Lines
          BY <1>0, <3>1
        <4>2. QED
          BY <1>0, <2>1, <3>1, <4>1, ReceivesTypes
      <3>2. CASE BodyEnds(leg)
        BY <1>0, <2>1, <3>2, BodyEndsTypes
      <3>3. QED
        BY <1>7, <3>1, <3>2 DEF Sends
    <2>3. QED
      BY <1>7, <2>1, <2>2 DEF Sends, Stays, HarnessTypeOK, StoreTypeOK
  <1>8. CASE Hears
    <2>1. HarnessTypeOK' /\ target' \in Targets /\ sent' \in Nat
      BY <1>4, <1>8 DEF Hears, Answer
    <2>2. uploads' \in [Keys -> Requests \cup {None}]
      BY <1>0, <1>8 DEF Hears
    <2>3. QED
      BY <1>8, <2>1, <2>2 DEF Hears, StoreTypeOK
  <1>9. ASSUME IF uploads[leg] = None THEN UNCHANGED uploads ELSE Disconnects(leg)
        PROVE  uploads' \in [Keys -> Requests \cup {None}]
    BY <1>0, <1>9, DisconnectsTypes
  <1>10. CASE GivesUp
    <2>1. HarnessTypeOK' /\ target' \in Targets /\ sent' \in Nat
      BY <1>4, <1>10 DEF GivesUp
    <2>2. uploads' \in [Keys -> Requests \cup {None}]
      BY <1>0, <1>9, <1>10 DEF GivesUp
    <2>3. QED
      BY <1>10, <2>1, <2>2 DEF GivesUp, StoreTypeOK
  <1>11. CASE Throttled \/ Answered
    <2>1. posts' \subseteq posts \cup {Post("leg", Key, Fig), Post("run", Key, Fig)}
      BY <1>11 DEF Throttled, Answered, Leg, Run
    <2>2. posts' \subseteq Posts /\ \A p \in posts' : p.key # None => p.figures \in Figured
      BY <2>1, PostsOfLeg DEF StoreTypeOK
    <2>3. StoreTypeOK' /\ target' \in Targets /\ sent' \in Nat
      BY <1>11, <2>2 DEF Throttled, Answered, StoreTypeOK
    <2>4. leg' \in Keys /\ left' \in Amounts
      <3>1. CASE leg < Legs /\ leg' = leg + 1 /\ left' = Lengths[leg + 1]
        BY <1>0, <3>1, LengthsAreAmounts
      <3>2. CASE UNCHANGED <<leg, left>>
        BY <3>2 DEF HarnessTypeOK
      <3>3. QED
        BY <1>11, <3>1, <3>2 DEF Throttled, Answered
    <2>5. HarnessTypeOK'
      BY <1>11, <2>4, UnopenedTypes DEF Throttled, Answered, HarnessTypeOK
    <2>6. QED
      BY <2>3, <2>5
  <1>12. CASE RunnerDies
    <2>1. uploads' \in [Keys -> Requests \cup {None}]
      BY <1>0, <1>9, <1>12 DEF RunnerDies
    <2>2. left' \in Amounts
      BY <1>0, <1>12, LengthsAreAmounts DEF RunnerDies
    <2>3. QED
      BY <1>12, <2>1, <2>2, EmptyPipe, UnopenedTypes DEF RunnerDies, HarnessTypeOK, StoreTypeOK
  <1>13. CASE Serves
    BY <1>13, StoreTypeStep DEF Serves, HarnessTypeOK
  <1>14. CASE UNCHANGED vars
    BY <1>14 DEF vars, HarnessTypeOK, StoreTypeOK
  <1>15. QED
    BY <1>1, <1>2, <1>3, <1>5, <1>6, <1>7, <1>8, <1>10, <1>11, <1>12, <1>13, <1>14 DEF Next, Ships

-----------------------------------------------------------------------------
(* Credentials *)

\* The order of the two scrubbers: a line that was not cut shows no piece of a
\* credential, and of one that was the piece is removed.
LEMMA ScrubbedHides == \A l \in Lines : Shielded(l) => ~Reveals(Scrubbed(l))
    BY DEF Shielded, Scrubbed, Scrub, ScrubPartial, Reveals, Lines, Shown

LEMMA FeedIsShielded == \A l \in Feed : Shielded(l) /\ Shielded(Unterminated(l)) /\ \A m \in CutOf(l) : Shielded(m)
    BY HarnessAssumption DEF Shielded, Unterminated, CutOf

LEMMA DiesShields ==
    ASSUME HarnessTypeOK, FeedShielded, NEW how, Dies(how)
    PROVE  FeedShielded'
  <1>1. PICK words \in LastWords : pipe' = [pipe EXCEPT !.out = @ \o words]
    BY DEF Dies
  <1>2. /\ words \in Seq(Lines) /\ (words = <<>> \/ Len(words) = 1)
        /\ pipe \in Contents /\ pipe.out \in Seq(Lines)
    BY LastWordsAreLines, ContentFields DEF HarnessTypeOK
  <1>3. words # <<>> => \E l \in Lines : words = <<l>> /\ Shielded(l)
    <2>1. SUFFICES ASSUME words # <<>> PROVE \E l \in Lines : words = <<l>> /\ Shielded(l)
      OBVIOUS
    <2>2. \/ \E l \in Feed : words = <<Unterminated(l)>>
          \/ \E m \in Feed : \E l \in CutOf(m) : words = <<l>>
      BY <2>1 DEF LastWords
    <2>3. \A l \in Feed : Unterminated(l) \in Lines
      BY FeedOfLines DEF Unterminated, Lines
    <2>4. QED
      BY <2>2, <2>3, FeedIsShielded, FeedOfLines, CutIsLine
  <1>4. pipe'.out = pipe.out \o words
    <2>1. pipe.out \o words \in Seq(Lines)
      BY <1>2
    <2>2. QED
      BY <1>1, <1>2, <2>1, ContentFields
  <1>5. \A i \in DOMAIN (pipe.out \o words) : Shielded((pipe.out \o words)[i])
    <2>1. CASE words = <<>>
      BY <1>2, <2>1 DEF FeedShielded
    <2>2. CASE words # <<>>
      <3>1. PICK l \in Lines : words = <<l>> /\ Shielded(l)
        BY <1>3, <2>2
      <3>2. pipe.out \o words = Append(pipe.out, l)
        BY <1>2, <3>1
      <3>3. \A i \in DOMAIN Append(pipe.out, l) : Shielded(Append(pipe.out, l)[i])
        BY <1>2, <3>1 DEF FeedShielded
      <3>4. QED
        BY <3>2, <3>3
    <2>3. QED
      BY <2>1, <2>2
  <1>6. QED
    BY <1>4, <1>5 DEF FeedShielded

LEMMA OfferScrubs ==
    ASSUME HarnessTypeOK, FilesScrubbed, NEW l \in Lines, Shielded(l), Offer(l)
    PROVE  FilesScrubbed'
  <1>1. files \in [Keys -> Seq(Lines)] /\ leg \in Keys /\ files[leg] \in Seq(Lines)
    BY DEF HarnessTypeOK
  <1>2. Scrubbed(l) \in Lines /\ ~Reveals(Scrubbed(l))
    BY ScrubbedIsLine, ScrubbedHides
  <1>3. Line("noise", "none") \in Lines /\ ~Reveals(Line("noise", "none"))
    BY DEF Line, Lines, Events, Shown, Reveals
  <1>4. ASSUME NEW m \in Lines, ~Reveals(m), files' = [files EXCEPT ![leg] = Append(@, m)]
        PROVE  FilesScrubbed'
    <2> SUFFICES ASSUME NEW k \in Keys, NEW i \in DOMAIN files'[k] PROVE ~Reveals(files'[k][i])
      BY DEF FilesScrubbed
    <2>1. CASE k = leg
      BY <1>1, <1>4, <2>1 DEF FilesScrubbed
    <2>2. CASE k # leg
      BY <1>1, <1>4, <2>2 DEF FilesScrubbed
    <2>3. QED
      BY <2>1, <2>2
  <1>5. CASE UNCHANGED files
    BY <1>5 DEF FilesScrubbed
  <1>6. CASE files' = [files EXCEPT ![leg] = Append(@, Scrubbed(l))]
    BY <1>2, <1>4, <1>6
  <1>7. ASSUME NEW piece \in {<<>>, <<Line("noise", "none")>>}, files' = [files EXCEPT ![leg] = @ \o piece]
        PROVE  FilesScrubbed'
    <2>1. CASE piece = <<>>
      <3>1. files' = files
        BY <1>1, <1>7, <2>1
      <3>2. QED
        BY <3>1 DEF FilesScrubbed
    <2>2. CASE piece = <<Line("noise", "none")>>
      <3>1. files[leg] \o piece = Append(files[leg], Line("noise", "none"))
        BY <1>1, <1>3, <2>2
      <3>2. QED
        BY <1>3, <1>4, <1>7, <3>1
    <2>3. QED
      BY <1>7, <2>1, <2>2
  <1>8. QED
    BY <1>5, <1>6, <1>7 DEF Offer

LEMMA ScrubbingStep == TypeOK /\ Scrubbing /\ [Next]_vars => Scrubbing'
  <1> SUFFICES ASSUME TypeOK, Scrubbing, [Next]_vars PROVE Scrubbing'
    OBVIOUS
  <1>0. HarnessTypeOK /\ pipe \in Contents /\ pipe.out \in Seq(Lines) /\ FeedShielded /\ FilesScrubbed
    BY ContentFields DEF TypeOK, HarnessTypeOK, Scrubbing
  <1>1. ASSUME pipe'.out = pipe.out \/ pipe'.out = <<>>, UNCHANGED files PROVE Scrubbing'
    <2>1. FeedShielded'
      BY <1>0, <1>1 DEF FeedShielded
    <2>2. FilesScrubbed'
      BY <1>0, <1>1 DEF FilesScrubbed
    <2>3. QED
      BY <2>1, <2>2 DEF Scrubbing
  <1>2. CASE Drives
    <2>1. CASE Feeds
      <3>1. pipe'.out = pipe.out
        BY <1>0, <2>1 DEF Feeds, Contents
      <3>2. QED
        BY <1>1, <2>1, <3>1 DEF Feeds
    <2>2. CASE Drains
      <3>1. pipe'.out = pipe.out
        BY <1>0, <2>2 DEF Drains, Contents
      <3>2. QED
        BY <1>1, <2>2, <3>1 DEF Drains
    <2>3. CASE ChildStep
      <3>1. UNCHANGED files
        BY <2>3 DEF ChildStep
      <3>2. CASE ChildReads \/ ChildWarns \/ ChildBlocks \/ ChildHangs
        <4>1. pipe'.out = pipe.out
          BY <1>0, <3>2 DEF ChildReads, ChildWarns, ChildBlocks, ChildHangs, Contents
        <4>2. QED
          BY <1>1, <3>1, <4>1
      <3>3. CASE ChildSays
        <4>1. PICK l \in Feed : pipe' = [pipe EXCEPT !.out = Append(@, l)]
          BY <3>3 DEF ChildSays
        <4>2. l \in Lines /\ Shielded(l) /\ Append(pipe.out, l) \in Seq(Lines)
          BY <1>0, FeedOfLines, FeedIsShielded
        <4>3. pipe'.out = Append(pipe.out, l)
          BY <1>0, <4>1, <4>2, ContentFields
        <4>4. FeedShielded'
          BY <1>0, <4>2, <4>3 DEF FeedShielded
        <4>5. QED
          BY <1>0, <3>1, <4>4 DEF Scrubbing, FilesScrubbed
      <3>4. QED
        BY <2>3, <3>2, <3>3 DEF ChildStep
    <2>4. ASSUME NEW how, Dies(how) PROVE Scrubbing'
      <3>1. FeedShielded' /\ UNCHANGED files
        BY <1>0, <2>4, DiesShields DEF Dies
      <3>2. QED
        BY <1>0, <3>1 DEF Scrubbing, FilesScrubbed
    <2>5. CASE ChildExits
      BY <2>4, <2>5 DEF ChildExits
    <2>6. CASE Kill
      BY <1>1, <2>4, <2>6 DEF Kill
    <2>7. CASE Tees
      <3>1. pipe.out # <<>> /\ pipe' = [pipe EXCEPT !.out = Tail(pipe.out)] /\ Offer(Head(pipe.out))
        BY <2>7 DEF Tees
      <3>2. /\ Head(pipe.out) \in Lines /\ Head(pipe.out) = pipe.out[1] /\ 1 \in DOMAIN pipe.out
            /\ Tail(pipe.out) \in Seq(Lines)
        BY <1>0, <3>1
      <3>3. Shielded(Head(pipe.out))
        BY <1>0, <3>2 DEF FeedShielded
      <3>4. FilesScrubbed'
        BY <1>0, <3>1, <3>2, <3>3, OfferScrubs
      <3>5. pipe'.out = Tail(pipe.out)
        BY <1>0, <3>1, <3>2, ContentFields
      <3>6. \A i \in DOMAIN Tail(pipe.out) : i + 1 \in DOMAIN pipe.out /\ Tail(pipe.out)[i] = pipe.out[i + 1]
        BY <1>0, <3>1
      <3>7. FeedShielded'
        BY <1>0, <3>5, <3>6 DEF FeedShielded
      <3>8. QED
        BY <3>4, <3>7 DEF Scrubbing
    <2>8. CASE Folds
      BY <1>1, <2>8 DEF Folds
    <2>9. CASE FeedOver \/ PipeFails
      BY <1>1, <2>9 DEF FeedOver, PipeFails, Finally, Empty
    <2>10. QED
      BY <1>2, <2>1, <2>2, <2>3, <2>5, <2>6, <2>7, <2>8, <2>9 DEF Drives, HarnessStep
  <1>3. CASE Opens \/ Serves \/ UNCHANGED vars
    BY <1>1, <1>3 DEF Opens, Open, Serves, vars, harnessVars
  <1>4. CASE Closes \/ Ships
    BY <1>1, <1>4 DEF Closes, Ships, ShipsDirectly, Connects, Sends, Hears, GivesUp, Stays
  <1>5. CASE Throttled \/ Answered \/ RunnerDies
    <2>1. UNCHANGED files /\ (pipe' = pipe \/ pipe' = Empty)
      BY <1>5, Zenon DEF Throttled, Answered, RunnerDies
    <2>2. QED
      BY <1>1, <2>1 DEF Empty
  <1>6. QED
    BY <1>2, <1>3, <1>4, <1>5 DEF Next

-----------------------------------------------------------------------------
(* Files, uploads and blobs *)

\* What a step of the agent does to the transcript: at most the tee offers it
\* a line, while the leg is not at rest.
LEMMA DriveFootprint ==
    ASSUME TypeOK, HarnessStep
    PROVE  /\ main \in Running /\ main' \in {"reading", "folding", "closing"} /\ leg' = leg
           /\ UNCHANGED <<files, capture>> \/ \E l \in Lines : Offer(l)
  <1>1. pipe.out \in Seq(Lines)
    BY ContentFields DEF TypeOK, HarnessTypeOK
  <1>2. CASE Tees
    <2>1. Head(pipe.out) \in Lines /\ Offer(Head(pipe.out))
      BY <1>1, <1>2 DEF Tees
    <2>2. QED
      BY <1>2, <2>1 DEF Tees, Running
  <1>3. CASE Feeds \/ Drains \/ ChildStep \/ Folds \/ FeedOver \/ PipeFails
    BY <1>3 DEF Feeds, Drains, ChildStep, Folds, FeedOver, PipeFails, Finally, Running
  <1>4. CASE ChildExits \/ Kill
    BY <1>4 DEF ChildExits, Kill, Dies, Running
  <1>5. QED
    BY <1>2, <1>3, <1>4 DEF HarnessStep

LEMMA OfferFootprint ==
    ASSUME TypeOK, Counted, NEW l \in Lines, Offer(l)
    PROVE  /\ \A k \in Keys : k # leg => files'[k] = files[k]
           /\ capture'.on /\ ~capture'.failed => capture'.accepted = Len(files'[leg])
           /\ capture'.stored = capture.stored
  <1>1. files \in [Keys -> Seq(Lines)] /\ leg \in Keys /\ files[leg] \in Seq(Lines) /\ capture \in Captures
    BY DEF TypeOK, HarnessTypeOK
  <1>2. Scrubbed(l) \in Lines
    BY ScrubbedIsLine
  <1>3. CASE UNCHANGED <<capture, files>>
    BY <1>1, <1>3 DEF Counted
  <1>4. CASE /\ capture.on /\ ~capture.failed
             /\ files' = [files EXCEPT ![leg] = Append(@, Scrubbed(l))]
             /\ capture' = [capture EXCEPT !.accepted = @ + 1]
    <2>1. /\ capture'.on = capture.on /\ capture'.failed = capture.failed
          /\ capture'.accepted = capture.accepted + 1 /\ capture'.stored = capture.stored
      BY <1>1, <1>4 DEF Captures
    <2>2. files'[leg] = Append(files[leg], Scrubbed(l)) /\ \A k \in Keys : k # leg => files'[k] = files[k]
      BY <1>1, <1>4
    <2>3. Len(files'[leg]) = Len(files[leg]) + 1
      BY <1>1, <1>2, <2>2
    <2>4. QED
      BY <1>4, <2>1, <2>2, <2>3 DEF Counted
  <1>5. ASSUME capture' = Inert, NEW piece, files' = [files EXCEPT ![leg] = @ \o piece]
        PROVE  capture'.failed = TRUE /\ capture'.stored = capture.stored
               /\ \A k \in Keys : k # leg => files'[k] = files[k]
    BY <1>1, <1>5 DEF Inert, Captures
  <1>6. QED
    BY <1>3, <1>4, <1>5 DEF Offer

\* A leg that is at rest stays so: the files that blobs and requests are
\* compared with do not change any more.
LEMMA RestStep ==
    ASSUME TypeOK, Counted, [Next]_vars
    PROVE  /\ \A k \in Keys : AtRest(k) => AtRest(k)' /\ files'[k] = files[k]
           /\ backend' = backend
  <1>0. leg \in Keys /\ Keys \subseteq Nat /\ files \in [Keys -> Seq(Lines)]
    BY DEF TypeOK, HarnessTypeOK, Keys
  <1> SUFFICES /\ backend' = backend
               /\ \A k \in Keys : AtRest(k) => files'[k] = files[k]
               /\ (leg' = leg /\ (main \in Resting => main' \in Resting)) \/ leg' = leg + 1
    BY <1>0 DEF AtRest
  <1>1. CASE Drives
    <2>1. main \in Running /\ leg' = leg /\ (UNCHANGED <<files, capture>> \/ \E l \in Lines : Offer(l)) /\ UNCHANGED storeVars
      BY <1>1, DriveFootprint DEF Drives
    <2>2. \A k \in Keys : k # leg => files'[k] = files[k]
      BY <2>1, OfferFootprint
    <2>3. main \notin Resting
      BY <2>1 DEF Running, Resting
    <2>4. QED
      BY <1>0, <2>1, <2>2, <2>3 DEF AtRest, storeVars
  <1>2. CASE Opens
    BY <1>2 DEF Opens, Open, Resting, storeVars
  <1>3. CASE Closes
    BY <1>3 DEF Closes, Stays, Resting, storeVars
  <1>4. CASE ShipsDirectly \/ Connects
    BY <1>4 DEF ShipsDirectly, Shipped, Connects, Stays, Resting
  <1>5. CASE Sends \/ Hears
    BY <1>5 DEF Sends, Hears, Answer, Shipped, Stays, Resting
  <1>6. CASE GivesUp
    BY <1>6 DEF GivesUp, Shipped, Stays, Resting
  <1>7. CASE Throttled \/ Answered
    BY <1>7 DEF Throttled, Answered, Resting
  <1>8. CASE RunnerDies
    BY <1>8 DEF RunnerDies, Resting
  <1>9. CASE Serves
    <2>1. backend' = backend
      BY <1>9 DEF Serves, StoreStep, SidecarPuts, SidecarDies, IndexTranscript, RecordRow, LosePost, ReaderStarts, ReaderPages
    <2>2. QED
      BY <1>9, <2>1 DEF Serves, harnessVars
  <1>10. CASE UNCHANGED vars
    BY <1>10 DEF vars, harnessVars, storeVars
  <1>11. QED
    BY <1>1, <1>2, <1>3, <1>4, <1>5, <1>6, <1>7, <1>8, <1>9, <1>10 DEF Next, Ships

LEMMA CountingStep ==
    ASSUME TypeOK, Untouched, Counted, [Next]_vars
    PROVE  Untouched' /\ Counted'
  <1>0. /\ leg \in Keys /\ Keys \subseteq Nat /\ files \in [Keys -> Seq(Lines)] /\ capture \in Captures
    BY DEF TypeOK, HarnessTypeOK, Keys
  <1>1. CASE Drives
    <2>1. /\ main \in Running /\ main' # "opening" /\ leg' = leg
          /\ UNCHANGED <<files, capture>> \/ \E l \in Lines : Offer(l)
      BY <1>1, DriveFootprint DEF Drives
    <2>2. /\ \A k \in Keys : k # leg => files'[k] = files[k]
          /\ capture'.on /\ ~capture'.failed => capture'.accepted = Len(files'[leg])
      BY <2>1, OfferFootprint DEF Counted
    <2>3. QED
      BY <1>0, <2>1, <2>2 DEF Untouched, Counted
  <1>2. CASE Opens
    <2>1. PICK on \in BOOLEAN : Open(on)
      BY <1>2 DEF Opens
    <2>2. files[leg] = <<>>
      BY <1>0, <2>1 DEF Open, Untouched
    <2>3. QED
      BY <1>0, <2>1, <2>2, UnopenedTypes DEF Open, Untouched, Counted
  <1>3. ASSUME leg' = leg, files' = files, main' # "opening",
               capture'.on /\ ~capture'.failed => capture.on /\ ~capture.failed /\ capture'.accepted = capture.accepted
        PROVE  Untouched' /\ Counted'
    BY <1>0, <1>3 DEF Untouched, Counted
  <1>4. ASSUME capture' = Unopened(FALSE), files' = files,
               (leg' = leg /\ main' # "opening") \/ leg' = leg + 1
        PROVE  Untouched' /\ Counted'
    <2>1. capture'.on = FALSE
      BY <1>4, UnopenedTypes
    <2>2. \A k \in Keys : k > leg' \/ (k = leg' /\ main' = "opening") => k > leg
      BY <1>0, <1>4
    <2>3. QED
      BY <1>4, <2>1, <2>2 DEF Untouched, Counted
  <1>5. CASE Closes
    <2>1. \/ capture' = [capture EXCEPT !.closed = TRUE]
          \/ capture' = [Inert EXCEPT !.closed = TRUE]
      BY <1>5 DEF Closes
    <2>2. capture'.on /\ ~capture'.failed => capture.on /\ ~capture.failed /\ capture'.accepted = capture.accepted
      BY <1>0, <2>1 DEF Inert, Captures
    <2>3. leg' = leg /\ files' = files /\ main' # "opening"
      BY <1>5 DEF Closes, Stays
    <2>4. QED
      BY <1>3, <2>2, <2>3
  <1>6. ASSUME NEW stored \in BOOLEAN, NEW failed \in BOOLEAN, Shipped(stored, failed), Stays
        PROVE  Untouched' /\ Counted'
    <2>1. /\ main' = "ending" /\ capture'.on = capture.on /\ capture'.accepted = capture.accepted
          /\ capture'.failed = (capture.failed \/ failed)
      BY <1>6, ShippedTypes
    <2>2. QED
      BY <1>3, <1>6, <2>1 DEF Stays
  <1>7. CASE ShipsDirectly \/ Hears \/ GivesUp
    BY <1>6, <1>7 DEF ShipsDirectly, Hears, Answer, GivesUp
  <1>8. CASE Connects \/ Sends
    BY <1>3, <1>8 DEF Connects, Sends, Stays
  <1>9. CASE Throttled \/ Answered
    BY <1>4, <1>9 DEF Throttled, Answered
  <1>10. CASE RunnerDies
    BY <1>4, <1>10 DEF RunnerDies
  <1>11. CASE Serves \/ UNCHANGED vars
    BY <1>11 DEF Serves, vars, harnessVars, Untouched, Counted
  <1>12. QED
    BY <1>1, <1>2, <1>5, <1>7, <1>8, <1>9, <1>10, <1>11 DEF Next, Ships

\* No step takes away what a leg at rest has stored or is sending, as long as
\* the step does not touch blobs, requests or the sender.
LEMMA StillStored ==
    ASSUME TypeOK, Storing, [Next]_vars, UNCHANGED <<blobs, uploads>>,
           main = "waiting" => UNCHANGED <<main, leg, sent>>,
           main' # "waiting" \/ main = "waiting", UNCHANGED sent,
           capture'.stored => capture.stored /\ leg' = leg
    PROVE  Uploading' /\ BlobOK' /\ StoredOK'
  <1>1. \A k \in Keys : AtRest(k) => AtRest(k)' /\ files'[k] = files[k]
    BY RestStep DEF Storing
  <1>2. backend' = backend
    BY RestStep DEF Storing
  <1>3. \A k \in Keys : uploads[k] # None => RequestOK(k)'
    BY <1>1, <1>2 DEF Storing, Uploading, RequestOK
  <1>4. Uploading'
    BY <1>3 DEF Storing, Uploading
  <1>5. BlobOK'
    BY <1>1, <1>2 DEF Storing, BlobOK
  <1>6. StoredOK'
    BY DEF Storing, StoredOK
  <1>7. QED
    BY <1>4, <1>5, <1>6

\* Shipping is over: what is left under way is a complete body, or answered.
LEMMA ShippingOver ==
    ASSUME TypeOK, Storing, [Next]_vars, NEW stored \in BOOLEAN, NEW failed \in BOOLEAN,
           Shipped(stored, failed), leg' = leg,
           \A k \in Keys : blobs[k] # None => blobs'[k] = blobs[k],
           BlobOK', stored => blobs'[leg] # None,
           \A k \in Keys : uploads'[k] # None =>
              uploads'[k] = uploads[k] /\ (k = leg /\ main = "waiting" => uploads[k].over)
    PROVE  Uploading' /\ BlobOK' /\ StoredOK'
  <1>1. main' = "ending" /\ sent' = 0 /\ capture'.stored = stored
    BY ShippedTypes
  <1>2. StoredOK'
    BY <1>1 DEF StoredOK
  <1>3. backend' = backend /\ \A k \in Keys : AtRest(k) => AtRest(k)' /\ files'[k] = files[k]
    BY RestStep DEF Storing
  <1>4. ASSUME NEW k \in Keys, uploads'[k] # None PROVE RequestOK(k)'
    <2>1. uploads'[k] = uploads[k] /\ RequestOK(k) /\ uploads[k] # None
      BY <1>4 DEF Storing, Uploading
    <2>2. ~uploads[k].over /\ uploads[k].reply = "" /\ uploads[k].refusal = "no" => FALSE
      BY <1>4, <2>1 DEF RequestOK
    <2>3. QED
      BY <1>1, <1>3, <2>1, <2>2 DEF RequestOK
  <1>5. QED
    BY <1>1, <1>2, <1>4 DEF Uploading

LEMMA SendsKeeps == TypeOK /\ Storing /\ Sends => Uploading'
  <1> SUFFICES ASSUME TypeOK, Storing, Sends PROVE Uploading'
    OBVIOUS
  <1>0. /\ leg \in Keys /\ files[leg] \in Seq(Lines) /\ uploads \in [Keys -> Requests \cup {None}] /\ sent \in Nat
        /\ StoreTypeOK
    BY DEF TypeOK, HarnessTypeOK, StoreTypeOK
  <1>1. /\ main = "waiting" /\ uploads[leg] # None /\ uploads[leg].reply = ""
        /\ UNCHANGED <<leg, files, main, backend, blobs>>
    BY DEF Sends, Stays
  <1>2. /\ AtRest(leg) /\ (uploads[leg].refusal = "no" => backend = "set")
        /\ uploads[leg].over =>
              uploads[leg].refusal = "no" /\ uploads[leg].body = files[leg] /\ sent = Len(files[leg])
        /\ ~uploads[leg].over /\ uploads[leg].refusal = "no" =>
              sent <= Len(files[leg]) /\ uploads[leg].body = SubSeq(files[leg], 1, sent)
    <2>1. RequestOK(leg)
      BY <1>0, <1>1 DEF Storing, Uploading
    <2>2. QED
      BY <1>1, <2>1 DEF RequestOK
  <1>3. \A k \in Keys : k # leg /\ uploads[k] # None =>
          /\ AtRest(k) /\ (uploads[k].refusal = "no" => backend = "set")
          /\ uploads[k].over => uploads[k].refusal = "no" /\ uploads[k].body = files[k]
          /\ ~(~uploads[k].over /\ uploads[k].reply = "" /\ uploads[k].refusal = "no")
          /\ uploads[k].reply = "stored" => blobs[k] # None
    BY DEF Storing, Uploading, RequestOK
  <1>4. ASSUME NEW v \in Requests, uploads' = [uploads EXCEPT ![leg] = v],
               v.refusal = "no" => backend = "set",
               v.over => v.refusal = "no" /\ v.body = files[leg] /\ sent' = Len(files[leg]),
               ~v.over /\ v.reply = "" /\ v.refusal = "no" =>
                  sent' <= Len(files[leg]) /\ v.body = SubSeq(files[leg], 1, sent'),
               v.reply # "stored"
        PROVE  Uploading'
    <2>1. ASSUME NEW k \in Keys, uploads'[k] # None PROVE RequestOK(k)'
      <3>1. AtRest(k)' <=> AtRest(k)
        BY <1>1 DEF AtRest
      <3>2. CASE k = leg
        <4>1. uploads'[k] = v
          BY <1>0, <1>4, <3>2
        <4>2. QED
          BY <1>1, <1>2, <1>4, <3>1, <3>2, <4>1 DEF RequestOK
      <3>3. CASE k # leg
        <4>1. uploads'[k] = uploads[k]
          BY <1>0, <1>4, <3>3
        <4>2. QED
          BY <1>1, <1>3, <2>1, <3>1, <3>3, <4>1 DEF RequestOK
      <3>4. QED
        BY <3>2, <3>3
    <2>2. QED
      BY <1>1, <2>1 DEF Uploading
  <1>5. Refusal(uploads[leg].refusal) \in Replies \ {"", "stored"}
    BY DEF Refusal, Replies
  <1>6. uploads[leg] \in Requests
    BY <1>0, <1>1
  <1>7. SameBut(WithReply(uploads[leg], Refusal(uploads[leg].refusal)),
                uploads[leg].body, uploads[leg].over, uploads[leg].refusal, Refusal(uploads[leg].refusal))
    BY <1>5, <1>6, RequestFields
  <1>8. CASE sent < Len(files[leg]) /\ Receives(leg, files[leg][sent + 1]) /\ sent' = sent + 1
    <2>1. files[leg][sent + 1] \in Lines
      BY <1>0, <1>8
    <2>2. PICK v \in Requests :
              /\ uploads' = [uploads EXCEPT ![leg] = v]
              /\ \/ uploads[leg].refusal = "no" /\ v = WithBody(uploads[leg], Append(uploads[leg].body, files[leg][sent + 1]))
                 \/ uploads[leg].refusal # "no" /\ v = WithBody(uploads[leg], uploads[leg].body)
                 \/ v = WithReply(uploads[leg], Refusal(uploads[leg].refusal))
      BY <1>0, <1>1, <1>8, <2>1, ReceivesTypes
    <2>3. uploads[leg].body \in Seq(Lines)
      BY <1>6, RequestFields
    <2>4. CASE uploads[leg].refusal = "no" /\ v = WithBody(uploads[leg], Append(uploads[leg].body, files[leg][sent + 1]))
      <3>1. Append(uploads[leg].body, files[leg][sent + 1]) \in Seq(Lines)
        BY <2>1, <2>3
      <3>2. SameBut(v, Append(uploads[leg].body, files[leg][sent + 1]), uploads[leg].over, "no", "")
        BY <1>1, <1>6, <2>4, <3>1, RequestFields
      <3>3. ~uploads[leg].over => uploads[leg].body = SubSeq(files[leg], 1, sent)
        BY <1>2, <2>4
      <3>4. ~uploads[leg].over => Append(uploads[leg].body, files[leg][sent + 1]) = SubSeq(files[leg], 1, sent + 1)
        BY <1>0, <1>8, <3>3
      <3>5. ~uploads[leg].over
        BY <1>0, <1>2, <1>8
      <3>6. /\ v.refusal = "no" /\ ~v.over /\ v.reply = ""
            /\ v.body = SubSeq(files[leg], 1, sent + 1) /\ backend = "set"
        BY <1>2, <2>4, <3>2, <3>4, <3>5 DEF SameBut
      <3>7. sent' <= Len(files[leg]) /\ sent' = sent + 1
        BY <1>0, <1>8
      <3>8. QED
        BY <1>4, <2>2, <3>6, <3>7
    <2>30. ~uploads[leg].over
      BY <1>0, <1>2, <1>8
    <2>5. CASE uploads[leg].refusal # "no" /\ v = WithBody(uploads[leg], uploads[leg].body)
      <3>1. SameBut(v, uploads[leg].body, uploads[leg].over, uploads[leg].refusal, "")
        BY <1>1, <1>6, <2>3, <2>5, RequestFields
      <3>2. QED
        BY <1>2, <1>4, <2>2, <2>30, <2>5, <3>1 DEF SameBut
    <2>6. CASE v = WithReply(uploads[leg], Refusal(uploads[leg].refusal))
      BY <1>2, <1>4, <1>5, <1>7, <2>2, <2>30, <2>6 DEF SameBut
    <2>7. QED
      BY <2>2, <2>4, <2>5, <2>6
  <1>9. CASE sent = Len(files[leg]) /\ BodyEnds(leg) /\ UNCHANGED sent /\ ~uploads[leg].over
    <2>1. PICK v \in Requests :
              /\ uploads' = [uploads EXCEPT ![leg] = v]
              /\ \/ uploads[leg].refusal = "no" /\ v = Finished(uploads[leg])
                 \/ uploads[leg].refusal # "no" /\ v = WithReply(uploads[leg], Refusal(uploads[leg].refusal))
      BY <1>0, <1>1, <1>9, BodyEndsTypes
    <2>2. CASE uploads[leg].refusal = "no" /\ v = Finished(uploads[leg])
      <3>1. SameBut(v, uploads[leg].body, TRUE, "no", "")
        BY <1>1, <1>6, <2>2, RequestFields
      <3>2. uploads[leg].body = files[leg]
        BY <1>0, <1>1, <1>2, <1>9, <2>2, PrefixIsWhole
      <3>3. QED
        BY <1>2, <1>4, <1>9, <2>1, <2>2, <3>1, <3>2 DEF SameBut
    <2>3. CASE v = WithReply(uploads[leg], Refusal(uploads[leg].refusal))
      BY <1>2, <1>4, <1>5, <1>7, <1>9, <2>1, <2>3 DEF SameBut
    <2>4. QED
      BY <2>1, <2>2, <2>3
  <1>10. QED
    BY <1>8, <1>9 DEF Sends

\* A put of what it was sent: the whole file, or nothing.
LEMMA PutStep ==
    ASSUME TypeOK, Storing, SidecarPuts, UNCHANGED <<harnessVars, sent>>
    PROVE  /\ Uploading' /\ BlobOK'
           /\ \A k \in Keys : blobs[k] # None => blobs'[k] = blobs[k]
  <1>0. /\ uploads \in [Keys -> Requests \cup {None}] /\ blobs \in [Keys -> Seq(Lines) \cup {None}]
        /\ files \in [Keys -> Seq(Lines)] /\ backend' = backend
        /\ UNCHANGED <<leg, main, files, sent>>
    BY DEF TypeOK, HarnessTypeOK, StoreTypeOK, SidecarPuts, harnessVars
  <1>1. PICK k \in Keys, how \in PutOutcomes : Put(k, how)
    BY DEF SidecarPuts
  <1>2. /\ uploads[k] \in Requests /\ uploads[k] # None /\ uploads[k].over /\ uploads[k].reply = ""
    BY <1>0, <1>1, Zenon DEF Put
  <1>3. /\ AtRest(k) /\ uploads[k].refusal = "no" /\ backend = "set" /\ uploads[k].body = files[k]
        /\ k = leg /\ main = "waiting" => sent = Len(files[k])
    BY <1>2 DEF Storing, Uploading, RequestOK
  <1>4. blobs' = blobs \/ (blobs[k] = None /\ blobs' = [blobs EXCEPT ![k] = files[k]])
    <2>1. blobs' = [blobs EXCEPT ![k] = IF how = "fails" \/ @ # None THEN @ ELSE uploads[k].body]
      BY <1>1 DEF Put
    <2>2. CASE how = "fails" \/ blobs[k] # None
      BY <1>0, <2>1, <2>2
    <2>3. CASE ~(how = "fails" \/ blobs[k] # None)
      BY <1>0, <1>3, <2>1, <2>3
    <2>4. QED
      BY <2>2, <2>3
  <1>5. PICK r \in {"stored", "refused"} :
           /\ uploads' = [uploads EXCEPT ![k] = WithReply(uploads[k], r)]
           /\ r = "stored" => how = "stored" /\ blobs[k] = None
    <2>1. uploads' = [uploads EXCEPT ![k] = [uploads[k] EXCEPT !.reply =
                        IF how = "stored" /\ blobs[k] = None THEN "stored" ELSE "refused"]]
      BY <1>0, <1>1 DEF Put
    <2>2. CASE how = "stored" /\ blobs[k] = None
      BY <2>1, <2>2 DEF WithReply
    <2>3. CASE ~(how = "stored" /\ blobs[k] = None)
      BY <2>1, <2>3 DEF WithReply
    <2>4. QED
      BY <2>2, <2>3
  <1>6. SameBut(WithReply(uploads[k], r), files[k], TRUE, "no", r)
    BY <1>2, <1>3, RequestFields DEF Replies
  <1>7. r = "stored" => blobs'[k] # None
    <2>1. SUFFICES ASSUME r = "stored" PROVE blobs'[k] # None
      OBVIOUS
    <2>2. how = "stored" /\ blobs[k] = None
      BY <1>5, <2>1
    <2>3. blobs' = [blobs EXCEPT ![k] = IF how = "fails" \/ @ # None THEN @ ELSE uploads[k].body]
      BY <1>1 DEF Put
    <2>4. blobs'[k] = files[k]
      BY <1>0, <1>3, <2>2, <2>3
    <2>5. QED
      BY <1>0, <2>4, StoreAssumption
  <1>8. \A j \in Keys : AtRest(j)' <=> AtRest(j)
    BY <1>0 DEF AtRest
  <1>9. \A j \in Keys : blobs[j] # None => blobs'[j] = blobs[j]
    BY <1>0, <1>4
  <1>10. BlobOK'
    BY <1>0, <1>3, <1>4, <1>8 DEF Storing, BlobOK
  <1>11. ASSUME NEW j \in Keys, uploads'[j] # None PROVE RequestOK(j)'
    <2>1. CASE j = k
      <3>1. uploads'[k] = WithReply(uploads[k], r)
        BY <1>0, <1>5
      <3>2. QED
        BY <1>0, <1>3, <1>6, <1>7, <1>8, <2>1, <3>1 DEF SameBut, RequestOK
    <2>2. CASE j # k
      <3>1. uploads'[j] = uploads[j]
        BY <1>0, <1>5, <2>2
      <3>2. RequestOK(j)
        BY <1>11, <3>1 DEF Storing, Uploading
      <3>3. QED
        BY <1>0, <1>8, <1>9, <3>1, <3>2 DEF RequestOK
    <2>3. QED
      BY <2>1, <2>2
  <1>12. Uploading'
    BY <1>0, <1>11 DEF Storing, Uploading
  <1>13. QED
    BY <1>9, <1>10, <1>12

LEMMA StoringStep ==
    ASSUME TypeOK, Storing, [Next]_vars
    PROVE  Storing' /\ \A k \in Keys : blobs[k] # None => blobs'[k] = blobs[k]
  <1>0. /\ leg \in Keys /\ capture \in Captures /\ files \in [Keys -> Seq(Lines)]
        /\ uploads \in [Keys -> Requests \cup {None}] /\ blobs \in [Keys -> Seq(Lines) \cup {None}]
        /\ sent \in Nat /\ Storing /\ StoreTypeOK
        /\ main # "waiting" => sent = 0
    BY DEF TypeOK, HarnessTypeOK, StoreTypeOK, Storing, Uploading
  <1>1. Untouched' /\ Counted'
    BY CountingStep DEF Storing
  <1>2. /\ \A k \in Keys : AtRest(k) => AtRest(k)' /\ files'[k] = files[k]
        /\ backend' = backend
    BY RestStep DEF Storing
  <1> SUFFICES /\ Uploading' /\ BlobOK' /\ StoredOK'
               /\ \A k \in Keys : blobs[k] # None => blobs'[k] = blobs[k]
    BY <1>1 DEF Storing
  <1>3. CASE Opens
    <2>1. PICK on \in BOOLEAN : Open(on)
      BY <1>3 DEF Opens
    <2>2. capture'.stored = FALSE
      BY <2>1, UnopenedTypes DEF Open
    <2>3. QED
      BY <1>3, <2>1, <2>2, StillStored DEF Opens, Open, storeVars
  <1>4. CASE Drives
    <2>1. /\ main \in Running /\ main' \in {"reading", "folding", "closing"} /\ leg' = leg
          /\ UNCHANGED <<files, capture>> \/ \E l \in Lines : Offer(l)
          /\ UNCHANGED <<blobs, uploads, sent>>
      BY <1>4, DriveFootprint DEF Drives, storeVars
    <2>2. capture'.stored = capture.stored
      BY <2>1, OfferFootprint DEF Storing
    <2>3. QED
      BY <2>1, <2>2, StillStored DEF Running
  <1>5. CASE Closes
    <2>1. \/ capture' = [capture EXCEPT !.closed = TRUE]
          \/ capture' = [Inert EXCEPT !.closed = TRUE]
      BY <1>5 DEF Closes
    <2>2. capture'.stored = capture.stored
      BY <1>0, <2>1 DEF Inert, Captures
    <2>3. main = "closing" /\ main' # "waiting" /\ UNCHANGED <<leg, blobs, uploads, sent>>
      BY <1>5 DEF Closes, Stays, storeVars
    <2>4. QED
      BY <2>2, <2>3, StillStored
  <1>6. CASE ShipsDirectly
    <2>1. PICK stored \in BOOLEAN, failed \in BOOLEAN : Shipped(stored, failed) /\ (stored => backend = "set" /\ blobs' = [blobs EXCEPT ![leg] = files[leg]])
      BY <1>6 DEF ShipsDirectly
    <2>2. main = "shipping" /\ UNCHANGED <<leg, files, uploads>>
      BY <1>6 DEF ShipsDirectly, Stays
    <2>3. blobs' = blobs \/ (backend = "set" /\ blobs' = [blobs EXCEPT ![leg] = files[leg]])
      BY <1>6 DEF ShipsDirectly
    <2>4. files[leg] # None
      BY <1>0, StoreAssumption
    <2>5. \A k \in Keys : blobs[k] # None => blobs'[k] = blobs[k]
      BY <1>0, <2>3 DEF Storing, BlobOK
    <2>6. AtRest(leg)
      BY <2>2 DEF AtRest, Resting
    <2>7. BlobOK'
      BY <1>0, <1>2, <2>2, <2>3, <2>6 DEF Storing, BlobOK
    <2>8. stored => blobs'[leg] # None
      BY <1>0, <2>1, <2>4
    <2>9. QED
      BY <2>1, <2>2, <2>5, <2>7, <2>8, ShippingOver
  <1>7. CASE Connects
    <2>1. /\ main = "shipping" /\ main' = "waiting" /\ Accepts(leg)
          /\ UNCHANGED <<leg, files, capture, blobs, sent>>
      BY <1>7 DEF Connects, Stays
    <2>2. PICK v \in Requests :
              /\ uploads' = [uploads EXCEPT ![leg] = v]
              /\ v.body = <<>> /\ v.over = FALSE /\ v.reply = ""
              /\ v.refusal = "no" => backend = "set"
      BY <1>0, <2>1, AcceptsTypes
    <2>3. sent' = 0 /\ sent' <= Len(files[leg]) /\ SubSeq(files[leg], 1, 0) = <<>>
      BY <1>0, <2>1
    <2>4. ASSUME NEW k \in Keys, uploads'[k] # None PROVE RequestOK(k)'
      <3>1. AtRest(leg)'
        BY <2>1 DEF AtRest, Resting
      <3>2. CASE k = leg
        <4>1. uploads'[k] = v
          BY <1>0, <2>2, <3>2
        <4>2. QED
          BY <1>2, <2>1, <2>2, <2>3, <3>1, <3>2, <4>1 DEF RequestOK
      <3>3. CASE k # leg
        <4>1. uploads'[k] = uploads[k] /\ RequestOK(k)
          BY <1>0, <2>2, <2>4, <3>3 DEF Storing, Uploading
        <4>2. QED
          BY <1>2, <2>1, <3>3, <4>1 DEF RequestOK
      <3>4. QED
        BY <3>2, <3>3
    <2>5. Uploading'
      BY <2>1, <2>4 DEF Uploading
    <2>6. BlobOK' /\ StoredOK'
      BY <1>2, <2>1 DEF Storing, BlobOK, StoredOK
    <2>7. QED
      BY <2>1, <2>5, <2>6
  <1>8. CASE Sends
    <2>1. Uploading' /\ UNCHANGED <<leg, capture, blobs>>
      BY <1>8, SendsKeeps DEF Sends, Stays
    <2>2. BlobOK' /\ StoredOK'
      BY <1>2, <2>1 DEF Storing, BlobOK, StoredOK
    <2>3. QED
      BY <2>1, <2>2
  <1>9. CASE Hears
    <2>1. /\ main = "waiting" /\ uploads[leg] # None /\ UNCHANGED <<leg, files, blobs>>
          /\ Shipped(uploads[leg].reply = "stored", uploads[leg].reply = "refused")
          /\ uploads' = [uploads EXCEPT ![leg] = None]
      BY <1>9 DEF Hears, Answer, Stays
    <2>2. uploads[leg].reply = "stored" => blobs'[leg] # None
      BY <1>0, <2>1 DEF Storing, Uploading, RequestOK
    <2>3. BlobOK'
      BY <1>2, <2>1 DEF Storing, BlobOK
    <2>4. \A k \in Keys : uploads'[k] # None => uploads'[k] = uploads[k] /\ k # leg
      BY <1>0, <2>1
    <2>5. (uploads[leg].reply = "stored") \in BOOLEAN /\ (uploads[leg].reply = "refused") \in BOOLEAN
      OBVIOUS
    <2>6. QED
      BY <2>1, <2>2, <2>3, <2>4, <2>5, ShippingOver
  <1>10. CASE GivesUp
    <2>1. /\ UNCHANGED <<leg, files, blobs>> /\ Shipped(FALSE, TRUE)
          /\ \/ main = "shipping" /\ UNCHANGED uploads
             \/ main = "waiting" /\ IF uploads[leg] = None THEN UNCHANGED uploads ELSE Disconnects(leg)
      BY <1>10 DEF GivesUp, Stays
    <2>2. BlobOK'
      BY <1>2, <2>1 DEF Storing, BlobOK
    <2>3. \A k \in Keys : uploads'[k] # None =>
              uploads'[k] = uploads[k] /\ (k = leg /\ main = "waiting" => uploads[k].over)
      BY <1>0, <2>1, DisconnectsTypes
    <2>4. QED
      BY <2>1, <2>2, <2>3, ShippingOver
  <1>11. CASE Throttled \/ Answered
    <2>1. main = "ending" /\ main' # "waiting" /\ UNCHANGED <<blobs, uploads, sent>> /\ capture' = Unopened(FALSE)
      BY <1>11 DEF Throttled, Answered
    <2>2. capture'.stored = FALSE
      BY <2>1, UnopenedTypes
    <2>3. QED
      BY <2>1, <2>2, StillStored
  <1>12. CASE RunnerDies
    <2>1. /\ main' = "dead" /\ sent' = 0 /\ capture' = Unopened(FALSE)
          /\ UNCHANGED <<leg, files, blobs>>
          /\ IF uploads[leg] = None THEN UNCHANGED uploads ELSE Disconnects(leg)
      BY <1>12 DEF RunnerDies
    <2>2. \A k \in Keys : uploads'[k] # None =>
              uploads'[k] = uploads[k] /\ (k = leg => uploads[k].over)
      BY <1>0, <2>1, DisconnectsTypes
    <2>3. ASSUME NEW k \in Keys, uploads'[k] # None PROVE RequestOK(k)'
      <3>1. RequestOK(k) /\ uploads'[k] = uploads[k] /\ (k = leg => uploads[k].over)
        BY <2>2, <2>3 DEF Storing, Uploading
      <3>2. QED
        BY <1>2, <2>1, <3>1 DEF RequestOK
    <2>4. BlobOK'
      BY <1>2, <2>1 DEF Storing, BlobOK
    <2>5. StoredOK'
      BY <2>1, UnopenedTypes DEF StoredOK
    <2>6. QED
      BY <2>1, <2>3, <2>4, <2>5 DEF Uploading
  <1>13. CASE Serves
    <2>1. UNCHANGED <<harnessVars, sent>>
      BY <1>13 DEF Serves
    <2>2. UNCHANGED <<main, leg, files, capture>>
      BY <2>1 DEF harnessVars
    <2>3. CASE SidecarPuts
      <3>1. /\ Uploading' /\ BlobOK'
            /\ \A k \in Keys : blobs[k] # None => blobs'[k] = blobs[k]
        BY <2>1, <2>3, PutStep
      <3>2. StoredOK'
        BY <1>0, <2>2, <3>1 DEF Storing, StoredOK
      <3>3. QED
        BY <3>1, <3>2
    <2>4. CASE SidecarDies
      <3>1. (\A k \in Keys : uploads'[k] = None) /\ blobs' = blobs
        BY <2>4 DEF SidecarDies
      <3>2. QED
        BY <1>0, <1>2, <2>1, <2>2, <3>1 DEF Storing, Uploading, BlobOK, StoredOK
    <2>5. CASE UNCHANGED <<blobs, uploads>>
      BY <2>1, <2>2, <2>5, StillStored
    <2>6. QED
      BY <1>13, <2>3, <2>4, <2>5 DEF Serves, StoreStep, IndexTranscript, RecordRow, LosePost, ReaderStarts, ReaderPages
  <1>14. CASE UNCHANGED vars
    BY <1>14, StillStored DEF vars, harnessVars, storeVars
  <1>15. QED
    BY <1>3, <1>4, <1>5, <1>6, <1>7, <1>8, <1>9, <1>10, <1>11, <1>12, <1>13, <1>14 DEF Next, Ships

-----------------------------------------------------------------------------
(* The index and what refers to it *)

\* Posts that speak of the same blobs and the same rows stay good.
LEMMA PostsStay ==
    ASSUME TypeOK, IndexOK,
           \A k \in Keys : blobs[k] # None => blobs'[k] = blobs[k],
           \A k \in Keys : index[k] # None => index'[k] # None
    PROVE  \A p \in posts : PostOK(p)'
  <1> SUFFICES ASSUME NEW p \in posts, p.key # None
               PROVE  /\ blobs'[p.key] # None /\ p.figures = Figures(blobs'[p.key])
                      /\ p.step = "row" => index'[p.key] # None
    BY DEF PostOK
  <1>1. p.key \in Keys
    BY PostFields DEF TypeOK, StoreTypeOK
  <1>2. PostOK(p)
    BY DEF IndexOK
  <1>3. QED
    BY <1>1, <1>2 DEF PostOK

LEMMA RowsStay ==
    ASSUME TypeOK, IndexOK, UNCHANGED <<index, runs>>,
           \A k \in Keys : blobs[k] # None => blobs'[k] = blobs[k],
           \A p \in posts' : p \in posts \/ (p \in Posts /\ PostOK(p))
    PROVE  IndexOK'
  <1>1. \A p \in posts : PostOK(p)'
    BY PostsStay
  <1>2. ASSUME NEW p \in posts' PROVE PostOK(p)'
    <2>1. CASE p \in posts
      BY <1>1, <2>1
    <2>2. CASE p \notin posts
      <3>1. p.key # None => p.key \in Keys
        BY <1>2, <2>2, PostFields
      <3>2. PostOK(p)
        BY <1>2, <2>2
      <3>3. QED
        BY <3>1, <3>2 DEF PostOK
    <2>3. QED
      BY <2>1, <2>2
  <1>3. ASSUME NEW k \in Keys
        PROVE  /\ index'[k] # None => blobs'[k] # None /\ index'[k].figures = Figures(blobs'[k])
               /\ runs'[k] > 0 => index'[k] # None
    BY DEF IndexOK
  <1>4. QED
    BY <1>2, <1>3 DEF IndexOK

\* record after index_transcript: the row is of the blob's own figures, and
\* only a row that landed is referred to.
LEMMA IndexTranscriptStep == TypeOK /\ IndexOK /\ IndexTranscript => IndexOK'
  <1> SUFFICES ASSUME TypeOK, IndexOK, IndexTranscript PROVE IndexOK'
    OBVIOUS
  <1>0. index \in [Keys -> IndexRows \cup {None}] /\ runs \in [Keys -> Nat]
    BY DEF TypeOK, StoreTypeOK
  <1>1. PICK p \in posts :
            /\ p.step = "index"
            /\ \/ UNCHANGED index /\ Continue(p, None)
               \/ /\ p.key # None
                  /\ \E at \in Ticks :
                       index' = [index EXCEPT ![p.key] = IF @ = None THEN [at |-> at, figures |-> p.figures] ELSE @]
                  /\ Continue(p, p.key) \/ Continue(p, None)
            /\ UNCHANGED <<backend, blobs, uploads, runs, reader>>
    BY DEF IndexTranscript
  <1>2. p \in Posts /\ PostOK(p) /\ (p.key # None => p.key \in Keys /\ p.figures \in Figured)
    <2>1. p \in Posts /\ (p.key # None => p.figures \in Figured)
      BY DEF TypeOK, StoreTypeOK
    <2>2. QED
      BY <2>1, PostFields DEF IndexOK
  <1>3. ASSUME NEW at \in Ticks, p.key # None,
               index' = [index EXCEPT ![p.key] = IF @ = None THEN [at |-> at, figures |-> p.figures] ELSE @]
        PROVE  /\ index'[p.key] # None
               /\ \A k \in Keys : index'[k] # index[k] =>
                     index[k] = None /\ k = p.key /\ index'[k].figures = p.figures
    <2>1. [at |-> at, figures |-> p.figures] \in IndexRows
      BY <1>2, <1>3 DEF IndexRows
    <2>2. [at |-> at, figures |-> p.figures] # None
      BY <2>1, StoreAssumption
    <2>3. QED
      BY <1>0, <1>2, <1>3, <2>2
  <1>4. /\ \A k \in Keys : index'[k] # index[k] =>
              index[k] = None /\ k = p.key /\ p.key # None /\ index'[k].figures = p.figures
        /\ index' # index => index'[p.key] # None
        /\ Continue(p, None) \/ (p.key # None /\ index'[p.key] # None /\ Continue(p, p.key))
    BY <1>1, <1>3
  <1>5. \A k \in Keys : index[k] # None => index'[k] # None
    BY <1>4
  <1>6. \A k \in Keys : index'[k] # None => blobs'[k] # None /\ index'[k].figures = Figures(blobs'[k])
    BY <1>1, <1>2, <1>4 DEF PostOK, IndexOK
  <1>7. \A q \in posts : PostOK(q)'
    BY <1>1, <1>5, PostsStay
  <1>8. ASSUME NEW ref \in {p.key, None}, Continue(p, ref), ref # None => index'[ref] # None
        PROVE  \A q \in posts' : PostOK(q)'
    <2>1. /\ ref \in Keys \cup {None} /\ (ref # None => ref = p.key)
      BY <1>2, PostFields
    <2>2. ThenRow(p, ref).key = ref /\ ThenRow(p, ref).figures = p.figures
      BY <1>2, <2>1, PostFields
    <2>3. PostOK(ThenRow(p, ref))'
      BY <1>1, <1>2, <1>8, <2>1, <2>2 DEF PostOK
    <2>4. \A q \in posts' : q \in posts \/ q = ThenRow(p, ref)
      BY <1>8 DEF Continue
    <2>5. QED
      BY <1>7, <2>3, <2>4
  <1>9. \A q \in posts' : PostOK(q)'
    BY <1>4, <1>8
  <1>10. \A k \in Keys : runs'[k] > 0 => index'[k] # None
    BY <1>1, <1>5 DEF IndexOK
  <1>11. QED
    BY <1>6, <1>9, <1>10 DEF IndexOK

LEMMA RecordRowStep == TypeOK /\ IndexOK /\ RecordRow => IndexOK'
  <1> SUFFICES ASSUME TypeOK, IndexOK, RecordRow PROVE IndexOK'
    OBVIOUS
  <1>0. runs \in [Keys -> Nat]
    BY DEF TypeOK, StoreTypeOK
  <1>1. PICK p \in posts :
            /\ p.step = "row"
            /\ runs' = runs \/ (p.key # None /\ runs' = [runs EXCEPT ![p.key] = @ + 1])
            /\ posts' = (posts \ {p}) \cup
                  (IF p.again > 0 /\ p.key # None
                   THEN {[p EXCEPT !.again = @ - 1, !.step = "index"]} ELSE {})
            /\ UNCHANGED <<backend, blobs, uploads, index, reader>>
    BY DEF RecordRow
  <1>2. p \in Posts /\ PostOK(p) /\ (p.key # None => p.key \in Keys)
    <2>1. p \in Posts
      BY DEF TypeOK, StoreTypeOK
    <2>2. QED
      BY <2>1, PostFields DEF IndexOK
  <1>3. \A k \in Keys : runs'[k] > 0 => index'[k] # None
    <2>1. \A k \in Keys : runs'[k] = runs[k] \/ (k = p.key /\ p.key # None)
      BY <1>0, <1>1, <1>2
    <2>2. p.key # None => index[p.key] # None
      BY <1>1, <1>2 DEF PostOK
    <2>3. QED
      BY <1>1, <2>1, <2>2 DEF IndexOK
  <1>4. \A q \in posts : PostOK(q)'
    BY <1>1, PostsStay
  <1>5. \A q \in posts' : PostOK(q)'
    <2>1. CASE p.again > 0 /\ p.key # None
      <3>0. p.again \in 0..Redelivered
        BY <1>2, PostFields
      <3>1. p.again - 1 \in 0..Redelivered
        BY <2>1, <3>0, StoreAssumption
      <3>2. Again(p, p.again - 1).key = p.key /\ Again(p, p.again - 1).figures = p.figures /\ Again(p, p.again - 1).step = "index"
        BY <1>2, <3>1, PostFields
      <3>3. PostOK(Again(p, p.again - 1))'
        BY <1>1, <1>2, <3>2 DEF PostOK
      <3>4. \A q \in posts' : q \in posts \/ q = Again(p, p.again - 1)
        BY <1>1 DEF Again
      <3>5. QED
        BY <1>4, <3>3, <3>4
    <2>2. CASE ~(p.again > 0 /\ p.key # None)
      BY <1>1, <1>4, <2>2
    <2>3. QED
      BY <2>1, <2>2
  <1>6. QED
    BY <1>1, <1>3, <1>5 DEF IndexOK

LEMMA IndexStep == TypeOK /\ Storing /\ IndexOK /\ [Next]_vars => IndexOK'
  <1> SUFFICES ASSUME TypeOK, Storing, IndexOK, [Next]_vars PROVE IndexOK'
    OBVIOUS
  <1>1. \A k \in Keys : blobs[k] # None => blobs'[k] = blobs[k]
    BY StoringStep
  <1>2. CASE UNCHANGED <<index, runs>> /\ posts' \subseteq posts
    BY <1>1, <1>2, RowsStay
  <1>3. CASE Throttled \/ Answered
    <2>1. posts' \subseteq posts \cup {Post("leg", Key, Fig), Post("run", Key, Fig)} /\ UNCHANGED <<index, runs>>
      BY <1>3 DEF Throttled, Answered, Leg, Run
    <2>2. \A p \in posts' : p \in posts \/ (p \in Posts /\ PostOK(p))
      BY <2>1, PostsOfLeg
    <2>3. QED
      BY <1>1, <2>1, <2>2, RowsStay
  <1>4. CASE Serves
    BY <1>2, <1>4, IndexTranscriptStep, RecordRowStep
    DEF Serves, StoreStep, SidecarPuts, SidecarDies, LosePost, ReaderStarts, ReaderPages
  <1>5. CASE Opens \/ Drives \/ UNCHANGED vars
    BY <1>2, <1>5 DEF Opens, Drives, vars, storeVars
  <1>6. CASE Closes \/ Ships \/ RunnerDies
    BY <1>2, <1>6 DEF Closes, Ships, ShipsDirectly, Connects, Sends, Hears, GivesUp, RunnerDies, storeVars
  <1>7. QED
    BY <1>3, <1>4, <1>5, <1>6 DEF Next

-----------------------------------------------------------------------------
(* The paged listing *)

\* The rows listed before that of r.
Ahead(r) == {k \in Indexed : Before(k, r)}

\* A row that the reader is owed and has not been shown is still to come.
ReaderOK ==
    /\ reader.owed \subseteq Indexed
    /\ reader.on => \A r \in reader.owed \ reader.shown : Cardinality(Ahead(r)) >= reader.offset
    /\ PagedReaderMissesNothing

LEMMA IndexedIsFinite == IsFiniteSet(Indexed) /\ Cardinality(Indexed) \in Nat /\ Indexed \subseteq Keys
  <1>1. Indexed \subseteq 1..Legs /\ IsFiniteSet(1..Legs)
    BY FS_Interval, HarnessAssumption DEF Indexed, Keys
  <1>2. QED
    BY <1>1, FS_Subset, FS_CardinalityType DEF Keys

\* created_at and then the key: a total order of the rows.
LEMMA BeforeIsOrder ==
    ASSUME TypeOK, NEW j \in Indexed, NEW k \in Indexed
    PROVE  ~(Before(j, k) /\ Before(k, j)) /\ ~Before(k, k)
  <1>1. index[j].at \in Nat /\ index[k].at \in Nat
    <2>1. index[j] \in IndexRows /\ index[k] \in IndexRows
      BY IndexedIsFinite DEF TypeOK, StoreTypeOK, Indexed
    <2>2. QED
      BY <2>1 DEF IndexRows, Ticks
  <1>2. j \in Nat /\ k \in Nat
    BY IndexedIsFinite DEF Keys
  <1>3. QED
    BY <1>1, <1>2 DEF Before

\* A row's place in the listing tells how many rows are ahead of it.
LEMMA PlaceInListing ==
    ASSUME TypeOK, NEW s \in Listings, NEW r \in Indexed
    PROVE  /\ Len(s) \in Nat
           /\ \E p \in 1..Len(s) : s[p] = r /\ Cardinality(Ahead(r)) = p - 1
  <1> DEFINE n == Cardinality(Indexed)
  <1>1. /\ s \in [1..n -> Indexed] /\ (\A i, j \in 1..n : i # j => s[i] # s[j])
        /\ \A i, j \in DOMAIN s : i < j => Before(s[i], s[j])
    BY DEF Listings, SetToSeqs
  <1>2. n \in Nat /\ IsFiniteSet(Indexed)
    BY IndexedIsFinite
  <1>3. Len(s) = n /\ DOMAIN s = 1..n
    BY <1>1, <1>2
  <1>4. s \in Injection(1..n, Indexed)
    BY <1>1 DEF Injection, IsInjective
  <1>5. Cardinality(1..n) = n
    BY <1>2, FS_Interval
  <1>6. s \in Surjection(1..n, Indexed)
    BY <1>2, <1>4, <1>5, FS_Injection
  <1>7. PICK p \in 1..n : s[p] = r
    BY <1>6 DEF Surjection
  <1>8. \A i \in 1..n : Before(s[i], r) <=> i < p
    <2> SUFFICES ASSUME NEW i \in 1..n PROVE Before(s[i], r) <=> i < p
      OBVIOUS
    <2>1. CASE i < p
      BY <1>1, <1>3, <1>7, <2>1
    <2>2. CASE i = p
      BY <1>7, <2>2, BeforeIsOrder
    <2>3. CASE i > p
      <3>1. Before(r, s[i]) /\ s[i] \in Indexed
        BY <1>1, <1>3, <1>7, <2>3
      <3>2. QED
        BY <2>3, <3>1, BeforeIsOrder, <1>2
    <2>4. QED
      BY <1>2, <1>7, <2>1, <2>2, <2>3
  <1> DEFINE f == [i \in 1..(p - 1) |-> s[i]]
  <1>9. f \in Bijection(1..(p - 1), Ahead(r))
    <2>1. \A i \in 1..(p - 1) : i \in 1..n /\ i < p
      BY <1>2, <1>7
    <2>2. f \in [1..(p - 1) -> Ahead(r)]
      BY <1>1, <1>8, <2>1 DEF Ahead
    <2>3. \A i, j \in 1..(p - 1) : f[i] = f[j] => i = j
      BY <1>1, <2>1
    <2>4. ASSUME NEW k \in Ahead(r) PROVE \E i \in 1..(p - 1) : f[i] = k
      <3>1. PICK i \in 1..n : s[i] = k
        BY <1>6, <2>4 DEF Surjection, Ahead
      <3>2. i < p
        BY <1>8, <2>4, <3>1 DEF Ahead
      <3>3. i \in 1..(p - 1)
        BY <1>2, <1>7, <3>1, <3>2
      <3>4. QED
        BY <3>1, <3>3
    <2>5. QED
      BY <2>2, <2>3, <2>4 DEF Bijection, Injection, Surjection, IsInjective
  <1>10. Cardinality(Ahead(r)) = p - 1
    <2>a. 1 \in Int /\ p - 1 \in Int /\ (1 <= p - 1 \/ p - 1 = 0)
      BY <1>2, <1>7
    <2>b. IsFiniteSet(1..(p - 1)) /\ Cardinality(1..(p - 1)) = IF 1 > p - 1 THEN 0 ELSE (p - 1) - 1 + 1
      BY <2>a, FS_Interval
    <2>1. IsFiniteSet(1..(p - 1)) /\ Cardinality(1..(p - 1)) = p - 1
      BY <2>a, <2>b
    <2>2. ExistsBijection(1..(p - 1), Ahead(r))
      BY <1>9 DEF ExistsBijection
    <2>3. QED
      BY <2>1, <2>2, FS_Bijection
  <1>11. QED
    BY <1>2, <1>3, <1>7, <1>10

\* Rows are only added to the index, and none is moved.
LEMMA IndexGrows ==
    ASSUME TypeOK, [Next]_vars
    PROVE  \A k \in Keys : index[k] # None => index'[k] = index[k]
  <1>1. CASE Serves
    <2>1. CASE IndexTranscript
      <3>1. PICK p \in posts : UNCHANGED index \/ \E at \in Ticks :
                index' = [index EXCEPT ![p.key] = IF @ = None THEN [at |-> at, figures |-> p.figures] ELSE @]
        BY <2>1 DEF IndexTranscript
      <3>2. index \in [Keys -> IndexRows \cup {None}]
        BY DEF TypeOK, StoreTypeOK
      <3>3. QED
        BY <3>1, <3>2
    <2>2. QED
      BY <1>1, <2>1 DEF Serves, StoreStep, SidecarPuts, SidecarDies, RecordRow, LosePost, ReaderStarts, ReaderPages
  <1>2. CASE Opens \/ Drives \/ Closes \/ Ships
    BY <1>2 DEF Opens, Drives, Closes, Ships, ShipsDirectly, Connects, Sends, Hears, GivesUp, storeVars
  <1>3. CASE Throttled \/ Answered \/ RunnerDies
    BY <1>3 DEF Throttled, Answered, RunnerDies
  <1>4. CASE UNCHANGED vars
    BY <1>4 DEF vars, storeVars
  <1>5. QED
    BY <1>1, <1>2, <1>3, <1>4 DEF Next

LEMMA AheadGrows ==
    ASSUME TypeOK, [Next]_vars, NEW r \in Indexed
    PROVE  r \in Indexed' /\ Ahead(r) \subseteq Ahead(r)'
           /\ Cardinality(Ahead(r)) \in Nat /\ Cardinality(Ahead(r)') \in Nat
           /\ Cardinality(Ahead(r)) <= Cardinality(Ahead(r)')
  <1>1. \A k \in Indexed : k \in Keys /\ index[k] # None /\ index'[k] = index[k]
    BY IndexGrows DEF Indexed
  <1>2. r \in Indexed' /\ Ahead(r) \subseteq Ahead(r)'
    BY <1>1 DEF Ahead, Indexed, Before
  <1>a. Ahead(r) \subseteq Keys
    BY DEF Ahead, Indexed
  <1>b. Ahead(r)' \subseteq Keys
    BY DEF Ahead, Indexed
  <1>c. 1 \in Int /\ Legs \in Int
    BY HarnessAssumption
  <1>d. IsFiniteSet(1..Legs)
    BY <1>c, FS_Interval
  <1>3. Ahead(r) \subseteq Keys /\ Ahead(r)' \subseteq Keys /\ IsFiniteSet(Keys)
    BY <1>a, <1>b, <1>d DEF Keys
  <1>4. IsFiniteSet(Ahead(r)) /\ IsFiniteSet(Ahead(r)')
    BY <1>3, FS_Subset
  <1>5. QED
    BY <1>2, <1>4, FS_Subset, FS_CardinalityType

LEMMA ReaderStep == TypeOK /\ ReaderOK /\ [Next]_vars => ReaderOK'
  <1> SUFFICES ASSUME TypeOK, ReaderOK, [Next]_vars PROVE ReaderOK'
    OBVIOUS
  <1>0. reader \in [owed : SUBSET Keys, shown : SUBSET Keys, offset : Nat, on : BOOLEAN]
    BY DEF TypeOK, StoreTypeOK
  <1>1. CASE ReaderPages
    <2>1. PICK s \in Listings :
              IF reader.offset < Len(s)
              THEN reader' = [reader EXCEPT !.shown = @ \cup {s[reader.offset + 1]}, !.offset = @ + 1]
              ELSE reader' = [reader EXCEPT !.on = FALSE]
      BY <1>1 DEF ReaderPages
    <2>2. reader.on /\ index' = index
      BY <1>1 DEF ReaderPages
    <2>3. Indexed' = Indexed /\ \A r : Ahead(r)' = Ahead(r)
      BY <2>2 DEF Indexed, Ahead, Before
    <2>4. ASSUME NEW r \in reader.owed \ reader.shown
          PROVE  /\ Cardinality(Ahead(r)) >= reader.offset
                 /\ Len(s) \in Nat
                 /\ \E p \in 1..Len(s) : s[p] = r /\ Cardinality(Ahead(r)) = p - 1
      BY <2>2, PlaceInListing DEF ReaderOK
    <2>5. CASE reader.offset < Len(s)
      <3>1. /\ reader'.owed = reader.owed /\ reader'.offset = reader.offset + 1 /\ reader'.on = reader.on
            /\ reader'.shown = reader.shown \cup {s[reader.offset + 1]}
        BY <1>0, <2>1, <2>5
      <3>2. ASSUME NEW r \in reader'.owed \ reader'.shown
            PROVE  Cardinality(Ahead(r)) >= reader.offset + 1
        <4>1. PICK p \in 1..Len(s) : s[p] = r /\ Cardinality(Ahead(r)) = p - 1
          BY <2>4, <3>1
        <4>2. p # reader.offset + 1
          BY <3>1, <4>1
        <4>3. p - 1 >= reader.offset
          BY <2>4, <3>1, <4>1
        <4>4. QED
          BY <1>0, <4>1, <4>2, <4>3
      <3>3. QED
        BY <2>2, <2>3, <3>1, <3>2 DEF ReaderOK, PagedReaderMissesNothing
    <2>6. CASE ~(reader.offset < Len(s))
      <3>1. reader'.owed = reader.owed /\ reader'.shown = reader.shown /\ reader'.on = FALSE
        BY <1>0, <2>1, <2>6
      <3>2. ASSUME NEW r \in reader.owed \ reader.shown PROVE FALSE
        BY <1>0, <2>4, <2>6
      <3>3. QED
        BY <2>3, <3>1, <3>2 DEF ReaderOK, PagedReaderMissesNothing
    <2>7. QED
      BY <2>5, <2>6
  <1>2. CASE ReaderStarts
    <2>1. reader' = [Unread EXCEPT !.owed = Indexed, !.on = TRUE] /\ index' = index
      BY <1>2 DEF ReaderStarts
    <2>2. reader'.owed = Indexed /\ reader'.on = TRUE /\ reader'.offset = 0
      BY <2>1 DEF Unread
    <2>3. Indexed' = Indexed
      BY <2>1 DEF Indexed
    <2>4. \A r \in Indexed : Cardinality(Ahead(r)') >= 0
      BY AheadGrows
    <2>5. QED
      BY <2>2, <2>3, <2>4 DEF ReaderOK, PagedReaderMissesNothing
  <1>3. CASE UNCHANGED reader
    <2>1. reader.owed \subseteq Indexed'
      BY AheadGrows DEF ReaderOK
    <2>2. ASSUME reader.on, NEW r \in reader.owed \ reader.shown
          PROVE  Cardinality(Ahead(r)') >= reader.offset
      <3>1. /\ Cardinality(Ahead(r)) >= reader.offset /\ Cardinality(Ahead(r)) \in Nat
            /\ Cardinality(Ahead(r)') \in Nat /\ Cardinality(Ahead(r)) <= Cardinality(Ahead(r)')
        BY <2>2, AheadGrows DEF ReaderOK
      <3>2. QED
        BY <1>0, <3>1
    <2>3. QED
      BY <1>3, <2>1, <2>2 DEF ReaderOK, PagedReaderMissesNothing
  <1>4. CASE Serves
    BY <1>1, <1>2, <1>3, <1>4 DEF Serves, StoreStep, SidecarPuts, SidecarDies, IndexTranscript, RecordRow, LosePost
  <1>5. CASE Opens \/ Drives \/ Closes \/ Ships
    BY <1>3, <1>5 DEF Opens, Drives, Closes, Ships, ShipsDirectly, Connects, Sends, Hears, GivesUp, storeVars
  <1>6. CASE Throttled \/ Answered \/ RunnerDies \/ UNCHANGED vars
    BY <1>3, <1>6 DEF Throttled, Answered, RunnerDies, vars, storeVars
  <1>7. QED
    BY <1>4, <1>5, <1>6 DEF Next

-----------------------------------------------------------------------------
(* The theorems *)

LEMMA SessionInit == Init => SessionInv
  <1> SUFFICES ASSUME Init PROVE SessionInv
    OBVIOUS
  <1>0. Legs \in Nat \ {0} /\ Keys = 1..Legs /\ 1 \in Keys
    BY HarnessAssumption DEF Keys
  <1>1. HarnessTypeOK
    <2>1. leg \in Keys /\ left \in Amounts
      BY <1>0, LengthsAreAmounts DEF Init, HarnessInit
    <2>2. files \in [Keys -> Seq(Lines)]
      BY DEF Init, HarnessInit
    <2>3. pipe \in Contents /\ Len(pipe.out) <= PipeCap /\ capture \in Captures
      BY EmptyPipe, UnopenedTypes DEF Init, HarnessInit
    <2>4. QED
      BY <2>1, <2>2, <2>3 DEF Init, HarnessInit, HarnessTypeOK
  <1>2. StoreTypeOK
    BY DEF Init, StoreInit, StoreTypeOK, Unread
  <1>3. Scrubbing
    BY DEF Init, HarnessInit, Scrubbing, FeedShielded, FilesScrubbed, Empty
  <1>4. Storing
    BY UnopenedTypes DEF Init, HarnessInit, StoreInit, Storing, Untouched, Counted, Uploading, BlobOK, StoredOK
  <1>5. IndexOK
    BY DEF Init, StoreInit, IndexOK
  <1>6. QED
    BY <1>1, <1>2, <1>3, <1>4, <1>5 DEF SessionInv, Init, TypeOK

LEMMA SessionInvariant == Spec => []SessionInv
  <1>1. SessionInv /\ [Next]_vars => SessionInv'
    BY TypeStep, ScrubbingStep, StoringStep, IndexStep DEF SessionInv
  <1>2. QED
    BY <1>1, SessionInit, PTL DEF Spec

\* Every variable of the agent run, the upload and the index keeps its type:
\* the pipes never hold more than they can, and a post that names a transcript
\* has figures.
THEOREM SessionTypeCorrect == Spec => []TypeOK
  <1>1. SessionInv => TypeOK
    BY DEF SessionInv
  <1>2. QED
    BY <1>1, SessionInvariant, PTL

\* Scrubber and ship: whatever the agent prints, and wherever the timer, its own
\* end or a failing sink cuts a line, no file and no blob shows a credential or
\* the beginning of one.
THEOREM CredentialsAreScrubbed == Spec => []NoCredentialKept
  <1>1. SessionInv => NoCredentialKept
    BY DEF SessionInv, Scrubbing, FilesScrubbed, Storing, BlobOK, NoCredentialKept
  <1>2. QED
    BY <1>1, SessionInvariant, PTL

\* _put_blob and ship: a blob is the closed file of its leg, byte for byte,
\* whichever uploads were cut off, answered twice or put after the runner died.
THEOREM BlobsAreWhole == Spec => []BlobIsTheWholeFile
  <1>1. SessionInv => BlobIsTheWholeFile
    BY DEF SessionInv, Storing, BlobOK, BlobIsTheWholeFile
  <1>2. QED
    BY <1>1, SessionInvariant, PTL

\* index_transcript and record: a run refers only to a row that is there, and
\* a row only to a blob that is there, whose figures it has, however many
\* posts, answers and processes are lost in between.
THEOREM ReferencesAreKept == Spec => []ReferencesHold
  <1>1. SessionInv => ReferencesHold
    BY DEF SessionInv, Storing, BlobOK, IndexOK, ReferencesHold, Fetch
  <1>2. QED
    BY <1>1, SessionInvariant, PTL

\* The listing's order is total and rows are only added, so a caller that
\* pages to the end has been shown every row that was there when it began.
THEOREM ReadersMissNothing == Spec => []PagedReaderMissesNothing
  <1>1. Init => ReaderOK
    BY DEF Init, StoreInit, ReaderOK, PagedReaderMissesNothing, Unread
  <1>2. SessionInv => TypeOK
    BY DEF SessionInv
  <1>3. TypeOK /\ ReaderOK /\ [Next]_vars => ReaderOK'
    BY ReaderStep
  <1>4. ReaderOK => PagedReaderMissesNothing
    BY DEF ReaderOK
  <1>5. QED
    BY <1>1, <1>2, <1>3, <1>4, SessionInvariant, PTL DEF Spec

=============================================================================

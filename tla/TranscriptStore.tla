--------------------------- MODULE TranscriptStore ---------------------------
(***************************************************************************)
(* Where finished transcripts go: the sidecar's upload endpoint and its     *)
(* write-once blobs, the index row of each transcript, the metrics row that  *)
(* may refer to it, and the reader that pages through the listing.          *)
(***************************************************************************)
EXTENDS Transcript, SequencesExt

CONSTANTS
    Redelivered \* how often a metrics post may arrive again

VARIABLES
    backend,    \* the sidecar's settings: "unset", "unusable" or "set"
    blobs,      \* key |-> its lines, None
    uploads,    \* key |-> the request being served, None
    index,      \* key |-> its row of review_transcripts, None
    runs,       \* key |-> how many rows of review_runs refer to it
    posts,      \* the metrics posts under way
    reader      \* a caller that pages through the listing

storeVars == <<backend, blobs, uploads, index, runs, posts, reader>>

Ticks == 1..2   \* created_at, at the resolution two rows can share
Unread == [owed |-> {}, shown |-> {}, offset |-> 0, on |-> FALSE]

Requests ==
    [refusal : {"no", "unconfigured", "unusable"}, body : Seq(Lines), over : BOOLEAN,
     reply : {"", "stored", "unconfigured", "refused"}]
IndexRows == [at : Ticks, figures : Figured]
Posts ==
    [kind : {"leg", "run"}, key : Keys \cup {None}, figures : Figured \cup {None},
     step : {"index", "row"}, again : 0..Redelivered]

ASSUME StoreAssumption ==
    /\ Redelivered \in Nat
    /\ None \notin Seq(Lines) /\ None \notin Requests /\ None \notin IndexRows

StoreTypeOK ==
    /\ backend \in {"unset", "unusable", "set"}
    /\ blobs \in [Keys -> Seq(Lines) \cup {None}]
    /\ uploads \in [Keys -> Requests \cup {None}]
    /\ index \in [Keys -> IndexRows \cup {None}]
    /\ runs \in [Keys -> Nat]
    /\ posts \subseteq Posts
    /\ \A p \in posts : p.key # None => p.figures \in Figured
    /\ reader \in [owed : SUBSET Keys, shown : SUBSET Keys, offset : Nat, on : BOOLEAN]

StoreInit ==
    /\ backend \in {"unset", "unusable", "set"}
    /\ blobs = [k \in Keys |-> None] /\ uploads = [k \in Keys |-> None]
    /\ index = [k \in Keys |-> None] /\ runs = [k \in Keys |-> 0]
    /\ posts = {} /\ reader = Unread

-----------------------------------------------------------------------------
\* The answer to a request that is not stored: only the off state is marked.
Refusal(why) == IF why = "unconfigured" THEN "unconfigured" ELSE "refused"

\* The endpoint classifies before it reads the body, and reads it whatever it
\* will answer: a refused body is dropped as it arrives.
Accepts(k) ==
    uploads' = [uploads EXCEPT ![k] =
        [refusal |-> CASE backend = "unset" -> "unconfigured" [] backend = "unusable" -> "unusable" [] OTHER -> "no",
         body |-> <<>>, over |-> FALSE, reply |-> ""]]

\* One chunk, of any size: the answer that the body, or what was dropped of
\* it, is too large is the only one that does not wait for the rest.
Receives(k, l) ==
    \/ uploads' = [uploads EXCEPT ![k].body = IF uploads[k].refusal = "no" THEN Append(@, l) ELSE @]
    \/ uploads' = [uploads EXCEPT ![k].reply = Refusal(uploads[k].refusal)]

BodyEnds(k) ==
    uploads' = [uploads EXCEPT ![k] =
        IF @.refusal = "no" THEN [@ EXCEPT !.over = TRUE]
        ELSE [@ EXCEPT !.reply = Refusal(uploads[k].refusal)]]

\* Mutant: what arrived before the client went away is stored.
KeepsWhatArrived(k) ==
    uploads' = [uploads EXCEPT ![k] = [@ EXCEPT !.over = TRUE]]  \* mutant

\* The client went away: a body that is not complete is dropped.
Disconnects(k) ==
    uploads' = [uploads EXCEPT ![k] = IF @.over THEN @ ELSE None]

\* The write-once put of a complete body: a link, or a conditional put, that
\* creates the blob whole or not at all; it may also report the failure of a
\* put that took effect, or the conflict with its own first attempt.
Put(k, how) ==
    /\ uploads[k] # None /\ uploads[k].over /\ uploads[k].reply = ""
    /\ blobs' = [blobs EXCEPT ![k] = IF how = "fails" \/ @ # None THEN @ ELSE uploads[k].body]
    /\ uploads' = [uploads EXCEPT ![k].reply =
          IF how = "stored" /\ blobs[k] = None THEN "stored" ELSE "refused"]

PutOutcomes == {"stored", "fails", "stored unheard"}

SidecarPuts ==
    /\ \E k \in Keys, how \in PutOutcomes : Put(k, how)
    /\ UNCHANGED <<backend, index, runs, posts, reader>>

\* The sidecar dies: the requests it was serving are gone, and so is what it
\* had not committed of a post.
SidecarDies ==
    /\ \/ \E k \in Keys : uploads[k] # None
       \/ posts # {}
    /\ uploads' = [k \in Keys |-> None] /\ posts' = {}
    /\ UNCHANGED <<backend, blobs, index, runs, reader>>

-----------------------------------------------------------------------------
Post(kind, k, figures) ==
    [kind |-> kind, key |-> k, figures |-> figures, step |-> "index", again |-> Redelivered]

\* record, after index_transcript: only a row that landed is referred to.
ThenRow(p, ref) == [p EXCEPT !.step = "row", !.key = ref]

Continue(p, ref) ==
    posts' = (posts \ {p}) \cup (IF p.kind = "run" THEN {ThenRow(p, ref)} ELSE {})

\* index_transcript, in a transaction of its own.  A row that is there already
\* is success; a failure may be that of a row that landed.
IndexTranscript ==
    \E p \in posts :
        /\ p.step = "index"
        /\ IF p.key = None THEN Continue(p, None) /\ UNCHANGED index
           ELSE \/ /\ \E at \in Ticks :
                         index' = [index EXCEPT ![p.key] =
                             IF @ = None THEN [at |-> at, figures |-> p.figures] ELSE @]
                   /\ Continue(p, p.key) \/ Continue(p, None)
                \/ Continue(p, None) /\ UNCHANGED index
        /\ UNCHANGED <<backend, blobs, uploads, runs, reader>>

\* The metrics row, in a second transaction; the post may arrive again.
RecordRow ==
    \E p \in posts :
        /\ p.step = "row"
        /\ \/ UNCHANGED runs
           \/ p.key = None /\ UNCHANGED runs
           \/ p.key # None /\ runs' = [runs EXCEPT ![p.key] = @ + 1]
        /\ posts' = (posts \ {p}) \cup
              (IF p.again > 0 /\ p.key # None
               THEN {[p EXCEPT !.again = @ - 1, !.step = "index"]} ELSE {})
        /\ UNCHANGED <<backend, blobs, uploads, index, reader>>

\* A post that never arrives, or that a bad statement or a latched pool drops.
LosePost ==
    /\ \E p \in posts : posts' = posts \ {p}
    /\ UNCHANGED <<backend, blobs, uploads, index, runs, reader>>

-----------------------------------------------------------------------------
Indexed == {k \in Keys : index[k] # None}

\* Mutant: rows of one tick are listed in any order.
NewestFirst(j, k) == index[j].at >= index[k].at  \* mutant

Before(j, k) == index[j].at > index[k].at \/ (index[j].at = index[k].at /\ j > k)

\* What ORDER BY may return: the orders that respect Before.
Listings == {s \in SetToSeqs(Indexed) : \A i, j \in DOMAIN s : i < j => Before(s[i], s[j])}

\* One page of one row.  The window's total travels with the rows.
ReaderPages ==
    /\ reader.on
    /\ \E s \in Listings :
          IF reader.offset < Len(s)
          THEN reader' = [reader EXCEPT !.shown = @ \cup {s[reader.offset + 1]}, !.offset = @ + 1]
          ELSE reader' = [reader EXCEPT !.on = FALSE]
    /\ UNCHANGED <<backend, blobs, uploads, index, runs, posts>>

ReaderStarts ==
    /\ reader = Unread /\ Indexed # {}
    /\ reader' = [Unread EXCEPT !.owed = Indexed, !.on = TRUE]
    /\ UNCHANGED <<backend, blobs, uploads, index, runs, posts>>

StoreStep == SidecarPuts \/ SidecarDies \/ IndexTranscript \/ RecordRow \/ LosePost \/ ReaderStarts \/ ReaderPages

-----------------------------------------------------------------------------
\* fetch, which does not consult the index.
Fetch(k) == IF backend = "set" THEN blobs[k] ELSE None

\* A reference in review_runs names a row of review_transcripts, and that row
\* a blob whose figures, recomputed, are the row's: whatever was cut short,
\* lost, redelivered or declined on the way.
ReferencesHold ==
    \A k \in Keys :
        /\ runs[k] > 0 => index[k] # None
        /\ index[k] # None => Fetch(k) # None /\ index[k].figures = Figures(Fetch(k))

\* A caller that pages to the end has been shown every transcript that was
\* there when it started, though others were indexed meanwhile.
PagedReaderMissesNothing == ~reader.on => reader.owed \subseteq reader.shown

=============================================================================

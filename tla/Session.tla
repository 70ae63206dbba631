------------------------------- MODULE Session -------------------------------
(***************************************************************************)
(* A branch of a review with session transcripts: each leg runs the agent   *)
(* (Harness), closes and ships its transcript, and lifts the index row; the  *)
(* pool then fails over or records the run (TranscriptStore).  The runner    *)
(* may die anywhere.                                                       *)
(***************************************************************************)
EXTENDS Harness, TranscriptStore

CONSTANT Targets    \* where a transcript can go: "none", "store", "sidecar"

VARIABLES
    target,     \* upload_target
    sent        \* chunks of the upload handed to the transport

vars == <<harnessVars, storeVars, target, sent>>

TypeOK ==
    /\ HarnessTypeOK /\ StoreTypeOK
    /\ target \in Targets /\ sent \in Nat

Init ==
    /\ HarnessInit /\ StoreInit
    /\ target \in Targets /\ sent = 0
    /\ target = "none" => backend = "unset"
    /\ target = "store" => backend # "unset"

-----------------------------------------------------------------------------
Opens ==
    /\ \E on \in BOOLEAN : Open(on)
    /\ UNCHANGED <<storeVars, target, sent>>

Drives == HarnessStep /\ UNCHANGED <<storeVars, target, sent>>

Stays == UNCHANGED <<leg, proc, waits, pipe, left, held, ending, files>>

\* Transcript.close: the local file first; only a file that was opened ships.
Closes ==
    /\ main = "closing"
    /\ \/ /\ main' = IF capture.on /\ capture.accepted > 0 /\ target # "none" THEN "shipping" ELSE "ending"
          /\ capture' = [capture EXCEPT !.closed = TRUE]
       \/ /\ capture.on /\ main' = "ending"
          /\ capture' = [Inert EXCEPT !.closed = TRUE]
    /\ Stays /\ UNCHANGED <<storeVars, target, sent>>

Shipped(stored, failed) ==
    /\ main' = "ending" /\ sent' = 0
    /\ capture' = [capture EXCEPT !.stored = stored, !.failed = @ \/ failed]

\* ship, to the store this host is configured with.
ShipsDirectly ==
    /\ main = "shipping" /\ target = "store"
    /\ \/ /\ backend = "set"
          /\ blobs' = [blobs EXCEPT ![leg] = files[leg]]
          /\ Shipped(TRUE, FALSE) \/ Shipped(FALSE, TRUE)
       \/ Shipped(FALSE, TRUE) /\ UNCHANGED blobs
    /\ Stays /\ UNCHANGED <<backend, uploads, index, runs, posts, reader, target>>

\* ship, through the sidecar: connect, chunk after chunk, then the answer.
Connects ==
    /\ main = "shipping" /\ target = "sidecar"
    /\ Accepts(leg) /\ main' = "waiting"
    /\ Stays /\ UNCHANGED <<capture, backend, blobs, index, runs, posts, reader, target, sent>>

Sends ==
    /\ main = "waiting" /\ uploads[leg] # None /\ uploads[leg].reply = ""
    /\ \/ /\ sent < Len(files[leg])
          /\ Receives(leg, files[leg][sent + 1]) /\ sent' = sent + 1
       \/ /\ sent = Len(files[leg]) /\ ~uploads[leg].over
          /\ BodyEnds(leg) /\ UNCHANGED sent
    /\ Stays /\ UNCHANGED <<main, capture, backend, blobs, index, runs, posts, reader, target>>

\* Mutant: an answer that is not an error is taken for a stored blob.
OffStateIsStored(reply) == Shipped(reply # "refused", reply = "refused")  \* mutant

\* The marked off state is a silent success that stored nothing.
Answer(reply) == Shipped(reply = "stored", reply = "refused")

Hears ==
    /\ main = "waiting" /\ uploads[leg] # None /\ uploads[leg].reply # ""
    /\ Answer(uploads[leg].reply)
    /\ uploads' = [uploads EXCEPT ![leg] = None]
    /\ Stays /\ UNCHANGED <<backend, blobs, index, runs, posts, reader, target>>

\* No connection, the deadline between two chunks, no answer in time, or a
\* connection that broke; there is no second attempt.
GivesUp ==
    /\ \/ main = "shipping" /\ target = "sidecar" /\ UNCHANGED uploads
       \/ /\ main = "waiting"
          /\ IF uploads[leg] = None THEN UNCHANGED uploads ELSE Disconnects(leg)
    /\ Shipped(FALSE, TRUE)
    /\ Stays /\ UNCHANGED <<backend, blobs, index, runs, posts, reader, target>>

Accepted == SubSeq(files[leg], 1, capture.accepted)

\* Transcript.index answers only for bytes the sink affirms it stored.
Indexable ==
    /\ capture.on /\ ~capture.failed /\ capture.stored
    /\ capture.accepted > 0 /\ ~Broken(Accepted)

Key == IF Indexable THEN leg ELSE None
Fig == IF Indexable THEN Figures(Accepted) ELSE None

Leg == IF Indexable THEN {Post("leg", Key, Fig)} ELSE {}
Run == {Post("run", Key, Fig)}

\* _run_pool: a throttled leg is indexed as it is abandoned and the next one
\* opened; the leg that answers, or the last, is recorded as the run.
Throttled ==
    /\ main = "ending" /\ ending # "broken"
    /\ IF leg < Legs
       THEN /\ posts' = posts \cup Leg
            /\ leg' = leg + 1 /\ main' = "opening"
            /\ left' = Lengths[leg + 1]
       ELSE /\ posts' = posts \cup Leg \cup Run
            /\ main' = "done"
            /\ UNCHANGED <<leg, left>>
    /\ ending' = "open" /\ capture' = Unopened(FALSE)
    /\ UNCHANGED <<proc, waits, pipe, held, files, backend, blobs, uploads, index, runs, reader, target, sent>>

Answered ==
    /\ main = "ending" /\ ending # "killed"
    /\ posts' = posts \cup Run
    /\ main' = "done"
    /\ ending' = "open" /\ capture' = Unopened(FALSE)
    /\ UNCHANGED <<leg, left, proc, waits, pipe, held, files, backend, blobs, uploads, index, runs, reader, target, sent>>

\* The runner's job is killed; what it was sending is cut off.
RunnerDies ==
    /\ main \notin {"opening", "done", "dead"}
    /\ main' = "dead"
    /\ proc' = "none" /\ waits' = "no" /\ pipe' = Empty /\ left' = Lengths[leg]
    /\ held' = None /\ ending' = "open" /\ capture' = Unopened(FALSE) /\ sent' = 0
    /\ IF uploads[leg] = None THEN UNCHANGED uploads ELSE Disconnects(leg)
    /\ UNCHANGED <<leg, files, backend, blobs, index, runs, posts, reader, target>>

Serves == StoreStep /\ UNCHANGED <<harnessVars, target, sent>>

Ships == ShipsDirectly \/ Connects \/ Sends \/ Hears \/ GivesUp
Next == Opens \/ Drives \/ Closes \/ Ships \/ Throttled \/ Answered \/ RunnerDies \/ Serves

Spec == Init /\ [][Next]_vars

-----------------------------------------------------------------------------
\* The threads, a child that has not hung and the driver go on; the timer is
\* owed only to a child that hangs.
FairSpec ==
    /\ Spec
    /\ WF_vars(Opens) /\ WF_vars(Closes) /\ WF_vars(Ships) /\ WF_vars(Throttled \/ Answered)
    /\ WF_vars(Feeds /\ Drives) /\ WF_vars(Drains /\ Drives)
    /\ WF_vars((Tees \/ Folds \/ FeedOver) /\ Drives)
    /\ WF_vars((ChildStep \/ ChildExits) /\ Drives)
    /\ WF_vars(waits = "hung" /\ Kill /\ Drives)

\* No credential reaches a file or the store: not its value, and not the
\* beginning of it in the line a kill or a dying child cut short.
NoCredentialKept ==
    /\ \A k \in Keys : \A i \in DOMAIN files[k] : ~Reveals(files[k][i])
    /\ \A k \in Keys : blobs[k] # None => \A i \in DOMAIN blobs[k] : ~Reveals(blobs[k][i])

\* A blob is the runner's closed file, byte for byte, or it is not there: no
\* upload that was cut off, and no death of either side, leaves a part of it.
BlobIsTheWholeFile == \A k \in Keys : blobs[k] # None => blobs[k] = files[k]

\* Every session comes to its end, and no child that goes on by itself needs
\* the timer for that: the three pipes cannot block it and the driver on each
\* other.
SessionEnds == <>(main \in {"done", "dead"})

=============================================================================

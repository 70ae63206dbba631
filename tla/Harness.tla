------------------------------- MODULE Harness -------------------------------
(***************************************************************************)
(* One agent run, from harness.py's _drive: the child process, its three    *)
(* bounded pipes, the two threads beside the main one, the timer that kills  *)
(* the child, and the tee that hands each line to the transcript before the  *)
(* fold sees it.  A branch of the review runs the legs of its failover chain *)
(* one after the other.                                                    *)
(***************************************************************************)
EXTENDS Transcript

CONSTANTS
    Feed,       \* the lines a child may write, which are whole: a cut is a kill's
    Lengths,    \* Lengths[leg]: how many lines, warnings and prompt chunks
    PipeCap     \* what a pipe holds

ASSUME HarnessAssumption ==
    /\ Legs \in Nat \ {0} /\ PipeCap \in Nat \ {0}
    /\ Feed \subseteq [event : Events, cred : {"none", "value"}, whole : {TRUE}]
    /\ Lengths \in [Keys -> [lines : Nat, warnings : Nat, prompt : Nat]]

VARIABLES
    leg,
    main,       \* where the driver's thread is
    proc,       \* the child
    waits,      \* the pipe the child is blocked on, "no", or "hung"
    pipe,       \* in: chunks, out: lines, err: chunks
    left,       \* what the child has still to write, the feeder to feed
    held,       \* the line between the tee and the fold
    ending,     \* "open", or "killed" by the timer, or "broken" by an exception
    capture,    \* on, accepted lines, failed, closed, stored
    files       \* the runner's own copy of each transcript

pipes == <<proc, waits, pipe, left>>
harnessVars == <<leg, main, proc, waits, pipe, left, held, ending, capture, files>>

Running == {"reading", "folding"}
Empty == [in |-> 0, out |-> <<>>, err |-> 0]
Unopened(on) == [on |-> on, accepted |-> 0, failed |-> FALSE, closed |-> FALSE, stored |-> FALSE]

Contents == [in : 0..PipeCap, out : Seq(Lines), err : 0..PipeCap]
Amounts == [lines : Nat, warnings : Nat, prompt : Nat]
Captures == [on : BOOLEAN, accepted : Nat, failed : BOOLEAN, closed : BOOLEAN, stored : BOOLEAN]

HarnessTypeOK ==
    /\ leg \in Keys
    /\ main \in {"opening", "reading", "folding", "closing", "shipping", "waiting",
                 "ending", "done", "dead"}
    /\ proc \in {"none", "alive", "exited", "killed"}
    /\ waits \in {"no", "in", "out", "err", "hung"}
    /\ pipe \in Contents /\ Len(pipe.out) <= PipeCap
    /\ left \in Amounts
    /\ held \in Lines \cup {None}
    /\ ending \in {"open", "killed", "broken"}
    /\ capture \in Captures
    /\ files \in [Keys -> Seq(Lines)]

HarnessInit ==
    /\ leg = 1 /\ main = "opening"
    /\ proc = "none" /\ waits = "no" /\ pipe = Empty /\ left = Lengths[1]
    /\ held = None /\ ending = "open"
    /\ capture = Unopened(FALSE)
    /\ files = [k \in Keys |-> <<>>]

-----------------------------------------------------------------------------
\* open_transcript, which may find capture off or unusable, and Popen.
Open(on) ==
    /\ main = "opening"
    /\ main' = "reading" /\ proc' = "alive"
    /\ capture' = Unopened(on)
    /\ UNCHANGED <<leg, waits, pipe, left, held, ending, files>>

\* The stdin thread writes the prompt; a child that died breaks the pipe.
Feeds ==
    /\ left.prompt > 0 /\ main \in Running
    /\ \/ /\ proc = "alive" /\ pipe.in < PipeCap
          /\ pipe' = [pipe EXCEPT !.in = @ + 1]
          /\ left' = [left EXCEPT !.prompt = @ - 1]
       \/ /\ proc # "alive"
          /\ left' = [left EXCEPT !.prompt = 0]
          /\ UNCHANGED pipe
    /\ UNCHANGED <<leg, main, proc, waits, held, ending, capture, files>>

\* Mutant: stderr is read when the fold is over.
DrainsLast ==
    /\ pipe.err > 0 /\ main = "closing"  \* mutant
    /\ pipe' = [pipe EXCEPT !.err = @ - 1]
    /\ UNCHANGED <<leg, main, proc, waits, left, held, ending, capture, files>>

\* The stderr thread.
Drains ==
    /\ pipe.err > 0 /\ main \in Running
    /\ pipe' = [pipe EXCEPT !.err = @ - 1]
    /\ UNCHANGED <<leg, main, proc, waits, left, held, ending, capture, files>>

-----------------------------------------------------------------------------
\* The child reads its prompt, prints events and warns, in any order.  An
\* operation its pipe cannot take blocks it until the pipe can.
Able(w) ==
    CASE w = "in" -> pipe.in > 0 \/ left.prompt = 0
      [] w = "out" -> Len(pipe.out) < PipeCap
      [] w = "err" -> pipe.err < PipeCap

Wants(w) ==
    CASE w = "in" -> pipe.in > 0 \/ left.prompt > 0
      [] w = "out" -> left.lines > 0
      [] w = "err" -> left.warnings > 0

Does(w) == proc = "alive" /\ waits \in {"no", w} /\ Able(w) /\ waits' = "no"

ChildReads ==
    /\ Does("in")
    /\ pipe.in > 0 \/ waits = "in"
    /\ pipe' = [pipe EXCEPT !.in = IF @ > 0 THEN @ - 1 ELSE 0]
    /\ UNCHANGED left

ChildSays ==
    /\ Does("out") /\ left.lines > 0
    /\ \E l \in Feed : pipe' = [pipe EXCEPT !.out = Append(@, l)]
    /\ left' = [left EXCEPT !.lines = @ - 1]

ChildWarns ==
    /\ Does("err") /\ left.warnings > 0
    /\ pipe' = [pipe EXCEPT !.err = @ + 1]
    /\ left' = [left EXCEPT !.warnings = @ - 1]

ChildBlocks ==
    /\ proc = "alive" /\ waits = "no"
    /\ \E w \in {"in", "out", "err"} : Wants(w) /\ ~Able(w) /\ waits' = w
    /\ UNCHANGED <<pipe, left>>

ChildHangs ==
    /\ proc = "alive" /\ waits = "no"
    /\ waits' = "hung"
    /\ UNCHANGED <<pipe, left>>

ChildStep ==
    /\ main \in Running
    /\ ChildReads \/ ChildSays \/ ChildWarns \/ ChildBlocks \/ ChildHangs
    /\ UNCHANGED <<leg, main, proc, held, ending, capture, files>>

\* The last thing a dying child leaves in the pipe: nothing, an event without
\* its newline, or a piece of one.
LastWords ==
    {<<>>} \cup
    (IF left.lines > 0 /\ Len(pipe.out) < PipeCap
     THEN {<<Unterminated(l)>> : l \in Feed} \cup {<<l>> : l \in UNION {CutOf(m) : m \in Feed}}
     ELSE {})

Dies(how) ==
    /\ main \in Running /\ proc = "alive"
    /\ proc' = how /\ waits' = "no"
    /\ \E words \in LastWords :
          /\ pipe' = [pipe EXCEPT !.out = @ \o words]
          /\ left' = [left EXCEPT !.lines = @ - Len(words)]
    /\ UNCHANGED <<leg, main, held, capture, files>>

ChildExits == waits = "no" /\ Dies("exited") /\ UNCHANGED ending

\* The timer, which is cancelled when the fold is over: it kills the child, or
\* fires while the last lines of one that exited are still being read.
Kill ==
    /\ ending' = "killed"
    /\ \/ Dies("killed")
       \/ /\ main \in Running /\ proc # "alive" /\ ending = "open"
          /\ UNCHANGED <<leg, main, proc, waits, pipe, left, held, capture, files>>

-----------------------------------------------------------------------------
\* Transcript.write: the first failure of the sink makes the capture inert,
\* and may leave a piece of the line in the file.
Inert == [capture EXCEPT !.failed = TRUE]
Offer(l) ==
    \/ /\ ~capture.on \/ capture.failed
       /\ UNCHANGED <<capture, files>>
    \/ /\ capture.on /\ ~capture.failed
       /\ files' = [files EXCEPT ![leg] = Append(@, Scrubbed(l))]
       /\ capture' = [capture EXCEPT !.accepted = @ + 1]
    \/ /\ capture.on /\ ~capture.failed
       /\ capture' = Inert
       /\ \E piece \in {<<>>, <<Line("noise", "none")>>} :
             files' = [files EXCEPT ![leg] = @ \o piece]

\* The tee: one line off the pipe and into the transcript.
Tees ==
    /\ main = "reading" /\ pipe.out # <<>>
    /\ Offer(Head(pipe.out))
    /\ held' = Head(pipe.out) /\ pipe' = [pipe EXCEPT !.out = Tail(@)]
    /\ main' = "folding"
    /\ UNCHANGED <<leg, proc, waits, left, ending>>

\* The fold: _consume_stream.
Folds ==
    /\ main = "folding"
    /\ held' = None /\ main' = "reading"
    /\ UNCHANGED <<leg, proc, waits, pipe, left, ending, capture, files>>

\* The finally clause, on the way to closing the transcript.
Finally(how) ==
    /\ main' = "closing" /\ ending' = how
    /\ proc' = "none" /\ waits' = "no" /\ pipe' = Empty /\ left' = Lengths[leg]
    /\ held' = None
    /\ UNCHANGED <<leg, capture, files>>

\* The pipe is at its end and the child has been waited for.
FeedOver == main = "reading" /\ pipe.out = <<>> /\ proc # "alive" /\ Finally(ending)

\* Reading the pipe, or a progress line, raised; nobody waits for the child.
PipeFails == main \in Running /\ Finally("broken")

HarnessStep == Feeds \/ Drains \/ ChildStep \/ ChildExits \/ Kill \/ Tees \/ Folds \/ FeedOver \/ PipeFails

=============================================================================

----------------------------- MODULE Transcript -----------------------------
(***************************************************************************)
(* The lines of an agent's event feed, what scrubbing leaves of them, and   *)
(* the figures a stored feed is indexed by.                                *)
(*                                                                         *)
(* A line is what the rest tells apart: the event it carries, what it shows *)
(* of a credential, and whether it came with its newline.                  *)
(***************************************************************************)
EXTENDS Naturals, Sequences, FiniteSets

CONSTANTS
    Legs,       \* the failover chain of a branch is 1..Legs
    None

Keys == 1..Legs     \* each leg mints a key of its own

\* "read" is a call of the Read tool on the one file there is, "results" the
\* tool's answer, "result" the terminal event, "odd" legal JSON that metering
\* raises on, "noise" what is not JSON.
Events == {"read", "results", "result", "odd", "noise"}

\* What shows of a credential: all of it, the beginning of it at a cut, the
\* beginning followed by the remains of a split character, or fewer
\* characters than MIN_FRAGMENT.
Shown == {"none", "value", "fragment", "torn", "scrap", "marker"}

Lines == [event : Events, cred : Shown, whole : BOOLEAN]

Line(e, c) == [event |-> e, cred |-> c, whole |-> TRUE]

\* A write that was cut: the event is lost, the credential it was in the
\* middle of is cut anywhere.
CutOf(l) ==
    [event : {"noise"}, whole : {FALSE},
     cred : IF l.cred = "value" THEN {"none", "value", "fragment", "torn", "scrap"} ELSE {"none"}]

\* A final event written without its newline.
Unterminated(l) == [l EXCEPT !.whole = FALSE]

-----------------------------------------------------------------------------
Scrub(l) == IF l.cred = "value" THEN [l EXCEPT !.cred = "marker"] ELSE l

\* Mutant: the cut line is scrubbed like any other.
ScrubExactly(l) == Scrub(l)  \* mutant

ScrubPartial(l) ==
    IF Scrub(l).cred \in {"fragment", "torn"} THEN [l EXCEPT !.cred = "marker"] ELSE Scrub(l)

\* What the sink is handed, which it stores with a newline.
Scrubbed(l) == [(IF l.whole THEN Scrub(l) ELSE ScrubPartial(l)) EXCEPT !.whole = TRUE]

Reveals(l) == l.cred \in {"value", "fragment", "torn"}

-----------------------------------------------------------------------------
Count(lines, e) == Cardinality({i \in DOMAIN lines : lines[i].event = e})

Figured ==
    [tool_calls : Nat, tool_result_bytes : Nat, repeated_read_files : {0, 1}, complete : BOOLEAN]

\* _Meter over the lines the sink accepted.
Figures(lines) ==
    [tool_calls |-> Count(lines, "read"),
     tool_result_bytes |-> Count(lines, "results"),
     repeated_read_files |-> IF Count(lines, "read") > 1 THEN 1 ELSE 0,
     complete |-> Count(lines, "result") > 0]

Broken(lines) == Count(lines, "odd") > 0

=============================================================================

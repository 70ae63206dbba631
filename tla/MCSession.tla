------------------------------ MODULE MCSession ------------------------------
(***************************************************************************)
(* Instances of Session for TLC.                                           *)
(***************************************************************************)
EXTENDS Session

MCFeed == {Line("read", "value"), Line("odd", "none"), Line("result", "none")}

\* The first leg fills every pipe; the second says one thing.
MCLengths ==
    [k \in Keys |-> IF k = 1 THEN [lines |-> 2, warnings |-> 2, prompt |-> 2]
                    ELSE [lines |-> 1, warnings |-> 0, prompt |-> 0]]

=============================================================================

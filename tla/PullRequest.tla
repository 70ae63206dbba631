----------------------------- MODULE PullRequest -----------------------------
(***************************************************************************)
(* The head of a pull request, which its author moves.                      *)
(***************************************************************************)
EXTENDS Naturals

CONSTANT Heads      \* bound: the heads of the pull request are 1..Heads

VARIABLE head

PullInit == head = 1
Pushed == head < Heads /\ head' = head + 1

=============================================================================

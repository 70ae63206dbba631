---------------------------- MODULE MCReviewPost ----------------------------
(***************************************************************************)
(* Instances of ReviewPost for TLC.                                        *)
(***************************************************************************)
EXTENDS ReviewPost

\* Two branches of an A/B run: with models of their own, on a head where an
\* earlier run used one of them or none, or both with the same model.
TwoBranches == {"dorian", "gray"}

MCLabellings ==
    {[of |-> [b \in TwoBranches |-> b], before |-> e] : e \in {{}, {"gray"}}} \cup
    {[of |-> [b \in TwoBranches |-> "same"], before |-> {"gray"}]}
=============================================================================

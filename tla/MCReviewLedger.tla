--------------------------- MODULE MCReviewLedger ---------------------------
(***************************************************************************)
(* Instances of ReviewLedger for TLC.                                      *)
(***************************************************************************)
EXTENDS ReviewLedger, TLC

CONSTANTS j1, j2, j3, f1, f2, c1, c2

\* One claim in each file.
MCFileOf == c1 :> f1 @@ c2 :> f2
MCFileOf1 == c1 :> f1

\* A round publishes at most two findings, possibly the same claim twice.
MCPublications == {<< >>} \cup {<<c>> : c \in Claims} \cup {<<c, d>> : c, d \in Claims}

\* A round reports at most one region, retraceable or hollow.
OnePublication == {<< >>} \cup {<<c>> : c \in Claims}
NoExaminations == {<< >>}
OneExamination == {<<[file |-> f, hollow |-> FALSE]>> : f \in Files}
MCExaminations == {<< >>} \cup {<<[file |-> f, hollow |-> h]>> : f \in Files, h \in BOOLEAN}

\* A deleted file is in no diff, so a head touches only files it carries.
MCHeads == {h \in [gone : SUBSET Files, touched : SUBSET Files] : h.gone \cap h.touched = {}}
OneFileChanges == {h \in MCHeads : h.gone \cup h.touched \subseteq {f1}}
QuietHeads == {[gone |-> g, touched |-> {}] : g \in {{}, {f1}}}
TouchyHeads == {[gone |-> {}, touched |-> d] : d \in {{}, {f1}}}
SameTree == {[gone |-> {}, touched |-> {}]}

FindingsOnly == {[findings |-> TRUE, coverage |-> FALSE]}
BothTiers == {[findings |-> TRUE, coverage |-> TRUE]}
CoverageOnly == {[findings |-> FALSE, coverage |-> TRUE]}
AnyMode == [findings : BOOLEAN, coverage : BOOLEAN]

JobSymmetry == Permutations(Jobs)
=============================================================================

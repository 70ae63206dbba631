------------------------------ MODULE MCStatus -------------------------------
(***************************************************************************)
(* Instances of Status for TLC.                                            *)
(***************************************************************************)
EXTENDS Status

OwnLabels == [s \in Seats |-> s]

\* Two instances of one model, as when two drivers are compared.
OneLabel == [s \in Seats |-> "a"]

OneKind == {{"fuko"}, {"coderabbit"}, {"copilot"}}
OnlySeats == {{"fuko"}}

=============================================================================

----------------------------- MODULE MCDenyRules -----------------------------
(***************************************************************************)
(* Instances of DenyRules for TLC.                                         *)
(***************************************************************************)
EXTENDS DenyRules

Plain(d) == [dir |-> d, quirk |-> "none", via |-> "itself"]
Of(d) == {v \in Values : v.dir \in {d, "/"}} \cup {Unset}

\* An entry of the declared list holds no newline: the list is split on them.
Entries(d) == {v \in Of(d) : Spelt(v) # "newline"}

\* The root of the blobs, expanded alike by the two processes, or not.
Alike(S) == {[p \in Processes |-> v] : v \in S}
PerHome == [Processes -> {Plain("blobs"), Plain("other"), Unset}]

\* Where transcripts go, and what holds credentials: each pair in every
\* combination, with the other pair as a runner usually has it.
MCSites ==
    [home : {Plain("home")}, config : {Unset}, ambient : {Unset}, declared : {Unset},
     capture : Of("corpus"), blobs : Alike(Of("blobs")) \cup PerHome] \cup
    [home : Of("home"), config : Of("conf"), ambient : {Unset, Plain("home")},
     declared : {Plain("oauth")}, capture : {Plain("corpus")}, blobs : Alike({Unset})] \cup
    [home : {Plain("home")}, config : {Plain("conf")}, ambient : Of("conf"),
     declared : Entries("oauth"), capture : {Unset}, blobs : Alike({Plain("blobs")})]
==============================================================================

---------------------------- MODULE MCReviewRun -----------------------------
(***************************************************************************)
(* Instances of ReviewRun for TLC.                                         *)
(***************************************************************************)
EXTENDS ReviewRun

CONSTANTS NoEnvironment, NoTokenSet, NoCap

E(label, provider, driver, env, role) ==
    [label |-> label, provider |-> provider, driver |-> driver, env |-> env,
     role |-> role, fits |-> TRUE, minutes |-> 10, ledger |-> TRUE]

Small(e) == [e EXCEPT !.fits = FALSE]
Stateless(e) == [e EXCEPT !.ledger = FALSE]

Fleet(models, tools, budget) ==
    [models |-> models, tools |-> tools, budget |-> budget]

\* The slots of the first two are the same in lower case.
MCEnvs == {"DORIAN", "Dorian", "GRAY", "SPARE", "UNSET"}
MCTokenOf ==
    [v \in MCEnvs |->
        CASE v = "DORIAN" -> "pat1" [] v = "Dorian" -> "app1"
          [] v = "GRAY" -> "pat2" [] v = "SPARE" -> "app2"
          [] OTHER -> NoTokenSet]
MCSlotOf ==
    [v \in MCEnvs |->
        CASE v \in {"DORIAN", "Dorian"} -> <<"dorian">> [] v = "GRAY" -> <<"gray">>
          [] v = "SPARE" -> <<"spare">> [] OTHER -> <<>>]

\* One user has two tokens; each App has minted one.
OwnAuthors ==
    [t \in {"pat1", "pat2", "app1", "app2"} |->
        IF t \in {"pat1", "pat2"} THEN "user" ELSE t]

\* One App has minted both of the installation tokens.
SharedApp == [OwnAuthors EXCEPT !["app1"] = "bot", !["app2"] = "bot"]

Active(l, p, d, v) == E(l, p, d, v, "active")
Trial(l, p, d, v) == E(l, p, d, v, "trial")
Backup(l, p, d, v) == E(l, p, d, v, "backup")

\* Identities of different accounts whose slots collide, a promotable backup
\* that shares a provider, and one too many for the budget.
Colliding ==
    Fleet(<<Active("a", "p1", "pr-agent", "DORIAN"),
            Stateless(Trial("b", "p2", "pr-agent", "Dorian")),
            Stateless(Backup("k", "p1", "pr-agent", "SPARE"))>>,
          {"review"}, 30)

\* Two tokens of one account, and no room for a third branch.
OneAccount ==
    Fleet(<<Active("a", "p1", "pr-agent", "DORIAN"),
            Active("b", "p2", "pr-agent", "GRAY"),
            Stateless(Small(Backup("k", "p2", "pr-agent", NoEnvironment))),
            Backup("m", "p2", "agentic", "UNSET")>>,
          {"describe", "review"}, 40)

\* One active, backups of both drivers.
Solo ==
    Fleet(<<Active("a", "p1", "pr-agent", NoEnvironment),
            Backup("k", "p2", "pr-agent", "GRAY"),
            Backup("m", "p2", "agentic", NoEnvironment),
            Small(Backup("n", "p2", "pr-agent", NoEnvironment))>>,
          {"review", "improve"}, 40)

\* One model named twice under two drivers, no identities and no room for more.
Twins ==
    Fleet(<<Active("a", "p1", "pr-agent", NoEnvironment),
            Active("a", "p1", "agentic", NoEnvironment),
            Backup("k", "p2", "agentic", "SPARE")>>,
          {"review"}, 20)

\* Nothing but describe, which a comparison drops.
DescribeOnly ==
    Fleet(<<Active("a", "p1", "pr-agent", "DORIAN"),
            Backup("k", "p2", "pr-agent", "SPARE")>>,
          {"describe"}, NoCap)

MCFleets == {Colliding, OneAccount, Solo, Twins, DescribeOnly}

\* Two branches whose tokens were minted separately by one App.
Minted ==
    Fleet(<<Active("a", "p1", "agentic", "Dorian"),
            Active("b", "p2", "agentic", "SPARE")>>,
          {"review"}, NoCap)
MintedFleet == {Minted}
=============================================================================

SPECIFICATION FairSpec
CONSTANTS
    NoEnvironment = NoEnvironment
    NoTokenSet = NoTokenSet
    NoCap = NoCap
    Labels = {"a", "b", "k", "m", "n"}
    Providers = {"p1", "p2"}
    MaxFaults = 1
    Drivers = {"agentic", "pr-agent"}
    Envs <- MCEnvs
    NoEnv <- NoEnvironment
    TokenOf <- MCTokenOf
    NoToken <- NoTokenSet
    SlotOf <- MCSlotOf
    AuthorOf <- OwnAuthors
    AppTokens = {"app1", "app2"}
    Fleets <- MCFleets
    NoBudget <- NoCap
CHECK_DEADLOCK FALSE
INVARIANTS ReceiptsTellTheTruth BranchesStayApart LastResortsLast ChainIsAccounted EscalationKeepsTheFleet
PROPERTIES AnswerIsFinal JobEnds

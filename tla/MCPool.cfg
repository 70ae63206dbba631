SPECIFICATION FairSpec
CONSTANTS
    b1 = b1  b2 = b2  k1 = k1  k2 = k2  None = None
    Threads = {b1, b2, k1, k2}
    BestEffort = {b1, b2}
    Models = {"bge", "qwen"}
    MaxConns = 1
    BEST_EFFORT_COOLDOWN_S = 1
    MaxClock = 2
    MaxCalls = 3
    MaxOutages = 1
    MaxRestarts = 1
    RollBack = FALSE
CHECK_DEADLOCK FALSE
INVARIANTS TypeOK UsersSeeTheSchema MarkerIsHonest SpaceIsProven
PROPERTIES NewerFailureStands BestEffortReturns

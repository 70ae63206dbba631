SPECIFICATION FairSpec
CONSTANTS
    Branches <- TwoBranches
    Labellings <- MCLabellings
    POST_ATTEMPTS = 2
CHECK_DEADLOCK FALSE
INVARIANTS TypeOK PostedOnce SignalsArePosted
PROPERTIES PostingEnds

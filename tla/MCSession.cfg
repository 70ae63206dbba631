SPECIFICATION FairSpec
CONSTANTS
    None = None
    Legs = 2
    Feed <- MCFeed
    Lengths <- MCLengths
    PipeCap = 1
    Redelivered = 1
    Targets = {"none", "store", "sidecar"}
INVARIANTS NoCredentialKept BlobIsTheWholeFile ReferencesHold PagedReaderMissesNothing
PROPERTY SessionEnds
CHECK_DEADLOCK FALSE

SPECIFICATION FairSpec
CONSTANTS
    a = a  b = b  m1 = m1  m2 = m2
    Absent = Absent  Unmarked = Unmarked  UNSET = UNSET
    Deployments = {"postgres", "s3", "file"}
    OldRows <- MCOldRows
    OldFiles <- MCOldFiles
    Callers = {a, b}
    Requests <- MCRequests
    MaxCalls = 1
    Model <- MCModel
    MAX_RETRIES = 2
    Scope <- MCScope
    Rank <- MCRank
    DIGEST_SOURCE = "digest"
    digest_retrieval = FALSE
    candidate_k = 1
    top_k = 2
CHECK_DEADLOCK FALSE
INVARIANTS VectorsOfTheirText DrainedIsStored
PROPERTIES ImplementsBase CallsEnd

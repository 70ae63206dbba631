SPECIFICATION Spec
CONSTANTS
    Dirs = {"home", "conf", "oauth", "corpus", "blobs", "other"}
    Sites <- MCSites
INVARIANTS CorpusIsDenied CoveredOrAnnounced
CHECK_DEADLOCK FALSE

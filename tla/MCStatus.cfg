SPECIFICATION Spec
CONSTANTS
    Seats = {"a"}
    LabelOf <- OwnLabels
    Backups = {"z"}
    Heads = 2
    MaxJobs = 2
    Installed <- OneKind
INVARIANTS CoverageIsReal ThrottledIsNotDone FinishedReadsDone
CHECK_DEADLOCK FALSE

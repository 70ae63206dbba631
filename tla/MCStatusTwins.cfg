SPECIFICATION Spec
CONSTANTS
    Seats = {"a", "b"}
    LabelOf <- OneLabel
    Backups = {"z"}
    Heads = 1
    MaxJobs = 1
    Installed <- OnlySeats
INVARIANTS AmbiguousIsNotDone
CHECK_DEADLOCK FALSE

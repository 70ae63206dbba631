SPECIFICATION Spec
CONSTANTS
    j1 = j1  j2 = j2  j3 = j3
    f1 = f1  f2 = f2  c1 = c1  c2 = c2
    Jobs = {j1, j2, j3}
    Seats = {"dorian"}
    Files = {f1, f2}
    Claims = {c1}
    FileOf <- MCFileOf1
    Heads <- OneFileChanges
    Modes <- AnyMode
    Publications <- MCPublications
    Examinations <- MCExaminations
    MAX_OPEN_FINDINGS = 4
    MAX_SETTLED_FINDINGS = 4
    MAX_LIVE_COVERAGE = 4
    MAX_PRIOR_COVERAGE = 1
    LocalStore = FALSE
    Overlap = FALSE
    Lapses = TRUE
    MaxFaults = 0
SYMMETRY JobSymmetry
CHECK_DEADLOCK FALSE
INVARIANTS TypeOK OneOpenRowPerClaim RoundLabelsDistinct NoStaleAssurance

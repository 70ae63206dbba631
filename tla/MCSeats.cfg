SPECIFICATION Spec
CONSTANTS
    j1 = j1  j2 = j2  j3 = j3
    f1 = f1  f2 = f2  c1 = c1  c2 = c2
    Jobs = {j1, j2}
    Seats = {"dorian", "gray"}
    Files = {f1}
    Claims = {c1}
    FileOf <- MCFileOf1
    Heads <- TouchyHeads
    Modes <- BothTiers
    Publications <- OnePublication
    Examinations <- OneExamination
    MAX_OPEN_FINDINGS = 4
    MAX_SETTLED_FINDINGS = 4
    MAX_LIVE_COVERAGE = 4
    MAX_PRIOR_COVERAGE = 4
    LocalStore = FALSE
    Overlap = FALSE
    Lapses = FALSE
    MaxFaults = 0
SYMMETRY JobSymmetry
CHECK_DEADLOCK FALSE
PROPERTIES LaneIsolation

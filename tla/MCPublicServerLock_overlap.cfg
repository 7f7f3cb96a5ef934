\* Two processes acquire at the same time.
CONSTANTS
    w1 = w1
    w2 = w2
    f1 = f1
    f2 = f2
    f3 = f3
    Wizards <- MCTwoWizards
    Files <- MCThreeFiles
    NoFile = NoFile
    NoPid = NoPid
    Overlap = TRUE
    Faults = FALSE
SPECIFICATION LockSpec
INVARIANTS MutualExclusion

CHECK_DEADLOCK FALSE

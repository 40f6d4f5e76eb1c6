SPECIFICATION FairSpec
CONSTANTS
    t1 = t1
    t2 = t2
    NoTap = NoTap
    Taps <- OneTap
    RevisionMax = 2
    MaxDrafts = 2
    MaxCrashes = 0
CHECK_DEADLOCK FALSE
PROPERTIES RevisionIsRedrafted

SPECIFICATION FairSpec
CONSTANTS
    p1 = p1
    p2 = p2
    t1 = t1
    t2 = t2
    boot = boot
    flywheel = flywheel
    NoOne = NoOne
    Ids <- TwoProposals
    Taps <- TwoTaps
    Startup = boot
    Clis <- NoCommand
    MaxPuts = 2
    MaxCrashes = 1
INVARIANTS TypeOK NothingDestroyed DoubleTapGuard
PROPERTIES AtomicQueue StrandedLeasesClear
CHECK_DEADLOCK FALSE

SPECIFICATION FairSpec
CONSTANTS
    t1 = t1
    t2 = t2
    NoTap = NoTap
    Taps <- TwoTaps
    RevisionMax = 2
    MaxDrafts = 1
    MaxCrashes = 1
CHECK_DEADLOCK FALSE
INVARIANTS TypeOK AppliedIsDelivered SettledIsArchived LeaseHasOwner OnePublish
PROPERTIES PendingGetsCard

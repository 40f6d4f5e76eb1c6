\* The gateway alone: a sealed change and a plain write of one file, the
\* sealed one proposed twice, and one crash.
CONSTANTS
    dock = dock
    old = old
    note = note
    t1 = t1
    c1 = c1
    c2 = c2
    Portal = Portal
    Original = Original
    Foreign = Foreign
    NoAnchor = NoAnchor
    Nothing = Nothing
    Proposals = {dock, note}
    Anchored = {dock, note}
    Governed = {dock}
    Legacy = {}
    Clis = {}
    Threads = {t1}
    Edits = {}
    MaxPuts <- GatewayPuts
    MaxCrashes = 1
SPECIFICATION FairSpec
INVARIANTS OncePerPutOrCrash
PROPERTIES ClaimsSettle OrphansReaped
\* Every bound used up and nothing in progress: the pipeline is at rest.
CHECK_DEADLOCK FALSE

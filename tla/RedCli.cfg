\* The gateway and two command lines on the same database: one governed effect,
\* stored before sealing existed and proposed up to twice after that.
CONSTANTS
    dock = dock
    old = old
    note = note
    t1 = t1
    c1 = c1
    c2 = c2
    Portal = Portal
    Original = Original
    Foreign = Foreign
    NoAnchor = NoAnchor
    Nothing = Nothing
    Proposals = {old}
    Anchored = {old}
    Governed = {old}
    Legacy = {old}
    Clis = {c1, c2}
    Threads = {t1}
    Edits = {Foreign}
    MaxPuts <- CliPuts
    MaxCrashes = 1
SYMMETRY CliSymmetry
SPECIFICATION Spec
INVARIANTS TypeOK ClaimHeld OncePerPut
PROPERTIES NoLostUpdate
\* Every bound used up and nothing in progress: the pipeline is at rest.
CHECK_DEADLOCK FALSE

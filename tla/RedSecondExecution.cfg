\* The portal and one command line; one effect proposed once, no crash.
CONSTANTS
    dock = dock
    old = old
    note = note
    t1 = t1
    c1 = c1
    c2 = c2
    Portal = Portal
    Original = Original
    Foreign = Foreign
    NoAnchor = NoAnchor
    Nothing = Nothing
    Proposals = {dock}
    Anchored = {dock}
    Governed = {dock}
    Legacy = {}
    Clis = {c1}
    Threads = {t1}
    Edits = {}
    MaxPuts <- OncePuts
    MaxCrashes = 0
SPECIFICATION Spec
INVARIANTS SingleExecution
CHECK_DEADLOCK FALSE

SPECIFICATION Spec
CONSTANTS
    m1 = m1  m2 = m2  m3 = m3  m4 = m4  stop = stop
    Messages <- FourMessages
    Commands <- OneCommand
    Nobody   = Nobody
    Sentinel = Sentinel
    MaxTurns = 4
SYMMETRY FourAlike
INVARIANTS OneRun
CHECK_DEADLOCK FALSE

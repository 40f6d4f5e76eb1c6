SPECIFICATION Spec
CONSTANTS
    m1 = m1  m2 = m2  m3 = m3  m4 = m4  stop = stop
    Messages <- ThreeMessages
    Commands <- OneCommand
    Nobody   = Nobody
    Sentinel = Sentinel
    MaxTurns = 3
SYMMETRY Alike
INVARIANTS TypeOK OneTurn SlotFree NotTrapped Served
CHECK_DEADLOCK FALSE

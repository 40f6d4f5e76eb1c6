SPECIFICATION Spec
CONSTANTS
    pattern = pattern
    rule = rule
    Asks = {a1, a2}
    Keys <- TwoKeys
    Tirith <- OneRule
    MaxTurns = 2
    MaxClears = 1
CHECK_DEADLOCK FALSE
INVARIANTS TypeOK QueueIsExact AlwaysIsSaved

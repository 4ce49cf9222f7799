CONSTANTS
    m1 = m1
    m2 = m2
    Trigger = {t1, t2, t3}
    NULL = NULL
    Mask = {m1, m2}
    Command = {c1, c2}
    World <- MCWorld
    MaxCalls = 2
SPECIFICATION Spec
SYMMETRY Blocks
INVARIANTS
    DueTriggersRun
    OneTriggerPerMask
CHECK_DEADLOCK FALSE

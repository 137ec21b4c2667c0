SPECIFICATION FairSpec
CONSTANTS
    p1 = p1
    p2 = p2
    r1 = r1
    k1 = k1
    Process <- TwoProcesses
    Request <- OneRequest
    Slot <- OneSlot
    Key <- OneKey
    MaxId = 3
    NoRow = NoRow
CHECK_DEADLOCK FALSE
INVARIANTS
    OutboxInv
PROPERTIES
    AtLeastOnce
    EveryWriteSettles

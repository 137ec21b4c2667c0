SPECIFICATION FairLockSpec
CONSTANTS
    Opener = {p1, p2, p3}
    None = None
CHECK_DEADLOCK FALSE
INVARIANTS
    LockTypeOK
    AloneUnlessMisread
PROPERTIES
    NeverWedged

SPECIFICATION Spec
CONSTANTS
    p1 = p1
    p2 = p2
    u1 = u1
    u2 = u2
    Programs = {p1, p2}
    Unmounts = {u1, u2}
    HANDLER_DELAY = 3
    UNMOUNT_DELAY = 5
    MaxLag = 1
    Faults = {"startup", "memory", "critical"}
INVARIANTS
    NoMisuse
    AllReleased
    UnloadedAfterReturn
PROPERTIES
    UnmountEnds
CHECK_DEADLOCK FALSE

SPECIFICATION FairSpec
CONSTANTS
    c1 = c1
    Clients = {c1}
    MaxFiles = 3
    WriteLens = {3}
    MaxFileSize = 3
    MaxBuffers = 1
    TFTP_MAX_DATA_SIZE = 2
    BLK_MODULUS = 3
    Env = {"queue", "unmount", "find_output", "send", "recv"}
INVARIANTS
    NoUndefined
    OneSender
    TimeoutOwner
    StopsCleanly
PROPERTIES
    ImplementsQueue
    TimeoutHitsSender
    TransfersEnd
    PacketsReturned
CHECK_DEADLOCK FALSE

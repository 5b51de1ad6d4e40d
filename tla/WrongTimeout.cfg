SPECIFICATION Spec
CONSTANTS
    c1 = c1
    Clients = {c1}
    MaxFiles = 2
    WriteLens = {1}
    MaxFileSize = 1
    MaxBuffers = 3
    TFTP_MAX_DATA_SIZE = 2
    BLK_MODULUS = 3
    Env = {"impatient"}
PROPERTIES
    TimeoutHitsSender
CHECK_DEADLOCK FALSE

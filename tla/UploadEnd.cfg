SPECIFICATION UploadSpec
CONSTANTS
    c1 = c1
    Clients = {c1}
    MaxFiles = 2
    WriteLens = {1, 2}
    MaxFileSize = 2
    MaxBuffers = 3
    TFTP_MAX_DATA_SIZE = 2
    BLK_MODULUS = 8
    Env = {}
    Line = {}
INVARIANTS
    FinishedComplete
CHECK_DEADLOCK FALSE

SPECIFICATION UploadSpec
CONSTANTS
    c1 = c1
    c2 = c2
    Clients = {c1, c2}
    MaxFiles = 2
    WriteLens = {1, 4}
    MaxFileSize = 5
    MaxBuffers = 3
    TFTP_MAX_DATA_SIZE = 2
    BLK_MODULUS = 8
    Env = {"other"}
    Line = {"lose"}
INVARIANTS
    FinishedStored
    ServerInStep
PROPERTIES
    Delivered
CHECK_DEADLOCK FALSE

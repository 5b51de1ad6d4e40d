SPECIFICATION Spec
CONSTANTS
    c1 = c1
    Clients = {c1}
    MaxFiles = 2
    WriteLens = {0, 3}
    MaxFileSize = 3
    MaxBuffers = 2
    TFTP_MAX_DATA_SIZE = 2
    BLK_MODULUS = 3
    Env = {"impatient", "write", "extract", "serial"}
INVARIANTS
    TypeOK
    MessagesOnce
    TimerGuardsIO
    BufferPresent
    FinishedAllAcked
    DataInOrder
    NoBlockNumberReused
CHECK_DEADLOCK FALSE

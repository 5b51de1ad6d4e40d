SPECIFICATION Spec
CONSTANTS
    Sizes = {0, 1, 2, 3, 4, 5, 6, 7}
    TFTP_MAX_DATA_SIZE = 2
    BLK_MODULUS = 5
    Faults = {"open", "socket", "getaddrinfo", "sendto", "read", "recvfrom", "lose", "duplicate"}
INVARIANTS
    SuccessIsReal
    AllReleased
PROPERTIES
    Completes
CHECK_DEADLOCK FALSE

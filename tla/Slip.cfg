SPECIFICATION Spec
CONSTANTS
    MAX_BUFFER_SIZE = 8
    UDP_HDR_LEN = 1
    IP_HDR_LEN = 1
    MaxPayload = 3
INVARIANTS
    WritesInBounds
    FrameDelimited
    PrefixIntact
    BuffersReleased
CHECK_DEADLOCK FALSE

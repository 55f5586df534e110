\* An agent whose process has ended takes no more steps.
SPECIFICATION FairSpec
CONSTANTS
    Sock = {1, 2}
    Flaky = {2}
    Requests <- Wrapped
    Capacity = 3
    Half = 1
    Reserve = 1
    MSG_HDRLEN = 2
    PatchLen = 3
    SockBuf = 3
    RECVBUF_LEN = 4
    MaxReq = 1
    MaxPull <- Pulls
    MaxTell <- Tells
    SEQNUM_MAX = 99
INVARIANTS
    TypeOK
    StaysConnected
    PriorityFits
PROPERTIES
    OthersAreServed
    DeliverySpec
CHECK_DEADLOCK FALSE

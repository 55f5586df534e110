SPECIFICATION FairSpec
CONSTANTS
    Sock = {1}
    Flaky = {}
    Requests <- Packets3
    Capacity = 4
    Half = 1
    Reserve = 1
    MSG_HDRLEN = 2
    PatchLen = 3
    SockBuf = 4
    RECVBUF_LEN = 4
    MaxReq = 1
    MaxPull <- NoPull
    MaxTell <- OneTell
    SEQNUM_MAX = 99
PROPERTIES
    RestIsSent

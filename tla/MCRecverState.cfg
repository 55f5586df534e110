\* The recv thread of a lost report waits for ever, it does not deadlock:
\* a stop before the end violates Finishes.
SPECIFICATION FairSpec
CONSTANTS
    Payload = 2
    Sizes <- SizesAll
    Rounds = 2
    NicRing = 1
    Word = 64
    StoreDelay = FALSE
    SEQNUM_MAX = 99
INVARIANTS
    TypeOK
    EveryLossRequested
    CountsAreExact
    FileReadOrder
    CompletionIsTrue
    PatchesAreReady
PROPERTIES
    FastPathStaysClosed
    Finishes
CHECK_DEADLOCK FALSE

SPECIFICATION Spec
CONSTANTS
    Payload = 2
    Sizes <- SizesFour
    Rounds = 2
    NicRing = 1
    Word = 64
    StoreDelay = FALSE
    SEQNUM_MAX = 99
INVARIANTS
    AllDoneOnce

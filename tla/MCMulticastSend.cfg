\* An agent that waits for ever violates TransferEnds, whatever it waits for.
SPECIFICATION FairSpec
CONSTANTS
    Recver = {r1, r2}
    Mortal = {r1}
    Sizes <- SizesSmall
    Burst = 2
    MaxPos = 4
    FirstFullrate = TRUE
    SEQNUM_MAX = 99
INVARIANTS
    TypeOK
    WholeRound
    NobodyCutShort
    AllSentIsTrue
PROPERTIES
    TransferEnds
CHECK_DEADLOCK FALSE

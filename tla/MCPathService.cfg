SPECIFICATION FairSpec
CONSTANTS
    Bcd = {b1, b2, b3}
    None = None
    Fanout = 2
    MaxPush = 2
    MaxPushes = 3
    FirstFullrate = TRUE
    CallsFail = TRUE
INVARIANTS
    TypeOK
    OneLive
    ReleaseAssert
PROPERTIES
    EndsWhenServed
    EveryPushServed
    LeaseSpec

SPECIFICATION FairSpec
CONSTANTS
    Sizes <- SizesSmall
    Payload = 2
    HostPkt = {h1}
    num_slots = 3
    host_slots = 2
    nm_burst = 2
    MaxToGo = 2
    Word = 4
PROPERTIES
    MulticastEnds

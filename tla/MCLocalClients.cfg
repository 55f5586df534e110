SPECIFICATION FairSpec
CONSTANTS
    a1 = a1
    m1 = m1
    e1 = e1
    e2 = e2
    e3 = e3
    a2 = a2
    None = None
    App = {a1}
    Uds = {m1, e1, e2, e3}
    Master = {m1}
    AppOf <- OneApp
    Orderly = TRUE
INVARIANTS
    TypeOK
    FileKept
    LastDeleteRemoves
    OnlyOverdueEnds
PROPERTIES
    EveryReadAnswered
CHECK_DEADLOCK FALSE

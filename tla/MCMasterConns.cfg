SPECIFICATION FairSpec
CONSTANTS
    a1 = a1
    a2 = a2
    m1 = m1
    m2 = m2
    Master = {m1, m2}
    Mortal = {m1}
    App = {a1, a2}
    MasterOf <- TwoMasters
    Null = Null
    MaxInt = 2
    MaxNode = 5
INVARIANTS
    TypeOK
    Survives
    AppsConnected
PROPERTIES
    TableSpec
    AllSent

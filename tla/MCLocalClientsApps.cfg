SPECIFICATION Spec
CONSTANTS
    a1 = a1
    m1 = m1
    e1 = e1
    e2 = e2
    e3 = e3
    a2 = a2
    None = None
    App = {a1, a2}
    Uds = {e1, e2, e3}
    Master = {}
    AppOf <- TwoApps
    Orderly = TRUE
INVARIANTS
    OwnApp

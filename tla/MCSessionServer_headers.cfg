CONSTANTS
    c1 = c1
    c2 = c2
    h1 = h1
    h2 = h2
    h3 = h3
    Clients = {c1}
    HMsgs = {h1, h2}
    HThreads = {t1}
    AMsgs = {a1}
    AThreads = {u1, u2}
    ClientOf <- OneClient
    HEarly = 0
    HLate = 0
    HTtl = 1
    AEarly = 2
    ALate = 1
    ATtl = 3
    MaxStall = 0
    HLead <- NoLead
    ALead <- ALittle
    MaxLag = 0
    Cost = 2
    Full = 4
    SessionTtl = 3
    Horizon = 4
    MaxRestarts = 1
SYMMETRY HeaderSymmetry
SPECIFICATION Spec
INVARIANTS
    ServedOnce
PROPERTIES
    SupersededNeverServed
CHECK_DEADLOCK FALSE

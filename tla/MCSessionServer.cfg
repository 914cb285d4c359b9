CONSTANTS
    c1 = c1
    c2 = c2
    h1 = h1
    h2 = h2
    h3 = h3
    Clients = {c1, c2}
    HMsgs = {h1, h2, h3}
    HThreads = {t1, t2}
    AMsgs = {}
    AThreads = {}
    ClientOf <- TwoClients
    HEarly = 0
    HLate = 1
    HTtl = 2
    AEarly = 1
    ALate = 1
    ATtl = 2
    MaxStall = 0
    HLead <- NoLead
    ALead <- ALittle
    MaxLag = 0
    Cost = 2
    Full = 3
    SessionTtl = 1
    Horizon = 1
    MaxRestarts = 0
SYMMETRY ThreadSymmetry
SPECIFICATION Spec
INVARIANTS
    SingleSessionUnlessOverlap
    NewestUsable
    CreationsJustified
CHECK_DEADLOCK FALSE

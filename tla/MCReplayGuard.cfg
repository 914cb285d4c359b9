CONSTANTS
    m1 = m1
    m2 = m2
    Msgs = {m1, m2}
    Threads = {t1, t2}
    Early = 3
    Late = 3
    Ttl = 6
    MaxStall = 1
    Lead <- MCLead
    MaxLag = 1
    Horizon = 9
SYMMETRY Symmetry
SPECIFICATION Spec
INVARIANTS
    PassedOnce

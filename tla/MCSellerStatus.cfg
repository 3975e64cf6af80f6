SPECIFICATION StatusSpec
CONSTANTS
    Threads = {t1, t2}
    Reqs = {r1, r2, r3}
    Users = {u1, u2}
    Total = 2
    NoThread = NoThread
    NoBuy = NoBuy
    ReplayCount = 1
    MaxResets = 1
    Pollers = {p1}
    MaxPolls = 2
SYMMETRY Symmetry
INVARIANTS StatusNeverMissesASale

SPECIFICATION Spec
CONSTANTS
    Threads = {t1, t2}
    Reqs = {r1, r2}
    Users = {u1}
    Total = 2
    NoBuy = NoBuy
    ReplayCount = 3
    MaxResets = 1
SYMMETRY Symmetry
INVARIANTS OversellBounded DuplicatesOverlap LateRetrySafe ReplayNamesAGrant

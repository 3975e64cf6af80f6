SPECIFICATION FairSpec
CONSTANTS
    t1 = t1
    t2 = t2
    t3 = t3
    p1 = p1
    p2 = p2
    Tasks <- ThreeTasks
    Pools = {p1, p2}
    PoolOf <- TwoPools
    PoolSize = 1
    Reqs = {r1, r2}
    Users = {u1}
    Total = 1
    NoTask = NoTask
    NoOp = NoOp
    ResetOp = ResetOp
    StatusOp = StatusOp
    Copies = 2
    MaxResets = 1
    MaxPolls = 1
    MaxFaults = 1
INVARIANTS TypeOK LedgerMatchesCount UniqueViolationUnreachable OutcomesOnRecord StatusNeverMissesASale
PROPERTIES ImplementsService EveryCallEnds

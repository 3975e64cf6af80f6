SPECIFICATION FairSpec
CONSTANTS
    Threads = {t1, t2}
    Reqs = {r1, r2, r3}
    Users = {u1, u2}
    Total = 2
    NoThread = NoThread
    NoBuy = NoBuy
    ReplayCount = 2
    MaxResets = 1
INVARIANTS TypeOK NoOverselling BookkeepingConsistent IdempotentAnswers
PROPERTIES ImplementsService EveryBuyAnswered

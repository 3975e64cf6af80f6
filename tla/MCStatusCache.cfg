SPECIFICATION FairSpec
CONSTANTS
    Pollers = {p1, p2}
    NoEntry = NoEntry
    MaxWrites = 2
    MaxFaults = 1
INVARIANTS TypeOK StaleOnlyIfMissed
PROPERTY StatusSettles

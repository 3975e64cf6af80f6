SPECIFICATION Spec
CONSTANTS
    Pollers = {p1, p2}
    NoEntry = NoEntry
    MaxWrites = 1
    MaxFaults = 0
SYMMETRY Symmetry
INVARIANT FreshUnlessFault

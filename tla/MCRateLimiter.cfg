SPECIFICATION Spec
CONSTANTS
    p1 = p1
    p2 = p2
    c1 = c1
    c2 = c2
    c3 = c3
    Procs = {p1, p2}
    Calls = {c1, c2, c3}
    ProcOf <- TwoProcesses
    Skew <- OneAhead
    Cost = 2
    Limits <- WideAndNarrow
    Cooldown = 1
    MaxTime = 3
    MaxCalls = 5
    MaxFaults = 1
SYMMETRY Symmetry
INVARIANTS TypeOK AdmissionBound NoTokenWasted LocalBound LeakyBucketIdle

SPECIFICATION Spec
CONSTANTS
    h1 = h1
    h2 = h2
    p1 = p1
    p2 = p2
    r1 = r1
    r2 = r2
    Procs = {p1}
    Handlers = {h1, h2}
    ProcOf <- OneProcess
    Reqs = {r1, r2}
    Total = 1
    NoRequest = NoRequest
    BatchSize = 2
    Sends <- OneRetry
    MaxFaults = 0
    MaxCrashes = 0
    MaxResets = 1
INVARIANT AnswersTruthful

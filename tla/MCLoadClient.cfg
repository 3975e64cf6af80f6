SPECIFICATION ClientSpec
CONSTANTS
    Callers = {c1, c2}
    r1 = r1
    r2 = r2
    r3 = r3
    Reqs = {r1, r2, r3}
    Users = {u1}
    NoBuy = NoBuy
    Total = 2
    Faulty = TRUE
    Slots = {s1, s2}
    MaxRetries = 1
    ReplayCount = 2
    Plans <- TwoPlans
    NoJob = NoJob
    NoCaller = NoCaller
    Getters = {check, poll}
    Checker = check
    NoStatus = NoStatus
CONSTRAINTS LeftoversOnce OneError
INVARIANTS GaplessLedger AnswersTruthful ClientTypeOK NoFalseAlarm AlarmIsTornRead NoTicketLost
PROPERTY LoadEnds

----------------------------- MODULE RateLimiter -----------------------------
(***************************************************************************)
(* The hybrid rate limiter (rate_limiter.py) with the circuit breaker of   *)
(* its process (circuit_breaker.py): a token bucket and a leaky bucket     *)
(* shared in Redis and updated by one Lua script, and a private copy of    *)
(* both in every process for the time Redis cannot be reached.             *)
(*                                                                         *)
(* Time is counted in ticks.  The script runs at once, but with the `now`  *)
(* its caller took before sending it, from a clock of its own: requests    *)
(* may overtake one another on the way, and clocks differ by Skew.  Tokens *)
(* are counted in parts, Cost of them to a request, so that a bucket may   *)
(* hold a fraction of a token.                                             *)
(***************************************************************************)
EXTENDS Integers

CONSTANTS
    Procs,      \* application processes
    Calls,      \* concurrent executions of allow()
    ProcOf,     \* the process of each call
    Skew,       \* how far time.time() of each process is ahead
    Cost,       \* parts in a token
    Limits,     \* the settings to consider, see Setting
    Cooldown,   \* cooldown_seconds of the circuit breaker
    MaxTime,    \* bound on the ticks
    MaxCalls,   \* bound on the calls
    MaxFaults   \* bound on failing scripts and lost keys

Setting == [token_capacity : Nat, token_refill_rate : Nat,
            leaky_capacity : Nat, leaky_leak_rate : Nat]

ASSUME ProcsAssumption == ProcOf \in [Calls -> Procs] /\ Skew \in [Procs -> Nat]
ASSUME LimitsAssumption == Limits \subseteq Setting /\ Cost \in Nat \ {0}
ASSUME BoundsAssumption ==
    Cooldown \in Nat /\ MaxTime \in Nat /\ MaxCalls \in Nat /\ MaxFaults \in Nat

VARIABLES
    limits,     \* the setting in force
    clock,      \* time
    tb,         \* ratelimit:tb: tokens and ts; live when the key exists
    lb,         \* ratelimit:lb: level and ts
    call,       \* each call: its stage, its `now`, the reason it was given
    local,      \* each process's _local_tokens, _local_level, _local_ts
    open_until, \* each process's circuit breaker
    granted,    \* (a ghost) requests the script admitted
    admitted,   \* (a ghost) requests each process admitted on its own
    rewound,    \* (a ghost) by how much ts went back, in each bucket
    bounds      \* calls and faults still to come, and keys lost so far

vars == <<limits, clock, tb, lb, call, local, open_until, granted, admitted, rewound, bounds>>
redis == <<tb, lb, granted, rewound>>
private == <<local, admitted>>

Larger(a, b) == IF a > b THEN a ELSE b
Smaller(a, b) == IF a < b THEN a ELSE b

Idle == [stage |-> "idle", now |-> 0, reason |-> "none"]

Init ==
    /\ limits \in Limits
    /\ clock = 0
    /\ tb = [tokens |-> limits.token_capacity, ts |-> 0, live |-> FALSE]
    /\ lb = [level |-> 0, ts |-> 0, live |-> FALSE]
    /\ call = [c \in Calls |-> Idle]
    /\ local = [p \in Procs |->
                    [tokens |-> limits.token_capacity, level |-> 0, ts |-> 0]]
    /\ open_until = [p \in Procs |-> 0]
    /\ granted = 0
    /\ admitted = [p \in Procs |-> 0]
    /\ rewound = [tb |-> 0, lb |-> 0]
    /\ bounds = [calls |-> MaxCalls, faults |-> MaxFaults, lost |-> 0]

Tick ==
    /\ clock < MaxTime
    /\ clock' = clock + 1
    /\ UNCHANGED <<limits, call, open_until, bounds, redis, private>>

SpendFault == bounds.faults > 0 /\ bounds' = [bounds EXCEPT !.faults = @ - 1]

-----------------------------------------------------------------------------
(* HYBRID_LIMITER_LUA                                                      *)

TokensAt(now) ==
    IF tb.live
    THEN Smaller(limits.token_capacity,
                 tb.tokens + Larger(0, now - tb.ts) * limits.token_refill_rate)
    ELSE limits.token_capacity

\* A bug: nothing leaks.
LevelAsStored(now) == IF lb.live THEN lb.level ELSE 0

LevelAt(now) ==
    IF lb.live
    THEN Larger(0, lb.level - Larger(0, now - lb.ts) * limits.leaky_leak_rate)
    ELSE 0

\* A bug: the tokens are stored without their time.
KeepTokensOnly(now, tokens) ==
    /\ tb' = [tb EXCEPT !.tokens = tokens, !.live = TRUE]
    /\ UNCHANGED rewound

KeepTokens(now, tokens) ==
    /\ tb' = [tokens |-> tokens, ts |-> now, live |-> TRUE]
    /\ rewound' = [rewound EXCEPT !.tb = @ + Larger(0, tb.ts - now)]

KeepBoth(now, tokens, level) ==
    /\ tb' = [tokens |-> tokens, ts |-> now, live |-> TRUE]
    /\ lb' = [level |-> level, ts |-> now, live |-> TRUE]
    /\ rewound' = [tb |-> rewound.tb + Larger(0, tb.ts - now),
                   lb |-> rewound.lb + Larger(0, lb.ts - now)]

NoToken(now) ==
    /\ TokensAt(now) < Cost
    /\ KeepTokens(now, TokensAt(now))
    /\ UNCHANGED <<lb, granted>>

\* A bug: the token is taken before the leaky bucket is looked at.
FullTakesToken(now) ==
    /\ TokensAt(now) >= Cost
    /\ LevelAt(now) >= limits.leaky_capacity
    /\ KeepBoth(now, TokensAt(now) - Cost, LevelAt(now))
    /\ UNCHANGED granted

Full(now) ==
    /\ TokensAt(now) >= Cost
    /\ LevelAt(now) >= limits.leaky_capacity
    /\ KeepBoth(now, TokensAt(now), LevelAt(now))
    /\ UNCHANGED granted

\* A bug: > instead of >= in the test of the leaky bucket.
GrantOneMore(now) ==
    /\ TokensAt(now) >= Cost
    /\ LevelAt(now) <= limits.leaky_capacity
    /\ KeepBoth(now, TokensAt(now) - Cost, LevelAt(now) + Cost)
    /\ granted' = granted + 1

Grant(now) ==
    /\ TokensAt(now) >= Cost
    /\ LevelAt(now) < limits.leaky_capacity
    /\ KeepBoth(now, TokensAt(now) - Cost, LevelAt(now) + Cost)
    /\ granted' = granted + 1

-----------------------------------------------------------------------------
(* allow                                                                   *)

\* A bug: time passes for the tokens and not for the timestamp.
LocalStale(p) ==
    LET elapsed == clock - local[p].ts
        tokens == Smaller(limits.token_capacity,
                          local[p].tokens + elapsed * limits.token_refill_rate)
    IN  /\ tokens >= Cost
        /\ local' = [local EXCEPT ![p].tokens = tokens - Cost, ![p].level = @ + Cost]
        /\ admitted' = [admitted EXCEPT ![p] = @ + 1]

\* _allow_local_fallback, under its lock.  The one timestamp moves even when
\* there is no token, and the level has not leaked then.
LocalFallback(p) ==
    LET elapsed == clock - local[p].ts
        tokens == Smaller(limits.token_capacity,
                          local[p].tokens + elapsed * limits.token_refill_rate)
        level == Larger(0, local[p].level - elapsed * limits.leaky_leak_rate)
    IN  \/ /\ tokens < Cost
           /\ local' = [local EXCEPT ![p].tokens = tokens, ![p].ts = clock]
           /\ UNCHANGED admitted
        \/ /\ tokens >= Cost /\ level >= limits.leaky_capacity
           /\ local' = [local EXCEPT ![p] = [tokens |-> tokens, level |-> level, ts |-> clock]]
           /\ UNCHANGED admitted
        \/ /\ tokens >= Cost /\ level < limits.leaky_capacity
           /\ local' = [local EXCEPT ![p] =
                [tokens |-> tokens - Cost, level |-> level + Cost, ts |-> clock]]
           /\ admitted' = [admitted EXCEPT ![p] = @ + 1]

IsOpen(p) == clock < open_until[p]
RecordFailure(p) == open_until' = [open_until EXCEPT ![p] = clock + Cooldown]
RecordSuccess(p) == open_until' = [open_until EXCEPT ![p] = 0]

Begin(c) ==
    /\ call[c].stage = "idle"
    /\ bounds.calls > 0
    /\ bounds' = [bounds EXCEPT !.calls = @ - 1]

SkipRedis(c) ==
    /\ Begin(c)
    /\ IsOpen(ProcOf[c])
    /\ LocalFallback(ProcOf[c])
    /\ UNCHANGED <<limits, clock, call, open_until, redis>>

Stamp(c) ==
    /\ Begin(c)
    /\ ~IsOpen(ProcOf[c])
    /\ call' = [call EXCEPT ![c].stage = "sent", ![c].now = clock + Skew[ProcOf[c]]]
    /\ UNCHANGED <<limits, clock, open_until, redis, private>>

\* Redis runs the script.
Script(c) ==
    /\ call[c].stage = "sent"
    /\ \E reason \in {"token_bucket_exhausted", "leaky_bucket_full", "ok"} :
        /\ call' = [call EXCEPT ![c].stage = "reply", ![c].reason = reason]
        /\ \/ reason = "token_bucket_exhausted" /\ NoToken(call[c].now)
           \/ reason = "leaky_bucket_full" /\ Full(call[c].now)
           \/ reason = "ok" /\ Grant(call[c].now)
    /\ UNCHANGED <<limits, clock, open_until, bounds, private>>

Return(c) ==
    /\ call[c].stage = "reply"
    /\ call' = [call EXCEPT ![c] = Idle]
    /\ RecordSuccess(ProcOf[c])
    /\ UNCHANGED <<limits, clock, bounds, redis, private>>

\* The script did not run, or its reply was lost: Redis failed, or another call
\* of the process has just disconnected every connection in use.
RedisFails(c) ==
    /\ \/ SpendFault
       \/ IsOpen(ProcOf[c]) /\ UNCHANGED bounds
    /\ call[c].stage \in {"sent", "reply"}
    /\ call' = [call EXCEPT ![c] = [Idle EXCEPT !.stage = "fallback"]]
    /\ RecordFailure(ProcOf[c])
    /\ UNCHANGED <<limits, clock, redis, private>>

\* After `await record_failure`.
Fallback(c) ==
    /\ call[c].stage = "fallback"
    /\ LocalFallback(ProcOf[c])
    /\ call' = [call EXCEPT ![c] = Idle]
    /\ UNCHANGED <<limits, clock, open_until, bounds, redis>>

\* A key is gone: it expired, or Redis came back without it.
LoseKeys ==
    /\ bounds.faults > 0
    /\ bounds' = [bounds EXCEPT !.faults = @ - 1, !.lost = @ + 1]
    /\ \/ tb' = [tb EXCEPT !.live = FALSE] /\ UNCHANGED lb
       \/ lb' = [lb EXCEPT !.live = FALSE] /\ UNCHANGED tb
       \/ tb' = [tb EXCEPT !.live = FALSE] /\ lb' = [lb EXCEPT !.live = FALSE]
    /\ UNCHANGED <<limits, clock, call, open_until, granted, rewound, private>>

\* The bounds are used up.
Finished ==
    /\ clock = MaxTime /\ bounds.calls = 0
    /\ \A c \in Calls : call[c].stage = "idle"
    /\ UNCHANGED vars

Allow(c) ==
    SkipRedis(c) \/ Stamp(c) \/ Script(c) \/ Return(c) \/ RedisFails(c) \/ Fallback(c)

Next == Tick \/ (\E c \in Calls : Allow(c)) \/ LoseKeys \/ Finished

Spec == Init /\ [][Next]_vars

-----------------------------------------------------------------------------

MaxLevel == limits.leaky_capacity + Cost - 1

\* Every variable keeps its type: buckets stay within their capacities, in
\* Redis and in every process.
TypeOK ==
    /\ limits \in Limits
    /\ clock \in 0 .. MaxTime
    /\ tb \in [tokens : 0 .. limits.token_capacity, ts : Nat, live : BOOLEAN]
    /\ lb \in [level : 0 .. MaxLevel, ts : Nat, live : BOOLEAN]
    /\ call \in [Calls -> [stage : {"idle", "sent", "reply", "fallback"}, now : Nat,
        reason : {"none", "token_bucket_exhausted", "leaky_bucket_full", "ok"}]]
    /\ local \in [Procs -> [tokens : 0 .. limits.token_capacity,
                            level : 0 .. MaxLevel, ts : 0 .. clock]]
    /\ open_until \in [Procs -> Nat]
    /\ granted \in Nat
    /\ admitted \in [Procs -> Nat]
    /\ rewound \in [tb : Nat, lb : Nat]
    /\ bounds \in [calls : 0 .. MaxCalls, faults : 0 .. MaxFaults, lost : 0 .. MaxFaults]

\* The token bucket bounds what Redis admits: a burst, and the refill of the
\* time that passed on the stored timestamps.  Time they were set back is
\* refilled once more, and a lost key is a full bucket.
BurstBound ==
    Cost * granted + tb.tokens <=
        limits.token_capacity * (1 + bounds.lost)
        + limits.token_refill_rate * (tb.ts + rewound.tb)

\* So does the leaky bucket, with its capacity and the leak of that time.
PaceBound ==
    Cost * granted <=
        lb.level + MaxLevel * bounds.lost + limits.leaky_leak_rate * (lb.ts + rewound.lb)

\* Redis admits no more than either bucket allows, whatever the clocks of the
\* callers and the order of their requests.
AdmissionBound == BurstBound /\ PaceBound

\* "A request rejected by the leaky bucket doesn't waste a token": tokens leave
\* the shared bucket for admitted requests only.
NoTokenWasted == Cost * granted + tb.tokens >= limits.token_capacity

\* A process that is cut off from Redis admits no more on its own than either
\* bucket allows for the time it has been up, however often it changes between
\* Redis and its fallback: N processes admit at most N times the rate.
LocalBound ==
    \A p \in Procs :
        Cost * admitted[p] <= Smaller(
            limits.token_capacity + limits.token_refill_rate * clock,
            MaxLevel + limits.leaky_leak_rate * clock)

\* A leaky bucket that is at least as large and as fast as the token bucket, as
\* in main.py and in the defaults of the class, never rejects anything while
\* timestamps do not run backwards and no key is lost.
LeakyBucketIdle ==
    /\ limits.leaky_capacity >= limits.token_capacity
    /\ limits.leaky_leak_rate >= limits.token_refill_rate
    /\ rewound.tb = 0 /\ bounds.lost = 0
    => \A c \in Calls : call[c].reason # "leaky_bucket_full"

==============================================================================

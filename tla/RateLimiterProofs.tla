-------------------------- MODULE RateLimiterProofs --------------------------
(***************************************************************************)
(* Proofs about RateLimiter, for every set of processes and calls, every   *)
(* skew of their clocks and every setting of the two buckets: type         *)
(* correctness, the bounds on what Redis and a process on its own admit,   *)
(* and what the leaky bucket never does.                                   *)
(***************************************************************************)
EXTENDS RateLimiter, TLAPS

\* What a script that ran now, with no time passed, would find in the buckets.
Tokens == IF tb.live THEN tb.tokens ELSE limits.token_capacity
Level == IF lb.live THEN lb.level ELSE 0

FaultsBounded == bounds.faults + bounds.lost <= MaxFaults

\* BurstBound and PaceBound with the tokens and the level that the next script
\* finds: a lost key is a full token bucket and an empty leaky one.
Burst ==
    Cost * granted + Tokens <=
        limits.token_capacity + limits.token_capacity * bounds.lost
        + limits.token_refill_rate * (tb.ts + rewound.tb)
Pace ==
    Cost * granted <=
        Level + MaxLevel * bounds.lost + limits.leaky_leak_rate * (lb.ts + rewound.lb)

\* The same for each process on its own, up to the last time it looked.
LocalBurst ==
    \A p \in Procs :
        Cost * admitted[p] + local[p].tokens <=
            limits.token_capacity + limits.token_refill_rate * local[p].ts
LocalPace ==
    \A p \in Procs :
        Cost * admitted[p] <= local[p].level + limits.leaky_leak_rate * local[p].ts

\* The setting, and the history, in which the leaky bucket is idle.
Wide ==
    /\ limits.leaky_capacity >= limits.token_capacity
    /\ limits.leaky_leak_rate >= limits.token_refill_rate
    /\ rewound.tb = 0 /\ bounds.lost = 0

\* What has leaked in by now is what was taken from the token bucket and has not
\* been refilled: the level never exceeds the tokens that are missing.
Complement ==
    Wide =>
        /\ lb.ts <= tb.ts
        /\ ~tb.live => tb.tokens = limits.token_capacity /\ ~lb.live
        /\ lb.live => lb.level + tb.tokens <=
                        limits.token_capacity + limits.leaky_leak_rate * (tb.ts - lb.ts)

IInv ==
    /\ TypeOK /\ FaultsBounded
    /\ Burst /\ Pace /\ NoTokenWasted
    /\ LocalBurst /\ LocalPace
    /\ Complement /\ LeakyBucketIdle

-----------------------------------------------------------------------------
(* Arithmetic                                                              *)

LEMMA ProductType == \A a, b \in Nat : a * b \in Nat
  OBVIOUS

LEMMA ProductOfSum == \A a, b, c \in Int : a * (b + c) = a * b + a * c
  OBVIOUS

LEMMA ProductGrows == \A a, b, d \in Nat : a <= b => d * a <= d * b
  OBVIOUS

\* Refilling over d ticks.
LEMMA RefillBounds ==
  ASSUME NEW cap \in Nat, NEW tokens \in 0 .. cap, NEW d \in Nat, NEW rate \in Nat
  PROVE  /\ Smaller(cap, tokens + d * rate) \in 0 .. cap
         /\ tokens <= Smaller(cap, tokens + d * rate)
         /\ Smaller(cap, tokens + d * rate) <= tokens + rate * d
<1>1. d * rate \in Nat /\ rate * d = d * rate
  BY ProductType
<1> QED BY <1>1 DEF Smaller

\* Leaking over d ticks.
LEMMA LeakBounds ==
  ASSUME NEW level \in Nat, NEW d \in Nat, NEW rate \in Nat
  PROVE  /\ Larger(0, level - d * rate) \in Nat
         /\ Larger(0, level - d * rate) <= level
         /\ level <= Larger(0, level - d * rate) + rate * d
<1>1. d * rate \in Nat /\ rate * d = d * rate
  BY ProductType
<1> QED BY <1>1 DEF Larger

\* The time that passes between two timestamps, the way back counted apart.
LEMMA TimePassed ==
  ASSUME NEW ts \in Nat, NEW now \in Nat
  PROVE  /\ Larger(0, now - ts) \in Nat /\ Larger(0, ts - now) \in Nat
         /\ Larger(0, now - ts) = now + Larger(0, ts - now) - ts
  BY DEF Larger

-----------------------------------------------------------------------------
(* The two buckets of the script                                           *)

\* What TypeOK says of the numbers.
LEMMA Numbers ==
  ASSUME TypeOK
  PROVE  /\ limits.token_capacity \in Nat /\ limits.token_refill_rate \in Nat
         /\ limits.leaky_capacity \in Nat /\ limits.leaky_leak_rate \in Nat
         /\ Cost \in Nat /\ Cost > 0 /\ MaxLevel \in Nat
         /\ tb.tokens \in 0 .. limits.token_capacity /\ tb.ts \in Nat /\ tb.live \in BOOLEAN
         /\ lb.level \in 0 .. MaxLevel /\ lb.ts \in Nat /\ lb.live \in BOOLEAN
         /\ granted \in Nat /\ rewound.tb \in Nat /\ rewound.lb \in Nat
         /\ bounds.calls \in Nat /\ bounds.faults \in Nat /\ bounds.lost \in Nat
         /\ Tokens \in 0 .. limits.token_capacity /\ Level \in 0 .. MaxLevel
<1>1. limits \in Setting /\ Cost \in Nat \ {0}
  BY LimitsAssumption DEF TypeOK
<1>2. MaxLevel \in Nat
  BY <1>1 DEF Setting, MaxLevel
<1>3. bounds \in [calls : Nat, faults : Nat, lost : Nat]
  BY BoundsAssumption DEF TypeOK
<1> QED BY <1>1, <1>2, <1>3 DEF TypeOK, Setting, Tokens, Level

LEMMA TokensFound ==
  ASSUME TypeOK, NEW now \in Nat
  PROVE  /\ TokensAt(now) \in 0 .. limits.token_capacity
         /\ Tokens <= TokensAt(now)
         /\ TokensAt(now) <= Tokens + limits.token_refill_rate * Larger(0, now - tb.ts)
<1>1. Larger(0, now - tb.ts) \in Nat
  BY Numbers, TimePassed
<1>2. CASE tb.live
  <2>1. tb.tokens \in 0 .. limits.token_capacity
    BY Numbers
  <2> QED BY <1>1, <1>2, <2>1, Numbers, RefillBounds DEF TokensAt, Tokens
<1>3. CASE ~tb.live
  <2>1. limits.token_refill_rate * Larger(0, now - tb.ts) \in Nat
    BY <1>1, Numbers, ProductType
  <2> QED BY <1>3, <2>1, Numbers DEF TokensAt, Tokens
<1> QED BY <1>2, <1>3

LEMMA LevelFound ==
  ASSUME TypeOK, NEW now \in Nat
  PROVE  /\ LevelAt(now) \in Nat
         /\ LevelAt(now) <= Level
         /\ Level <= LevelAt(now) + limits.leaky_leak_rate * Larger(0, now - lb.ts)
<1>1. Larger(0, now - lb.ts) \in Nat
  BY Numbers, TimePassed
<1>2. CASE lb.live
  <2>1. lb.level \in Nat
    BY Numbers
  <2> QED BY <1>1, <1>2, <2>1, Numbers, LeakBounds DEF LevelAt, Level
<1>3. CASE ~lb.live
  <2>1. limits.leaky_leak_rate * Larger(0, now - lb.ts) \in Nat
    BY <1>1, Numbers, ProductType
  <2> QED BY <1>3, <2>1, Numbers DEF LevelAt, Level
<1> QED BY <1>2, <1>3

\* Storing the token bucket at `now`, with a token less for a request admitted.
LEMMA KeepTokensBound ==
  ASSUME IInv, NEW now \in Nat, NEW n \in {0, 1}, TokensAt(now) >= n * Cost,
         tb' = [tokens |-> TokensAt(now) - n * Cost, ts |-> now, live |-> TRUE],
         rewound'.tb = rewound.tb + Larger(0, tb.ts - now),
         granted' = granted + n, UNCHANGED limits, bounds'.lost = bounds.lost
  PROVE  Burst' /\ NoTokenWasted'
<1> DEFINE d == Larger(0, now - tb.ts)
           back == Larger(0, tb.ts - now)
           rate == limits.token_refill_rate
<1>1. TypeOK /\ Burst /\ NoTokenWasted
  BY DEF IInv
<1>2. d \in Nat /\ back \in Nat /\ d = now + back - tb.ts
  BY <1>1, Numbers, TimePassed
<1>3. Cost * granted' = Cost * granted + n * Cost /\ Cost * granted \in Nat /\ n * Cost \in Nat
  BY <1>1, Numbers, ProductOfSum, ProductType, SMTT(20)
<1>4. Tokens' = TokensAt(now) - n * Cost /\ tb'.tokens = Tokens' /\ tb'.ts = now
  BY DEF Tokens
<1>5. Cost * granted' + Tokens' = Cost * granted + TokensAt(now)
  BY <1>1, <1>3, <1>4, TokensFound
<1>6. rate * (now + (rewound.tb + back)) = rate * (tb.ts + rewound.tb) + rate * d
  <2>1. now + (rewound.tb + back) = (tb.ts + rewound.tb) + d
    BY <1>1, <1>2, Numbers
  <2> QED BY <1>1, <1>2, <2>1, Numbers, ProductOfSum
<1>7. Burst'
  <2>1. /\ Cost * granted + Tokens <=
             limits.token_capacity + limits.token_capacity * bounds.lost
             + rate * (tb.ts + rewound.tb)
        /\ TokensAt(now) <= Tokens + rate * d
    BY <1>1, TokensFound DEF Burst
  <2>2. /\ limits.token_capacity * bounds.lost \in Nat /\ rate * (tb.ts + rewound.tb) \in Nat
        /\ rate * d \in Nat
    <3>1. tb.ts + rewound.tb \in Nat /\ rate \in Nat /\ limits.token_capacity \in Nat
          /\ bounds.lost \in Nat
      BY <1>1, Numbers, SMTT(20)
    <3> HIDE DEF d, rate
    <3> QED BY <1>2, <3>1, ProductType
  <2>3. Cost * granted + TokensAt(now) <=
          limits.token_capacity + limits.token_capacity * bounds.lost
          + rate * (now + (rewound.tb + back))
    BY <1>1, <1>3, <1>6, <2>1, <2>2, Numbers, TokensFound
  <2> QED BY <1>4, <1>5, <2>3 DEF Burst
<1>8. NoTokenWasted'
  <2>1. Cost * granted + Tokens >= limits.token_capacity
    <3>1. Tokens = tb.tokens \/ Tokens = limits.token_capacity
      BY DEF Tokens
    <3>2. Cost * granted + tb.tokens >= limits.token_capacity
      BY <1>1 DEF NoTokenWasted
    <3>3. limits.token_capacity \in Nat
      BY <1>1, Numbers
    <3> QED BY <1>3, <3>1, <3>2, <3>3
  <2> QED BY <1>1, <1>3, <1>4, <1>5, <2>1, Numbers, TokensFound DEF NoTokenWasted
<1> QED BY <1>7, <1>8

\* Storing the leaky bucket at `now`, with a request more if it was admitted.
LEMMA KeepLevelBound ==
  ASSUME IInv, NEW now \in Nat, NEW n \in {0, 1},
         lb' = [level |-> LevelAt(now) + n * Cost, ts |-> now, live |-> TRUE],
         rewound'.lb = rewound.lb + Larger(0, lb.ts - now),
         granted' = granted + n, UNCHANGED limits, bounds'.lost = bounds.lost
  PROVE  Pace'
<1> DEFINE d == Larger(0, now - lb.ts)
           back == Larger(0, lb.ts - now)
           rate == limits.leaky_leak_rate
<1>1. TypeOK /\ Pace
  BY DEF IInv
<1>2. d \in Nat /\ back \in Nat /\ d = now + back - lb.ts
  BY <1>1, Numbers, TimePassed
<1>3. Cost * granted' = Cost * granted + n * Cost /\ Cost * granted \in Nat /\ n * Cost \in Nat
  BY <1>1, Numbers, ProductOfSum, ProductType, SMTT(20)
<1>4. Level' = LevelAt(now) + n * Cost /\ lb'.ts = now /\ MaxLevel' = MaxLevel
  BY DEF Level, MaxLevel
<1>5. rate * (now + (rewound.lb + back)) = rate * (lb.ts + rewound.lb) + rate * d
  <2>1. now + (rewound.lb + back) = (lb.ts + rewound.lb) + d
    BY <1>1, <1>2, Numbers
  <2> QED BY <1>1, <1>2, <2>1, Numbers, ProductOfSum
<1>6. /\ Cost * granted <= Level + MaxLevel * bounds.lost + rate * (lb.ts + rewound.lb)
      /\ Level <= LevelAt(now) + rate * d
  BY <1>1, LevelFound DEF Pace
<1>7. /\ MaxLevel * bounds.lost \in Nat /\ rate * (lb.ts + rewound.lb) \in Nat
      /\ rate * d \in Nat
  <2>1. MaxLevel \in Nat /\ bounds.lost \in Nat
    BY <1>1, Numbers
  <2>2. lb.ts \in Nat /\ rewound.lb \in Nat /\ rate \in Nat
    BY <1>1, Numbers
  <2> HIDE DEF d, rate
  <2> QED BY <1>2, <2>1, <2>2, ProductType
<1>8. Cost * granted + n * Cost <=
        LevelAt(now) + n * Cost + MaxLevel * bounds.lost + rate * (now + (rewound.lb + back))
  BY <1>1, <1>3, <1>5, <1>6, <1>7, Numbers, LevelFound
<1> QED BY <1>3, <1>4, <1>8 DEF Pace

-----------------------------------------------------------------------------
(* The script                                                              *)

\* The setting, and whether its leaky bucket can matter, are not forgotten.
LEMMA WideBefore ==
  ASSUME TypeOK, UNCHANGED limits, bounds'.lost = bounds.lost,
         NEW n \in Nat, rewound'.tb = rewound.tb + n, Wide'
  PROVE  Wide /\ n = 0
  BY Numbers DEF Wide

LEMMA LeakFasterThanRefill ==
  ASSUME TypeOK, Wide, NEW d \in Nat
  PROVE  limits.token_refill_rate * d <= limits.leaky_leak_rate * d
<1>1. limits.token_refill_rate \in Nat /\ limits.leaky_leak_rate \in Nat
      /\ limits.token_refill_rate <= limits.leaky_leak_rate
  BY Numbers DEF Wide
<1> QED BY <1>1, ProductGrows

\* While the leaky bucket is idle, the script finds no more in it than tokens
\* are missing.
LEMMA FoundComplement ==
  ASSUME IInv, Wide, NEW now \in Nat, now >= tb.ts
  PROVE  LevelAt(now) + TokensAt(now) <= limits.token_capacity
<1> DEFINE d == now - tb.ts
           gap == tb.ts - lb.ts
           leak == limits.leaky_leak_rate
<1>1. TypeOK /\ lb.ts <= tb.ts
  BY DEF IInv, Complement
<1>2. d \in Nat /\ gap \in Nat /\ now - lb.ts = gap + d /\ now - lb.ts \in Nat
  BY <1>1, Numbers
<1>3. CASE LevelAt(now) = 0
  BY <1>1, <1>3, Numbers, TokensFound
<1>4. CASE LevelAt(now) # 0
  <2>1. lb.live /\ LevelAt(now) = lb.level - Larger(0, now - lb.ts) * leak
    BY <1>4 DEF LevelAt, Larger
  <2>2. tb.live
    BY <2>1 DEF IInv, Complement
  <2>3. lb.level + tb.tokens <= limits.token_capacity + leak * gap
    BY <2>1 DEF IInv, Complement
  <2>4. Larger(0, now - lb.ts) = gap + d /\ Larger(0, now - tb.ts) = d
    BY <1>2 DEF Larger
  <2>5. TokensAt(now) <= tb.tokens + limits.token_refill_rate * d
    BY <1>1, <2>2, <2>4, TokensFound DEF Tokens
  <2>6. limits.token_refill_rate * d <= leak * d
    BY <1>1, <1>2, LeakFasterThanRefill
  <2>7. (gap + d) * leak = leak * gap + leak * d
    BY <1>1, <1>2, Numbers, ProductOfSum
  <2>8. leak * gap \in Nat /\ leak * d \in Nat /\ limits.token_refill_rate * d \in Nat
    <3>1. leak \in Nat /\ limits.token_refill_rate \in Nat
      BY <1>1, Numbers
    <3> HIDE DEF leak, gap, d
    <3> QED BY <1>2, <3>1, ProductType
  <2>9. LevelAt(now) = lb.level - leak * gap - leak * d
    BY <1>1, <2>1, <2>4, <2>7, <2>8, Numbers
  <2> HIDE DEF leak, gap, d
  <2> QED BY <1>1, <2>3, <2>5, <2>6, <2>8, <2>9, Numbers, TokensFound
<1> QED BY <1>3, <1>4

\* The parts of IInv that a step of the script leaves alone.
LEMMA ScriptFrame ==
  ASSUME IInv, UNCHANGED <<limits, clock, open_until, bounds, private>>
  PROVE  FaultsBounded' /\ LocalBurst' /\ LocalPace'
  BY DEF IInv, FaultsBounded, LocalBurst, LocalPace, private

\* Full and Grant, which differ in the request that is let in.
KeepsBoth(now, n) ==
    /\ TokensAt(now) >= Cost
    /\ n = 1 => LevelAt(now) < limits.leaky_capacity
    /\ KeepBoth(now, TokensAt(now) - n * Cost, LevelAt(now) + n * Cost)
    /\ granted' = granted + n

LEMMA KeepsBothStep ==
  ASSUME IInv, NEW now \in Nat, NEW n \in {0, 1}, KeepsBoth(now, n),
         UNCHANGED <<limits, bounds>>
  PROVE  /\ Burst' /\ Pace' /\ NoTokenWasted' /\ Complement'
         /\ tb' \in [tokens : 0 .. limits.token_capacity, ts : Nat, live : BOOLEAN]
         /\ lb' \in [level : 0 .. MaxLevel, ts : Nat, live : BOOLEAN]
         /\ granted' \in Nat /\ rewound' \in [tb : Nat, lb : Nat]
<1>1. TypeOK
  BY DEF IInv
<1>2. /\ tb' = [tokens |-> TokensAt(now) - n * Cost, ts |-> now, live |-> TRUE]
      /\ lb' = [level |-> LevelAt(now) + n * Cost, ts |-> now, live |-> TRUE]
      /\ rewound' = [tb |-> rewound.tb + Larger(0, tb.ts - now),
                     lb |-> rewound.lb + Larger(0, lb.ts - now)]
      /\ granted' = granted + n
  BY DEF KeepsBoth, KeepBoth
<1>3. n * Cost \in Nat /\ n * Cost <= TokensAt(now)
  BY <1>1, Numbers, TokensFound DEF KeepsBoth
<1>4. Larger(0, tb.ts - now) \in Nat /\ Larger(0, lb.ts - now) \in Nat
  BY <1>1, Numbers, TimePassed
<1>5. Burst' /\ NoTokenWasted'
  BY <1>2, <1>3, KeepTokensBound
<1>6. Pace'
  BY <1>2, KeepLevelBound
<1>7. Complement'
  <2> SUFFICES ASSUME Wide' PROVE lb'.level + tb'.tokens <= limits.token_capacity + 0
    <3>1. lb'.ts = now /\ tb'.ts = now /\ tb'.live
      BY <1>2
    <3>2. limits'.leaky_leak_rate * (tb'.ts - lb'.ts) = 0
      BY <1>1, <3>1, Numbers
    <3> QED BY <1>1, <3>1, <3>2, Numbers DEF Complement
  <2>1. Wide /\ Larger(0, tb.ts - now) = 0
    BY <1>1, <1>2, <1>4, WideBefore
  <2>2. now >= tb.ts
    BY <1>1, <2>1, Numbers DEF Larger
  <2>3. LevelAt(now) + TokensAt(now) <= limits.token_capacity
    BY <2>1, <2>2, FoundComplement
  <2> QED BY <1>1, <1>2, <1>3, <2>3, Numbers, TokensFound, LevelFound
<1>8. tb' \in [tokens : 0 .. limits.token_capacity, ts : Nat, live : BOOLEAN]
  BY <1>1, <1>2, <1>3, Numbers, TokensFound
<1>9. lb' \in [level : 0 .. MaxLevel, ts : Nat, live : BOOLEAN]
  <2>1. LevelAt(now) + n * Cost \in 0 .. MaxLevel
    BY <1>1, Numbers, LevelFound DEF MaxLevel, KeepsBoth
  <2> QED BY <1>2, <2>1
<1>10. granted' \in Nat /\ rewound' \in [tb : Nat, lb : Nat]
  <2>1. granted \in Nat /\ rewound.tb \in Nat /\ rewound.lb \in Nat
    BY <1>1, Numbers
  <2> QED BY <1>2, <1>4, <2>1
<1> QED BY <1>5, <1>6, <1>7, <1>8, <1>9, <1>10

\* The script found no token: the leaky bucket is not looked at.
LEMMA NoTokenStep ==
  ASSUME IInv, NEW now \in Nat, NoToken(now), UNCHANGED <<limits, bounds>>
  PROVE  /\ Burst' /\ Pace' /\ NoTokenWasted' /\ Complement'
         /\ tb' \in [tokens : 0 .. limits.token_capacity, ts : Nat, live : BOOLEAN]
         /\ lb' \in [level : 0 .. MaxLevel, ts : Nat, live : BOOLEAN]
         /\ granted' \in Nat /\ rewound' \in [tb : Nat, lb : Nat]
<1> DEFINE back == Larger(0, tb.ts - now)
           leak == limits.leaky_leak_rate
<1>1. TypeOK
  BY DEF IInv
<1>2. /\ tb' = [tokens |-> TokensAt(now), ts |-> now, live |-> TRUE]
      /\ rewound' = [rewound EXCEPT !.tb = @ + back]
      /\ lb' = lb /\ granted' = granted
  BY DEF NoToken, KeepTokens
<1>3. rewound'.tb = rewound.tb + back /\ rewound'.lb = rewound.lb
  BY <1>1, <1>2 DEF TypeOK
<1>4. back \in Nat
  BY <1>1, Numbers, TimePassed
<1>5. Burst' /\ NoTokenWasted'
  <2>1. 0 * Cost = 0 /\ TokensAt(now) - 0 = TokensAt(now) /\ granted + 0 = granted
        /\ TokensAt(now) >= 0
    BY <1>1, Numbers, TokensFound
  <2>2. /\ tb' = [tokens |-> TokensAt(now) - 0 * Cost, ts |-> now, live |-> TRUE]
        /\ granted' = granted + 0 /\ TokensAt(now) >= 0 * Cost
    BY <1>2, <2>1
  <2> QED BY <1>3, <2>2, KeepTokensBound
<1>6. Pace'
  BY <1>2, <1>3 DEF IInv, Pace, Level, MaxLevel
<1>7. Complement'
  <2> SUFFICES ASSUME Wide' PROVE Complement'
    BY DEF Complement
  <2>1. Wide /\ back = 0
    BY <1>1, <1>3, <1>4, WideBefore
  <2>2. now >= tb.ts /\ lb.ts <= tb.ts
    BY <1>1, <2>1, Numbers DEF Larger, IInv, Complement
  <2>3. ASSUME lb.live
        PROVE  lb.level + TokensAt(now) <= limits.token_capacity + leak * (now - lb.ts)
    <3> DEFINE d == now - tb.ts
               gap == tb.ts - lb.ts
    <3>1. tb.live /\ lb.level + tb.tokens <= limits.token_capacity + leak * gap
      BY <2>1, <2>3 DEF IInv, Complement
    <3>2. d \in Nat /\ gap \in Nat /\ now - lb.ts = gap + d /\ Larger(0, d) = d
      BY <1>1, <2>2, Numbers DEF Larger
    <3>3. TokensAt(now) <= tb.tokens + limits.token_refill_rate * d
      BY <1>1, <3>1, <3>2, TokensFound DEF Tokens
    <3>4. limits.token_refill_rate * d <= leak * d
      BY <1>1, <2>1, <3>2, LeakFasterThanRefill
    <3>5. leak \in Nat /\ limits.token_refill_rate \in Nat
      BY <1>1, Numbers
    <3> HIDE DEF leak, d, gap
    <3>6. leak * (gap + d) = leak * gap + leak * d
      BY <3>2, <3>5, ProductOfSum
    <3>7. leak * gap \in Nat /\ leak * d \in Nat /\ limits.token_refill_rate * d \in Nat
      BY <3>2, <3>5, ProductType
    <3> QED BY <1>1, <3>1, <3>2, <3>3, <3>4, <3>6, <3>7, Numbers, TokensFound
  <2>4. lb.ts <= now
    BY <1>1, <2>2, Numbers
  <2> QED BY <1>2, <2>3, <2>4 DEF Complement
<1>8. tb' \in [tokens : 0 .. limits.token_capacity, ts : Nat, live : BOOLEAN]
  BY <1>1, <1>2, TokensFound
<1>9. rewound' \in [tb : Nat, lb : Nat]
  <2>1. rewound.tb + back \in Nat /\ rewound \in [tb : Nat, lb : Nat]
    BY <1>1, <1>4, Numbers DEF TypeOK
  <2> QED BY <1>2, <2>1
<1>10. lb' \in [level : 0 .. MaxLevel, ts : Nat, live : BOOLEAN] /\ granted' \in Nat
  BY <1>1, <1>2 DEF TypeOK
<1> QED BY <1>5, <1>6, <1>7, <1>8, <1>9, <1>10

\* A bucket at least as large as the tokens it can be given is never full.
LEMMA FullNeverWide ==
  ASSUME IInv, NEW now \in Nat, Full(now), UNCHANGED <<limits, bounds>>
  PROVE  ~Wide'
<1> SUFFICES ASSUME Wide' PROVE FALSE
  OBVIOUS
<1>1. TypeOK
  BY DEF IInv
<1>2. rewound'.tb = rewound.tb + Larger(0, tb.ts - now)
  BY DEF Full, KeepBoth
<1>3. Larger(0, tb.ts - now) \in Nat
  BY <1>1, Numbers, TimePassed
<1>4. Wide /\ Larger(0, tb.ts - now) = 0
  BY <1>1, <1>2, <1>3, WideBefore
<1>5. now >= tb.ts
  BY <1>1, <1>4, Numbers DEF Larger
<1>6. LevelAt(now) + TokensAt(now) <= limits.token_capacity
  BY <1>4, <1>5, FoundComplement
<1>7. /\ TokensAt(now) >= Cost /\ LevelAt(now) >= limits.leaky_capacity
      /\ limits.leaky_capacity >= limits.token_capacity
  BY <1>4 DEF Full, Wide
<1> QED BY <1>1, <1>6, <1>7, Numbers, TokensFound, LevelFound

LEMMA ScriptStep == ASSUME IInv, NEW c \in Calls, Script(c) PROVE IInv'
<1> DEFINE now == call[c].now
<1>1. TypeOK /\ now \in Nat /\ UNCHANGED <<limits, clock, open_until, bounds, private>>
  BY DEF IInv, TypeOK, Script
<1>2. PICK reason \in {"token_bucket_exhausted", "leaky_bucket_full", "ok"} :
        /\ call' = [call EXCEPT ![c].stage = "reply", ![c].reason = reason]
        /\ \/ reason = "token_bucket_exhausted" /\ NoToken(now)
           \/ reason = "leaky_bucket_full" /\ Full(now)
           \/ reason = "ok" /\ Grant(now)
  BY DEF Script
<1> HIDE DEF now
<1>3. /\ Burst' /\ Pace' /\ NoTokenWasted' /\ Complement'
      /\ tb' \in [tokens : 0 .. limits.token_capacity, ts : Nat, live : BOOLEAN]
      /\ lb' \in [level : 0 .. MaxLevel, ts : Nat, live : BOOLEAN]
      /\ granted' \in Nat /\ rewound' \in [tb : Nat, lb : Nat]
  <2>1. CASE NoToken(now)
    BY <1>1, <2>1, NoTokenStep
  <2>2. CASE Full(now)
    <3>1. KeepsBoth(now, 0)
      BY <1>1, <2>2, Numbers, TokensFound, LevelFound DEF Full, KeepsBoth
    <3> QED BY <1>1, <3>1, KeepsBothStep
  <2>3. CASE Grant(now)
    <3>1. KeepsBoth(now, 1)
      BY <1>1, <2>3, Numbers DEF Grant, KeepsBoth
    <3> QED BY <1>1, <3>1, KeepsBothStep
  <2> QED BY <1>2, <2>1, <2>2, <2>3
<1>4. TypeOK'
  <2>1. MaxLevel' = MaxLevel
    BY <1>1 DEF MaxLevel
  <2>2. call' \in [Calls -> [stage : {"idle", "sent", "reply", "fallback"}, now : Nat,
          reason : {"none", "token_bucket_exhausted", "leaky_bucket_full", "ok"}]]
    <3> DEFINE asked == call[c]
               reply == [[asked EXCEPT !.stage = "reply"] EXCEPT !.reason = reason]
    <3>1. asked \in [stage : {"idle", "sent", "reply", "fallback"}, now : Nat,
            reason : {"none", "token_bucket_exhausted", "leaky_bucket_full", "ok"}]
      BY <1>1 DEF TypeOK
    <3>2. call' = [call EXCEPT ![c] = reply]
      BY <1>1, <1>2 DEF TypeOK
    <3> HIDE DEF asked
    <3>3. reply \in [stage : {"idle", "sent", "reply", "fallback"}, now : Nat,
            reason : {"none", "token_bucket_exhausted", "leaky_bucket_full", "ok"}]
      BY <3>1
    <3> HIDE DEF reply
    <3> QED BY <1>1, <3>2, <3>3 DEF TypeOK
  <2> QED BY <1>1, <1>3, <2>1, <2>2 DEF TypeOK, private
<1>5. LeakyBucketIdle'
  <2> SUFFICES ASSUME Wide', NEW b \in Calls PROVE call'[b].reason # "leaky_bucket_full"
    BY DEF LeakyBucketIdle, Wide
  <2>1. reason # "leaky_bucket_full"
    BY <1>1, <1>2, FullNeverWide
  <2>2. rewound'.tb \in Nat /\ rewound.tb \in Nat /\ rewound.tb <= rewound'.tb
    <3>1. Larger(0, tb.ts - now) \in Nat
      BY <1>1, Numbers, TimePassed
    <3>2. rewound'.tb = rewound.tb + Larger(0, tb.ts - now)
      BY <1>1, <1>2 DEF NoToken, Full, Grant, KeepTokens, KeepBoth, TypeOK
    <3> QED BY <1>1, <3>1, <3>2, Numbers
  <2>3. Wide
    BY <1>1, <2>2 DEF Wide
  <2>4. call[b].reason # "leaky_bucket_full"
    BY <2>3 DEF IInv, LeakyBucketIdle, Wide
  <2> QED BY <1>1, <1>2, <2>1, <2>4 DEF TypeOK
<1> QED BY <1>1, <1>3, <1>4, <1>5, ScriptFrame DEF IInv

-----------------------------------------------------------------------------
(* A process on its own                                                    *)

\* What LocalFallback computes from the time since it last looked.
LEMMA LocalFound ==
  ASSUME TypeOK, NEW p \in Procs
  PROVE  LET elapsed == clock - local[p].ts
             tokens == Smaller(limits.token_capacity,
                               local[p].tokens + elapsed * limits.token_refill_rate)
             level == Larger(0, local[p].level - elapsed * limits.leaky_leak_rate)
         IN  /\ elapsed \in Nat
             /\ tokens \in 0 .. limits.token_capacity
             /\ tokens <= local[p].tokens + limits.token_refill_rate * elapsed
             /\ level \in 0 .. local[p].level
             /\ local[p].level <= level + limits.leaky_leak_rate * elapsed
<1>1. local[p].ts \in 0 .. clock /\ clock \in Nat
      /\ local[p].tokens \in 0 .. limits.token_capacity /\ local[p].level \in 0 .. MaxLevel
  BY BoundsAssumption DEF TypeOK
<1>2. clock - local[p].ts \in Nat
  BY <1>1
<1>3. local[p].level \in Nat /\ limits.leaky_leak_rate \in Nat
  BY <1>1, Numbers
<1>4. limits.token_capacity \in Nat /\ limits.token_refill_rate \in Nat
  BY Numbers
<1> DEFINE elapsed == clock - local[p].ts
<1>5. elapsed \in Nat
  BY <1>2
<1> HIDE DEF elapsed
<1>6. LET level == Larger(0, local[p].level - elapsed * limits.leaky_leak_rate)
      IN  /\ level \in 0 .. local[p].level
          /\ local[p].level <= level + limits.leaky_leak_rate * elapsed
  BY <1>3, <1>5, LeakBounds
<1>7. LET tokens == Smaller(limits.token_capacity,
                            local[p].tokens + elapsed * limits.token_refill_rate)
      IN  /\ tokens \in 0 .. limits.token_capacity
          /\ tokens <= local[p].tokens + limits.token_refill_rate * elapsed
  BY <1>1, <1>4, <1>5, RefillBounds
<1> QED BY <1>5, <1>6, <1>7 DEF elapsed

\* The outcome of one call of LocalFallback: n requests are admitted.
LEMMA LocalKept ==
  ASSUME IInv, NEW p \in Procs, NEW n \in {0, 1},
         NEW tokens \in 0 .. limits.token_capacity, NEW level \in 0 .. MaxLevel,
         tokens + n * Cost <=
            local[p].tokens + limits.token_refill_rate * (clock - local[p].ts),
         local[p].level + n * Cost <=
            level + limits.leaky_leak_rate * (clock - local[p].ts),
         local' = [local EXCEPT ![p] = [tokens |-> tokens, level |-> level, ts |-> clock]],
         admitted' = [admitted EXCEPT ![p] = @ + n],
         UNCHANGED <<limits, clock>>
  PROVE  /\ LocalBurst' /\ LocalPace' /\ admitted' \in [Procs -> Nat]
         /\ local' \in [Procs -> [tokens : 0 .. limits.token_capacity,
                                  level : 0 .. MaxLevel, ts : 0 .. clock]]
<1> DEFINE d == clock - local[p].ts
<1>1. TypeOK /\ LocalBurst /\ LocalPace
  BY DEF IInv
<1>2. /\ local[p].ts \in Nat /\ clock \in Nat /\ d \in Nat /\ clock = local[p].ts + d
      /\ local[p].tokens \in Nat /\ local[p].level \in Nat /\ admitted[p] \in Nat
  BY <1>1, BoundsAssumption, Numbers DEF TypeOK
<1>3. /\ limits.token_refill_rate \in Nat /\ limits.leaky_leak_rate \in Nat /\ Cost \in Nat
      /\ limits.token_capacity \in Nat /\ MaxLevel \in Nat
  BY <1>1, Numbers
<1> HIDE DEF d
<1>4. /\ limits.token_refill_rate * clock =
           limits.token_refill_rate * local[p].ts + limits.token_refill_rate * d
      /\ limits.leaky_leak_rate * clock =
           limits.leaky_leak_rate * local[p].ts + limits.leaky_leak_rate * d
      /\ Cost * (admitted[p] + n) = Cost * admitted[p] + n * Cost
  <2>1. limits.token_refill_rate * clock =
          limits.token_refill_rate * local[p].ts + limits.token_refill_rate * d
    BY <1>2, <1>3, ProductOfSum
  <2>2. limits.leaky_leak_rate * clock =
          limits.leaky_leak_rate * local[p].ts + limits.leaky_leak_rate * d
    BY <1>2, <1>3, ProductOfSum
  <2>3. Cost * (admitted[p] + n) = Cost * admitted[p] + n * Cost
    BY <1>2, <1>3, ProductOfSum
  <2> QED BY <2>1, <2>2, <2>3
<1>5. /\ limits.token_refill_rate * local[p].ts \in Nat /\ limits.token_refill_rate * d \in Nat
      /\ limits.leaky_leak_rate * local[p].ts \in Nat /\ limits.leaky_leak_rate * d \in Nat
      /\ Cost * admitted[p] \in Nat /\ n * Cost \in Nat
  BY <1>2, <1>3, ProductType
<1>6. admitted' \in [Procs -> Nat] /\ admitted'[p] = admitted[p] + n
  BY <1>1, <1>2 DEF TypeOK
<1>7. local'[p] = [tokens |-> tokens, level |-> level, ts |-> clock]
  BY <1>1 DEF TypeOK
<1>8. \A q \in Procs : q # p => local'[q] = local[q] /\ admitted'[q] = admitted[q]
  BY <1>1 DEF TypeOK
<1>9. LocalBurst'
  <2>1. Cost * admitted[p] + local[p].tokens <=
          limits.token_capacity + limits.token_refill_rate * local[p].ts
    BY <1>1 DEF LocalBurst
  <2>2. Cost * (admitted[p] + n) + tokens <=
          limits.token_capacity + limits.token_refill_rate * clock
    BY <1>2, <1>3, <1>4, <1>5, <2>1 DEF d
  <2> QED BY <1>1, <1>6, <1>7, <1>8, <2>2 DEF LocalBurst
<1>10. LocalPace'
  <2>1. Cost * admitted[p] <= local[p].level + limits.leaky_leak_rate * local[p].ts
    BY <1>1 DEF LocalPace
  <2>2. Cost * (admitted[p] + n) <= level + limits.leaky_leak_rate * clock
    BY <1>2, <1>3, <1>4, <1>5, <2>1 DEF d
  <2> QED BY <1>1, <1>6, <1>7, <1>8, <2>2 DEF LocalPace
<1>11. local' \in [Procs -> [tokens : 0 .. limits.token_capacity,
                             level : 0 .. MaxLevel, ts : 0 .. clock]]
  BY <1>1, <1>2 DEF TypeOK
<1> QED BY <1>6, <1>9, <1>10, <1>11

LEMMA LocalFallbackStep ==
  ASSUME IInv, NEW p \in Procs, LocalFallback(p), UNCHANGED <<limits, clock>>
  PROVE  /\ LocalBurst' /\ LocalPace' /\ admitted' \in [Procs -> Nat]
         /\ local' \in [Procs -> [tokens : 0 .. limits.token_capacity,
                                  level : 0 .. MaxLevel, ts : 0 .. clock]]
<1> DEFINE elapsed == clock - local[p].ts
           tokens == Smaller(limits.token_capacity,
                             local[p].tokens + elapsed * limits.token_refill_rate)
           level == Larger(0, local[p].level - elapsed * limits.leaky_leak_rate)
           refill == limits.token_refill_rate * elapsed
           leak == limits.leaky_leak_rate * elapsed
<1>1. TypeOK
  BY DEF IInv
<1>2. /\ elapsed \in Nat
      /\ tokens \in 0 .. limits.token_capacity /\ tokens <= local[p].tokens + refill
      /\ level \in 0 .. local[p].level /\ local[p].level <= level + leak
  BY <1>1, LocalFound
<1>3. \/ /\ tokens < Cost
         /\ local' = [local EXCEPT ![p].tokens = tokens, ![p].ts = clock]
         /\ UNCHANGED admitted
      \/ /\ tokens >= Cost /\ level >= limits.leaky_capacity
         /\ local' = [local EXCEPT ![p] = [tokens |-> tokens, level |-> level, ts |-> clock]]
         /\ UNCHANGED admitted
      \/ /\ tokens >= Cost /\ level < limits.leaky_capacity
         /\ local' = [local EXCEPT ![p] =
              [tokens |-> tokens - Cost, level |-> level + Cost, ts |-> clock]]
         /\ admitted' = [admitted EXCEPT ![p] = @ + 1]
  BY DEF LocalFallback
<1>4. limits.leaky_leak_rate \in Nat /\ limits.token_refill_rate \in Nat /\ Cost \in Nat
      /\ limits.leaky_capacity \in Nat /\ limits.token_capacity \in Nat
  BY <1>1, Numbers
<1>5. refill \in Nat /\ leak \in Nat
  <2> HIDE DEF elapsed
  <2> QED BY <1>2, <1>4, ProductType
<1>6. local[p].level \in 0 .. MaxLevel /\ local[p].level \in Nat /\ local[p].tokens \in Nat
  BY <1>1, Numbers DEF TypeOK
<1>7. admitted \in [Procs -> Nat]
  BY <1>1 DEF TypeOK
<1> HIDE DEF tokens, level
<1>9. CASE tokens < Cost
  <2>1. local' = [local EXCEPT ![p].tokens = tokens, ![p].ts = clock]
        /\ admitted' = [admitted EXCEPT ![p] = @ + 0]
    BY <1>2, <1>3, <1>4, <1>7, <1>9
  <2>2. local' = [local EXCEPT ![p] =
                    [tokens |-> tokens, level |-> local[p].level, ts |-> clock]]
    <3> DEFINE bucket == local[p]
    <3>1. bucket \in [tokens : 0 .. limits.token_capacity, level : 0 .. MaxLevel, ts : 0 .. clock]
      BY <1>1 DEF TypeOK
    <3>2. local' = [local EXCEPT ![p] = [[bucket EXCEPT !.tokens = tokens] EXCEPT !.ts = clock]]
      BY <1>1, <2>1 DEF TypeOK
    <3> HIDE DEF bucket
    <3> DEFINE kept == [[bucket EXCEPT !.tokens = tokens] EXCEPT !.ts = clock]
    <3>3. /\ kept \in [tokens : 0 .. limits.token_capacity, level : 0 .. MaxLevel, ts : {clock}]
          /\ kept.tokens = tokens /\ kept.level = bucket.level
      BY <1>2, <3>1
    <3> HIDE DEF kept
    <3>4. kept = [tokens |-> tokens, level |-> bucket.level, ts |-> clock]
      BY <3>3
    <3> QED BY <3>2, <3>4 DEF kept, bucket
  <2>3. /\ tokens + 0 * Cost <= local[p].tokens + refill
        /\ local[p].level + 0 * Cost <= local[p].level + leak
    BY <1>2, <1>4, <1>5, <1>6
  <2> HIDE DEF elapsed
  <2> QED BY <1>2, <1>6, <2>1, <2>2, <2>3, LocalKept DEF elapsed
<1>10. CASE tokens >= Cost /\ level >= limits.leaky_capacity
  <2>1. local' = [local EXCEPT ![p] = [tokens |-> tokens, level |-> level, ts |-> clock]]
        /\ admitted' = [admitted EXCEPT ![p] = @ + 0]
    BY <1>2, <1>3, <1>4, <1>6, <1>7, <1>10
  <2>2. /\ tokens + 0 * Cost <= local[p].tokens + refill
        /\ local[p].level + 0 * Cost <= level + leak
        /\ level \in 0 .. MaxLevel
    BY <1>1, <1>2, <1>4, <1>5, <1>6, Numbers
  <2> QED BY <1>2, <2>1, <2>2, LocalKept
<1>11. CASE tokens >= Cost /\ level < limits.leaky_capacity
  <2>1. local' = [local EXCEPT ![p] =
                    [tokens |-> tokens - Cost, level |-> level + Cost, ts |-> clock]]
        /\ admitted' = [admitted EXCEPT ![p] = @ + 1]
    BY <1>2, <1>3, <1>4, <1>6, <1>11
  <2>2. /\ (tokens - Cost) + 1 * Cost <= local[p].tokens + refill
        /\ local[p].level + 1 * Cost <= (level + Cost) + leak
        /\ tokens - Cost \in 0 .. limits.token_capacity
        /\ level + Cost \in 0 .. MaxLevel
    BY <1>1, <1>2, <1>4, <1>5, <1>6, <1>11, Numbers DEF MaxLevel
  <2> QED BY <2>1, <2>2, LocalKept
<1> QED BY <1>2, <1>4, <1>6, <1>9, <1>10, <1>11

-----------------------------------------------------------------------------
(* Every step                                                              *)

LEMMA InitIInv == Init => IInv
<1> SUFFICES ASSUME Init PROVE IInv
  OBVIOUS
<1>1. limits \in Setting /\ limits \in Limits /\ Cost \in Nat /\ Cost > 0
  BY LimitsAssumption DEF Init
<1>2. /\ limits.token_capacity \in Nat /\ limits.token_refill_rate \in Nat
      /\ limits.leaky_capacity \in Nat /\ limits.leaky_leak_rate \in Nat /\ MaxLevel \in Nat
  BY <1>1 DEF Setting, MaxLevel
<1>3. TypeOK
  BY <1>1, <1>2, BoundsAssumption DEF Init, TypeOK, Idle
<1>4. FaultsBounded
  BY BoundsAssumption DEF Init, FaultsBounded
<1>5. /\ Cost * 0 = 0 /\ limits.token_capacity * 0 = 0 /\ MaxLevel * 0 = 0
      /\ limits.token_refill_rate * (0 + 0) = 0 /\ limits.leaky_leak_rate * (0 + 0) = 0
      /\ limits.token_refill_rate * 0 = 0 /\ limits.leaky_leak_rate * 0 = 0
  BY <1>1, <1>2
<1>6. Burst /\ Pace /\ NoTokenWasted
  BY <1>2, <1>5 DEF Init, Burst, Pace, NoTokenWasted, Tokens, Level
<1>7. LocalBurst /\ LocalPace
  BY <1>2, <1>5 DEF Init, LocalBurst, LocalPace
<1>8. Complement /\ LeakyBucketIdle
  BY DEF Init, Complement, LeakyBucketIdle, Idle
<1> QED BY <1>3, <1>4, <1>6, <1>7, <1>8 DEF IInv

\* A step that does not run the script.
LEMMA RedisKept ==
  ASSUME IInv, UNCHANGED <<limits, redis>>, bounds'.lost = bounds.lost,
         \A c \in Calls : call'[c].reason \in {call[c].reason, "none"}
  PROVE  Burst' /\ Pace' /\ NoTokenWasted' /\ Complement' /\ LeakyBucketIdle'
<1>1. Wide' <=> Wide
  BY DEF Wide, redis
<1>2. Tokens' = Tokens /\ Level' = Level /\ MaxLevel' = MaxLevel
  BY DEF Tokens, Level, MaxLevel, redis
<1>3. Burst' /\ Pace' /\ NoTokenWasted'
  BY <1>2 DEF IInv, Burst, Pace, NoTokenWasted, redis
<1>4. Complement'
  BY <1>1 DEF IInv, Complement, redis
<1>5. LeakyBucketIdle'
  BY <1>1 DEF IInv, LeakyBucketIdle, Wide
<1> QED BY <1>3, <1>4, <1>5

\* A step in which no process looks at its own buckets.
LEMMA PrivateKept ==
  ASSUME IInv, UNCHANGED <<limits, private>>
  PROVE  LocalBurst' /\ LocalPace'
  BY DEF IInv, LocalBurst, LocalPace, private

LEMMA TickStep == ASSUME IInv, Tick PROVE IInv'
<1>1. UNCHANGED <<limits, call, open_until, bounds, redis, private>>
      /\ clock < MaxTime /\ clock' = clock + 1
  BY DEF Tick
<1>2. TypeOK'
  <2>1. clock' \in 0 .. MaxTime /\ 0 .. clock \subseteq 0 .. clock'
    BY <1>1, BoundsAssumption DEF IInv, TypeOK
  <2>2. MaxLevel' = MaxLevel
    BY <1>1 DEF MaxLevel
  <2>3. local' \in [Procs -> [tokens : 0 .. limits.token_capacity,
                              level : 0 .. MaxLevel, ts : 0 .. clock']]
    BY <1>1, <2>1 DEF IInv, TypeOK, private
  <2> QED BY <1>1, <2>1, <2>2, <2>3 DEF IInv, TypeOK, redis, private
<1>3. FaultsBounded'
  BY <1>1 DEF IInv, FaultsBounded
<1> QED BY <1>1, <1>2, <1>3, RedisKept, PrivateKept DEF IInv

\* Begin and SpendFault spend what the bounds allow.
LEMMA BoundsSpent ==
  ASSUME IInv, NEW c \in Calls, Begin(c) \/ SpendFault \/ UNCHANGED bounds
  PROVE  /\ bounds' \in [calls : 0 .. MaxCalls, faults : 0 .. MaxFaults, lost : 0 .. MaxFaults]
         /\ bounds'.lost = bounds.lost /\ bounds'.faults <= bounds.faults
         /\ FaultsBounded'
<1>1. bounds \in [calls : 0 .. MaxCalls, faults : 0 .. MaxFaults, lost : 0 .. MaxFaults]
  BY DEF IInv, TypeOK
<1>2. /\ bounds' \in [calls : 0 .. MaxCalls, faults : 0 .. MaxFaults, lost : 0 .. MaxFaults]
      /\ bounds'.lost = bounds.lost /\ bounds'.faults <= bounds.faults
  BY <1>1, BoundsAssumption DEF Begin, SpendFault
<1> QED BY <1>1, <1>2, BoundsAssumption DEF IInv, FaultsBounded

\* The types of what a call, a breaker or the bounds were changed to.
CallsTyped ==
    /\ call \in [Calls -> [stage : {"idle", "sent", "reply", "fallback"}, now : Nat,
        reason : {"none", "token_bucket_exhausted", "leaky_bucket_full", "ok"}]]
    /\ open_until \in [Procs -> Nat]

\* The steps of allow() that use the private buckets.
LEMMA LocalStep ==
  ASSUME IInv, NEW c \in Calls, LocalFallback(ProcOf[c]),
         UNCHANGED <<limits, clock, open_until, redis>>, CallsTyped',
         \A b \in Calls : call'[b].reason \in {call[b].reason, "none"},
         Begin(c) \/ UNCHANGED bounds
  PROVE  IInv'
<1>1. ProcOf[c] \in Procs
  BY ProcsAssumption
<1>2. /\ LocalBurst' /\ LocalPace' /\ admitted' \in [Procs -> Nat]
      /\ local' \in [Procs -> [tokens : 0 .. limits.token_capacity,
                               level : 0 .. MaxLevel, ts : 0 .. clock]]
  BY <1>1, LocalFallbackStep
<1>3. /\ bounds' \in [calls : 0 .. MaxCalls, faults : 0 .. MaxFaults, lost : 0 .. MaxFaults]
      /\ bounds'.lost = bounds.lost /\ FaultsBounded'
  BY BoundsSpent
<1>4. MaxLevel' = MaxLevel
  BY DEF MaxLevel
<1>5. TypeOK'
  BY <1>2, <1>3, <1>4 DEF IInv, TypeOK, CallsTyped, redis
<1>6. Burst' /\ Pace' /\ NoTokenWasted' /\ Complement' /\ LeakyBucketIdle'
  BY <1>3, RedisKept
<1> QED BY <1>2, <1>3, <1>5, <1>6 DEF IInv

\* The steps of allow() that touch no bucket.
LEMMA QuietStep ==
  ASSUME IInv, NEW c \in Calls,
         UNCHANGED <<limits, clock, redis, private>>, CallsTyped',
         \A b \in Calls : call'[b].reason \in {call[b].reason, "none"},
         Begin(c) \/ SpendFault \/ UNCHANGED bounds
  PROVE  IInv'
<1>1. /\ bounds' \in [calls : 0 .. MaxCalls, faults : 0 .. MaxFaults, lost : 0 .. MaxFaults]
      /\ bounds'.lost = bounds.lost /\ FaultsBounded'
  BY BoundsSpent
<1>2. MaxLevel' = MaxLevel
  BY DEF MaxLevel
<1>3. TypeOK'
  BY <1>1, <1>2 DEF IInv, TypeOK, CallsTyped, redis, private
<1>4. Burst' /\ Pace' /\ NoTokenWasted' /\ Complement' /\ LeakyBucketIdle'
  BY <1>1, RedisKept
<1> QED BY <1>1, <1>3, <1>4, PrivateKept DEF IInv

LEMMA AllowStep == ASSUME IInv, NEW c \in Calls, Allow(c) PROVE IInv'
<1>1. /\ ProcOf[c] \in Procs /\ Skew[ProcOf[c]] \in Nat /\ clock \in Nat /\ Cooldown \in Nat
      /\ CallsTyped
  BY ProcsAssumption, BoundsAssumption DEF IInv, TypeOK, CallsTyped
<1>2. CASE SkipRedis(c)
  BY <1>1, <1>2, LocalStep DEF SkipRedis, CallsTyped
<1>3. CASE Stamp(c)
  <2>1. /\ UNCHANGED <<limits, clock, open_until, redis, private>> /\ Begin(c)
        /\ call' = [call EXCEPT ![c].stage = "sent", ![c].now = clock + Skew[ProcOf[c]]]
    BY <1>3 DEF Stamp
  <2> DEFINE asked == call[c]
             stamp == clock + Skew[ProcOf[c]]
             sent == [[asked EXCEPT !.stage = "sent"] EXCEPT !.now = stamp]
  <2>2. asked \in [stage : {"idle", "sent", "reply", "fallback"}, now : Nat,
          reason : {"none", "token_bucket_exhausted", "leaky_bucket_full", "ok"}]
    BY <1>1 DEF CallsTyped
  <2>3. call' = [call EXCEPT ![c] = sent]
    BY <1>1, <2>1 DEF CallsTyped
  <2>4. stamp \in Nat
    BY <1>1
  <2> HIDE DEF asked, stamp
  <2>5. /\ sent \in [stage : {"idle", "sent", "reply", "fallback"}, now : Nat,
             reason : {"none", "token_bucket_exhausted", "leaky_bucket_full", "ok"}]
        /\ sent.reason = asked.reason
    BY <2>4, <2>2
  <2> HIDE DEF sent
  <2>6. CallsTyped' /\ \A b \in Calls : call'[b].reason \in {call[b].reason, "none"}
    BY <1>1, <2>1, <2>3, <2>5, ZenonT(30) DEF CallsTyped, asked
  <2> QED BY <2>1, <2>6, QuietStep
<1>4. CASE Script(c)
  BY <1>4, ScriptStep
<1>5. CASE Return(c)
  <2>1. /\ UNCHANGED <<limits, clock, bounds, redis, private>>
        /\ call' = [call EXCEPT ![c] = Idle]
        /\ open_until' = [open_until EXCEPT ![ProcOf[c]] = 0]
    BY <1>5 DEF Return, RecordSuccess
  <2>2. CallsTyped' /\ \A b \in Calls : call'[b].reason \in {call[b].reason, "none"}
    BY <1>1, <2>1 DEF CallsTyped, Idle
  <2> QED BY <2>1, <2>2, QuietStep
<1>6. CASE RedisFails(c)
  <2>1. /\ UNCHANGED <<limits, clock, redis, private>>
        /\ (SpendFault \/ UNCHANGED bounds)
        /\ call' = [call EXCEPT ![c] = [Idle EXCEPT !.stage = "fallback"]]
        /\ open_until' = [open_until EXCEPT ![ProcOf[c]] = clock + Cooldown]
    BY <1>6 DEF RedisFails, RecordFailure
  <2>2. [Idle EXCEPT !.stage = "fallback"]
          = [stage |-> "fallback", now |-> 0, reason |-> "none"]
    BY DEF Idle
  <2>3. CallsTyped' /\ \A b \in Calls : call'[b].reason \in {call[b].reason, "none"}
    BY <1>1, <2>1, <2>2 DEF CallsTyped
  <2> QED BY <2>1, <2>3, QuietStep
<1>7. CASE Fallback(c)
  <2>1. /\ UNCHANGED <<limits, clock, open_until, bounds, redis>>
        /\ LocalFallback(ProcOf[c]) /\ call' = [call EXCEPT ![c] = Idle]
    BY <1>7 DEF Fallback
  <2>2. CallsTyped' /\ \A b \in Calls : call'[b].reason \in {call[b].reason, "none"}
    BY <1>1, <2>1 DEF CallsTyped, Idle
  <2> QED BY <2>1, <2>2, LocalStep
<1> QED BY <1>2, <1>3, <1>4, <1>5, <1>6, <1>7 DEF Allow

LEMMA LoseKeysStep == ASSUME IInv, LoseKeys PROVE IInv'
<1>1. /\ UNCHANGED <<limits, clock, call, open_until, granted, rewound, private>>
      /\ bounds.faults > 0
      /\ bounds' = [bounds EXCEPT !.faults = @ - 1, !.lost = @ + 1]
      /\ tb' = tb \/ tb' = [tb EXCEPT !.live = FALSE]
      /\ lb' = lb \/ lb' = [lb EXCEPT !.live = FALSE]
  BY DEF LoseKeys
<1>2. TypeOK /\ bounds.lost \in Nat
  BY Numbers DEF IInv
<1>3. /\ bounds' \in [calls : 0 .. MaxCalls, faults : 0 .. MaxFaults, lost : 0 .. MaxFaults]
      /\ bounds'.lost = bounds.lost + 1 /\ FaultsBounded'
  <2>1. bounds \in [calls : 0 .. MaxCalls, faults : 0 .. MaxFaults, lost : 0 .. MaxFaults]
    BY <1>2 DEF TypeOK
  <2> DEFINE fewer == bounds.faults - 1
             more == bounds.lost + 1
  <2>2. /\ bounds \in [calls : 0 .. MaxCalls, faults : Nat, lost : Nat]
        /\ fewer \in Nat /\ more \in Nat
    BY <1>1, <2>1, BoundsAssumption
  <2>3. bounds' = [[bounds EXCEPT !.faults = fewer] EXCEPT !.lost = more]
    BY <1>1, <2>1
  <2> HIDE DEF fewer, more
  <2>4. /\ bounds' \in [calls : 0 .. MaxCalls, faults : Nat, lost : Nat]
        /\ bounds'.faults = fewer /\ bounds'.lost = more
    BY <2>2, <2>3
  <2>5. /\ bounds' \in [calls : 0 .. MaxCalls, faults : Nat, lost : Nat]
        /\ bounds'.faults = bounds.faults - 1 /\ bounds'.lost = bounds.lost + 1
    BY <2>4 DEF fewer, more
  <2>6. bounds'.faults + bounds'.lost <= MaxFaults
    BY <2>1, <2>5, BoundsAssumption DEF IInv, FaultsBounded
  <2> QED BY <2>1, <2>5, <2>6, BoundsAssumption DEF FaultsBounded
<1>4. /\ tb' \in [tokens : 0 .. limits.token_capacity, ts : Nat, live : BOOLEAN]
      /\ tb'.tokens = tb.tokens /\ tb'.ts = tb.ts
  BY <1>1, <1>2 DEF TypeOK
<1>5. /\ lb' \in [level : 0 .. MaxLevel, ts : Nat, live : BOOLEAN] /\ lb'.ts = lb.ts
  BY <1>1, <1>2 DEF TypeOK
<1>6. MaxLevel' = MaxLevel
  BY <1>1 DEF MaxLevel
<1>7. TypeOK'
  BY <1>1, <1>2, <1>3, <1>4, <1>5, <1>6 DEF TypeOK, private
<1>8. Tokens' <= limits.token_capacity /\ Tokens' \in Nat /\ Level' \in Nat
  <2>1. limits'.token_capacity = limits.token_capacity /\ limits.token_capacity \in Nat
        /\ MaxLevel \in Nat
    BY <1>1, <1>2, Numbers
  <2>2. Tokens' \in {tb'.tokens, limits.token_capacity} /\ Level' \in {lb'.level, 0}
    BY <2>1 DEF Tokens, Level
  <2> QED BY <1>4, <1>5, <2>1, <2>2
<1>9. /\ limits.token_capacity \in Nat /\ MaxLevel \in Nat /\ Level <= MaxLevel
      /\ Level \in Nat /\ Tokens \in Nat /\ granted \in Nat /\ Cost \in Nat
  BY <1>2, Numbers
<1>10. /\ limits.token_capacity * (bounds.lost + 1)
            = limits.token_capacity * bounds.lost + limits.token_capacity
       /\ MaxLevel * (bounds.lost + 1) = MaxLevel * bounds.lost + MaxLevel
  BY <1>2, <1>9
<1>11. /\ Cost * granted \in Nat /\ limits.token_capacity * bounds.lost \in Nat
       /\ MaxLevel * bounds.lost \in Nat
       /\ limits.token_refill_rate * (tb.ts + rewound.tb) \in Nat
       /\ limits.leaky_leak_rate * (lb.ts + rewound.lb) \in Nat
  <2>1. /\ limits.token_refill_rate \in Nat /\ limits.leaky_leak_rate \in Nat
        /\ tb.ts \in Nat /\ rewound.tb \in Nat /\ lb.ts \in Nat /\ rewound.lb \in Nat
    BY <1>2, Numbers
  <2>2. tb.ts + rewound.tb \in Nat /\ lb.ts + rewound.lb \in Nat
    BY <2>1
  <2> QED BY <1>2, <1>9, <2>1, <2>2, ProductType
<1>12. Burst'
  <2>1. Cost * granted + Tokens <=
          limits.token_capacity + limits.token_capacity * bounds.lost
          + limits.token_refill_rate * (tb.ts + rewound.tb)
    BY DEF IInv, Burst
  <2>2. Cost * granted + Tokens' <=
          limits.token_capacity + limits.token_capacity * (bounds.lost + 1)
          + limits.token_refill_rate * (tb.ts + rewound.tb)
    BY <1>8, <1>9, <1>10, <1>11, <2>1
  <2> QED BY <1>1, <1>3, <1>4, <2>2 DEF Burst
<1>13. Pace'
  <2>1. Cost * granted <=
          Level + MaxLevel * bounds.lost + limits.leaky_leak_rate * (lb.ts + rewound.lb)
    BY DEF IInv, Pace
  <2>2. Cost * granted <=
          Level' + MaxLevel * (bounds.lost + 1)
          + limits.leaky_leak_rate * (lb.ts + rewound.lb)
    BY <1>8, <1>9, <1>10, <1>11, <2>1
  <2> QED BY <1>1, <1>3, <1>5, <1>6, <2>2 DEF Pace
<1>14. NoTokenWasted'
  BY <1>1, <1>4 DEF IInv, NoTokenWasted
<1>15. ~Wide' /\ bounds'.lost # 0
  BY <1>2, <1>3 DEF Wide
<1>16. Complement' /\ LeakyBucketIdle'
  BY <1>15 DEF Complement, LeakyBucketIdle
<1> QED BY <1>1, <1>3, <1>7, <1>12, <1>13, <1>14, <1>16, PrivateKept DEF IInv

LEMMA NextIInv == IInv /\ [Next]_vars => IInv'
<1> SUFFICES ASSUME IInv, [Next]_vars PROVE IInv'
  OBVIOUS
<1>1. CASE Tick
  BY <1>1, TickStep
<1>2. CASE \E c \in Calls : Allow(c)
  BY <1>2, AllowStep
<1>3. CASE LoseKeys
  BY <1>3, LoseKeysStep
<1>4. CASE UNCHANGED vars
  <2>1. MaxLevel' = MaxLevel /\ Tokens' = Tokens /\ Level' = Level /\ (Wide' <=> Wide)
    BY <1>4 DEF MaxLevel, Tokens, Level, Wide, vars
  <2>2. TypeOK' /\ FaultsBounded' /\ Burst' /\ Pace' /\ NoTokenWasted'
    BY <1>4, <2>1 DEF IInv, vars, TypeOK, FaultsBounded, Burst, Pace, NoTokenWasted
  <2>3. LocalBurst' /\ LocalPace' /\ Complement' /\ LeakyBucketIdle'
    BY <1>4, <2>1 DEF IInv, vars, LocalBurst, LocalPace, Complement, LeakyBucketIdle
  <2> QED BY <2>2, <2>3 DEF IInv
<1> QED BY <1>1, <1>2, <1>3, <1>4 DEF Next, Finished

\* The inductive invariant holds in every reachable state; the theorems below are
\* its parts and consequences.
THEOREM InvariantHolds == Spec => []IInv
  BY InitIInv, NextIInv, PTL DEF Spec

\* Every reachable state of the limiter is well typed: no bucket of
\* rate_limiter.py, in Redis or in a process, leaves its capacity.
THEOREM TypeCorrect == Spec => []TypeOK
  BY InvariantHolds, PTL DEF IInv

LEMMA AdmissionFromIInv == IInv => AdmissionBound
<1> SUFFICES ASSUME IInv PROVE AdmissionBound
  OBVIOUS
<1>1. /\ TypeOK /\ Burst /\ Pace
  BY DEF IInv
<1>2. /\ limits.token_capacity \in Nat /\ bounds.lost \in Nat /\ granted \in Nat /\ Cost \in Nat
      /\ tb.tokens \in 0 .. limits.token_capacity /\ lb.level \in Nat
      /\ lb.level \in 0 .. MaxLevel /\ MaxLevel \in Nat
  BY <1>1, Numbers
<1>3. tb.tokens <= Tokens /\ Tokens \in Nat /\ Level <= lb.level /\ Level \in Nat
  BY <1>2 DEF Tokens, Level
<1>4. /\ limits.token_capacity * (1 + bounds.lost)
           = limits.token_capacity + limits.token_capacity * bounds.lost
  BY <1>2
<1>5. /\ Cost * granted \in Nat /\ limits.token_capacity * bounds.lost \in Nat
      /\ MaxLevel * bounds.lost \in Nat
      /\ limits.token_refill_rate * (tb.ts + rewound.tb) \in Nat
      /\ limits.leaky_leak_rate * (lb.ts + rewound.lb) \in Nat
  <2>1. /\ limits.token_refill_rate \in Nat /\ limits.leaky_leak_rate \in Nat
        /\ tb.ts \in Nat /\ rewound.tb \in Nat /\ lb.ts \in Nat /\ rewound.lb \in Nat
    BY <1>1, Numbers
  <2>2. tb.ts + rewound.tb \in Nat /\ lb.ts + rewound.lb \in Nat
    BY <2>1
  <2> QED BY <1>2, <2>1, <2>2, ProductType
<1>6. BurstBound
  BY <1>1, <1>2, <1>3, <1>4, <1>5 DEF Burst, BurstBound
<1>7. PaceBound
  BY <1>1, <1>2, <1>3, <1>5 DEF Pace, PaceBound
<1> QED BY <1>6, <1>7 DEF AdmissionBound

\* Whatever the clocks of the callers and the order of their scripts, what
\* HYBRID_LIMITER_LUA admits is bounded by a burst and a rate of either bucket,
\* over the time that passed on the stored timestamps.
THEOREM AdmissionIsBounded == Spec => []AdmissionBound
  BY InvariantHolds, AdmissionFromIInv, PTL

\* Tokens leave the shared bucket for admitted requests only: the script takes
\* none when the leaky bucket is full, and none is lost to a rewound timestamp.
THEOREM TokensAreForRequests == Spec => []NoTokenWasted
  BY InvariantHolds, PTL DEF IInv

LEMMA LocalFromIInv == IInv => LocalBound
<1> SUFFICES ASSUME IInv, NEW p \in Procs
             PROVE  /\ Cost * admitted[p] <=
                         limits.token_capacity + limits.token_refill_rate * clock
                    /\ Cost * admitted[p] <= MaxLevel + limits.leaky_leak_rate * clock
  BY DEF LocalBound, Smaller
<1>1. TypeOK
  BY DEF IInv
<1>2. /\ clock \in Nat /\ local[p].ts \in Nat /\ local[p].ts <= clock /\ admitted[p] \in Nat
      /\ local[p].tokens \in 0 .. limits.token_capacity /\ local[p].level \in 0 .. MaxLevel
  BY <1>1, BoundsAssumption DEF TypeOK
<1>3. /\ limits.token_refill_rate \in Nat /\ limits.leaky_leak_rate \in Nat /\ Cost \in Nat
      /\ limits.token_capacity \in Nat /\ MaxLevel \in Nat
  BY <1>1, Numbers
<1>4. /\ limits.token_refill_rate * local[p].ts <= limits.token_refill_rate * clock
      /\ limits.leaky_leak_rate * local[p].ts <= limits.leaky_leak_rate * clock
  BY <1>2, <1>3, ProductGrows
<1>5. /\ limits.token_refill_rate * local[p].ts \in Nat /\ limits.token_refill_rate * clock \in Nat
      /\ limits.leaky_leak_rate * local[p].ts \in Nat /\ limits.leaky_leak_rate * clock \in Nat
      /\ Cost * admitted[p] \in Nat
  BY <1>2, <1>3, ProductType
<1>6. /\ Cost * admitted[p] + local[p].tokens <=
           limits.token_capacity + limits.token_refill_rate * local[p].ts
      /\ Cost * admitted[p] <= local[p].level + limits.leaky_leak_rate * local[p].ts
  BY DEF IInv, LocalBurst, LocalPace
<1> QED BY <1>2, <1>3, <1>4, <1>5, <1>6

\* A process that is cut off from Redis, once or again and again, admits on its
\* own (_allow_local_fallback) no more than either bucket allows for its uptime.
THEOREM LocalIsBounded == Spec => []LocalBound
  BY InvariantHolds, LocalFromIInv, PTL

\* With the settings of main.py the leaky bucket never rejects a request, as long
\* as the stored time does not run backwards and no key is lost.
THEOREM LeakyBucketNeverFull == Spec => []LeakyBucketIdle
  BY InvariantHolds, PTL DEF IInv
==============================================================================

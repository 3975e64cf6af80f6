---------------------------- MODULE BuyQueueProofs ----------------------------
(***************************************************************************)
(* Proofs about BuyQueue, for every number of processes, handlers,         *)
(* requests, tickets, batches and faults.  What the answers say holds      *)
(* until the first reset, which leaves the result lists of the run before  *)
(* it alone.                                                               *)
(***************************************************************************)
EXTENDS BuyQueue, TLAPS

\* A handler that executes POST /buy has a request.
RequestKnown == \A h \in Handlers : pc[h] # "idle" => request[h] \in Request

\* No more is sent, sold, broken or reset than there is.
Bounded ==
    /\ \A r \in Reqs : plan[r] <= Sends[r]
    /\ budget.faults <= MaxFaults /\ budget.crashes <= MaxCrashes
    /\ budget.resets <= MaxResets
    /\ sold_count <= Total

\* A result for r that the ledger does not contradict.
Honest(result, r) ==
    /\ result.status \in {"success", "already_processed"} =>
           result.ticket # NoTicket /\ result.ticket = ticket_of[r]
    /\ result.status = "sold_out" => ticket_of[r] = NoTicket /\ sold_count = Total

\* A result may be told to nobody yet: its task is about to push it, or it waits
\* in its list for any handler of the req_id.
ResultsHonest ==
    /\ \A p \in Procs : \A k \in tasks[p] :
           k.stage = "push" => Honest(k.result, k.entry.req)
    /\ \A r \in Reqs : \A i \in DOMAIN results[r] : Honest(results[r][i], r)

\* The "success" of r is in one of its three places, once.
OneSuccess(r) ==
    /\ \A p, q \in Procs : \A k \in Pushing(p, r) : \A l \in Pushing(q, r) : p = q /\ k = l
    /\ \A i, j \in Listed(r) : i = j
    /\ \A a, b \in Told(r) : a = b
    /\ \/ NonePushing(r) /\ Listed(r) = {}
       \/ NonePushing(r) /\ Told(r) = {}
       \/ Listed(r) = {} /\ Told(r) = {}

UntilReset ==
    budget.resets = MaxResets =>
        /\ ResultsHonest /\ AnswersTruthful
        /\ \A r \in Reqs : OneSuccess(r)

\* While nothing failed, crashed or was reset, Redis is believed to be up, no reset
\* is under way, and every answer counts.
Calm ==
    ~Disturbed =>
        /\ \A p \in Procs : circuit[p] = "closed" /\ reset_pc[p] = "idle"
        /\ \A h \in Handlers : pc[h] # "idle" => h \in fresh

IInv == TypeOK /\ RequestKnown /\ Bounded /\ UntilReset /\ Calm

-----------------------------------------------------------------------------
(* Types                                                                   *)

\* What the assumptions say of the constants.
LEMMA Constants ==
  /\ Total \in Nat /\ Sends \in [Reqs -> Nat] /\ MaxResets \in Nat
  /\ NoTicket \in Nat /\ Error \in Result
  BY TotalAssumption, BoundsAssumption DEF NoTicket, Error, Result

Budget == [faults : Nat, crashes : Nat, resets : Nat]

\* One fault, crash or reset less.
LEMMA BudgetTypes ==
  ASSUME IInv
  PROVE  /\ budget.faults > 0 => /\ [budget EXCEPT !.faults = @ - 1] \in Budget
                                 /\ [budget EXCEPT !.faults = @ - 1].resets = budget.resets
         /\ budget.crashes > 0 => /\ [budget EXCEPT !.crashes = @ - 1] \in Budget
                                  /\ [budget EXCEPT !.crashes = @ - 1].resets = budget.resets
         /\ budget.resets > 0 => /\ [budget EXCEPT !.resets = @ - 1] \in Budget
                                 /\ [budget EXCEPT !.resets = @ - 1].resets = budget.resets - 1
<1>1. budget \in Budget /\ budget.faults \in Nat /\ budget.crashes \in Nat
      /\ budget.resets \in Nat
  BY DEF IInv, TypeOK, Budget
<1>2. /\ budget.faults > 0 => budget.faults - 1 \in Nat
      /\ budget.crashes > 0 => budget.crashes - 1 \in Nat
      /\ budget.resets > 0 => budget.resets - 1 \in Nat
  BY <1>1
<1>3. \A n \in Nat : /\ [budget EXCEPT !.faults = n] \in Budget
                     /\ [budget EXCEPT !.faults = n].resets = budget.resets
  BY <1>1 DEF Budget
<1>4. \A n \in Nat : /\ [budget EXCEPT !.crashes = n] \in Budget
                     /\ [budget EXCEPT !.crashes = n].resets = budget.resets
  BY <1>1 DEF Budget
<1>5. \A n \in Nat : /\ [budget EXCEPT !.resets = n] \in Budget
                     /\ [budget EXCEPT !.resets = n].resets = n
  BY <1>1 DEF Budget
<1> QED BY <1>2, <1>3, <1>4, <1>5

\* It stays within its bounds, and shows that something happened.
LEMMA BudgetShrinks ==
  ASSUME IInv, NEW b,
         \/ budget.faults > 0 /\ b = [budget EXCEPT !.faults = @ - 1]
         \/ budget.crashes > 0 /\ b = [budget EXCEPT !.crashes = @ - 1]
         \/ budget.resets > 0 /\ b = [budget EXCEPT !.resets = @ - 1]
  PROVE  /\ b.faults <= MaxFaults /\ b.crashes <= MaxCrashes /\ b.resets <= MaxResets
         /\ b # [faults |-> MaxFaults, crashes |-> MaxCrashes, resets |-> MaxResets]
<1>1. budget \in Budget /\ budget.faults \in Nat /\ budget.crashes \in Nat
      /\ budget.resets \in Nat
  BY DEF IInv, TypeOK, Budget
<1>2. /\ MaxFaults \in Nat /\ MaxCrashes \in Nat /\ MaxResets \in Nat
      /\ budget.faults <= MaxFaults /\ budget.crashes <= MaxCrashes
      /\ budget.resets <= MaxResets
  BY BoundsAssumption DEF IInv, Bounded
<1>3. \/ b.faults = budget.faults - 1 /\ b.crashes = budget.crashes /\ b.resets = budget.resets
      \/ b.faults = budget.faults /\ b.crashes = budget.crashes - 1 /\ b.resets = budget.resets
      \/ b.faults = budget.faults /\ b.crashes = budget.crashes /\ b.resets = budget.resets - 1
  BY <1>1 DEF Budget
<1>4. \/ b.faults # MaxFaults
      \/ b.crashes # MaxCrashes
      \/ b.resets # MaxResets
  BY <1>1, <1>2, <1>3
<1> QED BY <1>1, <1>2, <1>3, <1>4

\* What atomic_buy does to the ledger, and returns.
LEMMA SaleTypes ==
  ASSUME IInv, NEW r \in Reqs
  PROVE  /\ Available(r) =>
               /\ sold_count + 1 \in Nat /\ sold_count + 1 <= Total
               /\ [ticket_of EXCEPT ![r] = sold_count + 1] \in [Reqs -> Nat]
         /\ Outcome(r) \in Result
<1>1. sold_count \in Nat /\ Total \in Nat /\ ticket_of \in [Reqs -> Nat]
  BY TotalAssumption DEF IInv, TypeOK
<1> QED BY <1>1 DEF Available, Outcome, Result

\* The req_id of a request.
LEMMA RequestTypes ==
  ASSUME NEW e \in Request PROVE e.req \in Reqs
  BY DEF Request

\* A task moves on to the push of its result, and to its acknowledgement.
LEMMA TaskTypesKept ==
  ASSUME NEW k \in Task, NEW result \in Result
  PROVE  /\ k.entry \in Request /\ k.entry.req \in Reqs /\ k.result \in Result
         /\ [k EXCEPT !.stage = "push", !.result = result] \in Task
         /\ [k EXCEPT !.stage = "ack"] \in Task
  BY RequestTypes DEF Task

\* A batch is a prefix of the stream, and becomes tasks.
LEMMA DeliveredTypes ==
  ASSUME backlog \in Seq(Request)
  PROVE  /\ Delivered \in Seq(Request) /\ Range(Delivered) \subseteq Request
         /\ SubSeq(backlog, Len(Delivered) + 1, Len(backlog)) \in Seq(Request)
         /\ {NewTask(e) : e \in Range(Delivered)} \subseteq Task
<1> DEFINE n == IF Len(backlog) < BatchSize THEN Len(backlog) ELSE BatchSize
<1>1. n \in 0 .. Len(backlog) /\ Len(backlog) \in Nat
  BY BoundsAssumption
<1> HIDE DEF n
<1>2. /\ SubSeq(backlog, 1, n) \in Seq(Request) /\ Len(SubSeq(backlog, 1, n)) = n
      /\ SubSeq(backlog, n + 1, Len(backlog)) \in Seq(Request)
  BY <1>1
<1>3. Delivered = SubSeq(backlog, 1, n)
  BY DEF Delivered, n
<1>4. Range(Delivered) \subseteq Request
  BY <1>2, <1>3 DEF Range
<1>5. {NewTask(e) : e \in Range(Delivered)} \subseteq Task
  BY <1>4, Constants DEF NewTask, Task
<1> QED BY <1>2, <1>3, <1>4, <1>5

\* The steps of POST /buy.
LEMMA HandlerTypes ==
  ASSUME IInv, NEW h \in Handlers,
         SkipQueue(h) \/ Enqueue(h) \/ EnqueueFails(h) \/ PopResult(h) \/ TimeOut(h)
         \/ WaitFails(h) \/ Fallback(h) \/ FallbackFails(h)
  PROVE  TypeOK' /\ RequestKnown' /\ Bounded'
<1> USE DEF IInv, TypeOK, Budget, RequestKnown, Bounded, ledger, stream, handlers,
            consumers, environment, history
<1>1. CASE SkipQueue(h)
  <2>1. TypeOK'
    BY <1>1 DEF SkipQueue, Goto
  <2>2. RequestKnown'
    BY <1>1 DEF SkipQueue, Goto
  <2>3. Bounded'
    BY <1>1 DEF SkipQueue
  <2> QED BY <2>1, <2>2, <2>3
<1>2. CASE Enqueue(h)
  <2>1. TypeOK'
    BY <1>2 DEF Enqueue, Goto, XAdd
  <2>2. RequestKnown'
    BY <1>2 DEF Enqueue, Goto
  <2>3. Bounded'
    BY <1>2 DEF Enqueue
  <2> QED BY <2>1, <2>2, <2>3
<1>3. CASE EnqueueFails(h)
  <2>1. TypeOK'
    <3>1. request[h] \in Request /\ request[h].req \in Reqs
      BY <1>3, RequestTypes DEF EnqueueFails, Goto
    <3>2. backlog' \in Seq(Request) /\ pel' = pel /\ group' = group
      <4>1. Append(backlog, request[h]) \in Seq(Request)
        BY <3>1
      <4> QED BY <1>3, <4>1, ZenonT(30) DEF EnqueueFails, XAdd
    <3>3. budget' \in Budget /\ plan' \in [Reqs -> Nat]
      BY <1>3, BudgetTypes DEF EnqueueFails, Fault
    <3> QED BY <1>3, <3>2, <3>3 DEF EnqueueFails, Goto, RecordFailure
  <2>2. RequestKnown'
    BY <1>3 DEF EnqueueFails, Goto
  <2>3. Bounded'
    BY <1>3, BudgetShrinks DEF EnqueueFails, Fault
  <2> QED BY <2>1, <2>2, <2>3
<1>4. CASE PopResult(h)
  <2>1. TypeOK'
    <3>1. request[h] \in Request /\ request[h].req \in Reqs
      BY <1>4, RequestTypes DEF PopResult, Goto
    <3>2. results[request[h].req] \in Seq(Result) /\ results[request[h].req] # <<>>
      BY <1>4, <3>1 DEF PopResult, Pop
    <3>3. /\ Head(results[request[h].req]) \in Result
          /\ Tail(results[request[h].req]) \in Seq(Result)
      BY <3>2
    <3>4. results' \in [Reqs -> Seq(Result)]
      BY <1>4, <3>3 DEF PopResult, Pop
    <3>5. /\ answers' \subseteq [request : Request, result : Result]
          /\ fresh' \subseteq Handlers
          /\ request' \in [Handlers -> Request \cup {NoRequest}]
      BY <1>4, <3>1, <3>3 DEF PopResult, Answer
    <3> QED BY <1>4, <3>4, <3>5 DEF PopResult, Goto, RecordSuccess
  <2>2. RequestKnown'
    BY <1>4 DEF PopResult, Goto, Answer
  <2>3. Bounded'
    BY <1>4 DEF PopResult
  <2> QED BY <2>1, <2>2, <2>3
<1>5. CASE TimeOut(h)
  <2>1. TypeOK'
    BY <1>5 DEF TimeOut, Goto, RecordSuccess
  <2>2. RequestKnown'
    BY <1>5 DEF TimeOut, Goto
  <2>3. Bounded'
    BY <1>5 DEF TimeOut
  <2> QED BY <2>1, <2>2, <2>3
<1>6. CASE WaitFails(h)
  <2>1. TypeOK'
    <3>1. request[h] \in Request /\ request[h].req \in Reqs
      BY <1>6, RequestTypes DEF WaitFails, Goto
    <3>2. results[request[h].req] \in Seq(Result)
      BY <3>1
    <3>3. results' \in [Reqs -> Seq(Result)]
      <4>1. results[request[h].req] # <<>> => Tail(results[request[h].req]) \in Seq(Result)
        BY <3>2
      <4> QED BY <1>6, <4>1 DEF WaitFails, Pop
    <3>4. budget' \in Budget /\ plan' \in [Reqs -> Nat]
      BY <1>6, BudgetTypes DEF WaitFails, CommandFails, Fault
    <3> QED BY <1>6, <3>3, <3>4 DEF WaitFails, Goto, RecordFailure
  <2>2. RequestKnown'
    BY <1>6 DEF WaitFails, Goto
  <2>3. Bounded'
    BY <1>6, BudgetShrinks DEF WaitFails, CommandFails, Fault
  <2> QED BY <2>1, <2>2, <2>3
<1>7. CASE Fallback(h)
  <2>1. TypeOK'
    <3>1. request[h] \in Request /\ request[h].req \in Reqs
      BY <1>7, RequestTypes DEF Fallback, Goto
    <3>2. sold_count' \in Nat /\ ticket_of' \in [Reqs -> Nat]
      BY <1>7, <3>1 DEF Fallback, AtomicBuy
    <3>3. /\ answers' \subseteq [request : Request, result : Result]
          /\ fresh' \subseteq Handlers
          /\ request' \in [Handlers -> Request \cup {NoRequest}]
      BY <1>7, <3>1, SaleTypes DEF Fallback, Answer
    <3> QED BY <1>7, <3>2, <3>3 DEF Fallback, Goto
  <2>2. RequestKnown'
    BY <1>7 DEF Fallback, Goto, Answer
  <2>3. Bounded'
    BY <1>7, SaleTypes, RequestTypes DEF Fallback, Goto, AtomicBuy
  <2> QED BY <2>1, <2>2, <2>3
<1>8. CASE FallbackFails(h)
  <2>1. TypeOK'
    <3>1. request[h] \in Request /\ request[h].req \in Reqs
      BY <1>8, RequestTypes DEF FallbackFails, Goto
    <3>2. sold_count' \in Nat /\ ticket_of' \in [Reqs -> Nat]
      BY <1>8, <3>1, SaleTypes DEF FallbackFails, AtomicBuy
    <3>3. /\ answers' \subseteq [request : Request, result : Result]
          /\ fresh' \subseteq Handlers
          /\ request' \in [Handlers -> Request \cup {NoRequest}]
      BY <1>8, <3>1, Constants DEF FallbackFails, Answer
    <3>4. budget' \in Budget /\ plan' \in [Reqs -> Nat]
      BY <1>8, BudgetTypes DEF FallbackFails, Fault
    <3> QED BY <1>8, <3>2, <3>3, <3>4 DEF FallbackFails, Goto
  <2>2. RequestKnown'
    BY <1>8 DEF FallbackFails, Goto, Answer
  <2>3. Bounded'
    BY <1>8, SaleTypes, RequestTypes, BudgetShrinks DEF FallbackFails, Goto, Fault, AtomicBuy
  <2> QED BY <2>1, <2>2, <2>3
<1> QED BY <1>1, <1>2, <1>3, <1>4, <1>5, <1>6, <1>7, <1>8

\* The steps of consumer_loop.
LEMMA ConsumerTypes ==
  ASSUME IInv, NEW p \in Procs,
         EnsureGroup(p) \/ EnsureFails(p) \/ StartRead(p) \/ Read(p) \/ ReadNothing(p)
         \/ ReadFails(p) \/ ReadNoGroup(p) \/ GatherDone(p)
  PROVE  TypeOK' /\ RequestKnown' /\ Bounded'
<1> USE DEF IInv, TypeOK, Budget, RequestKnown, Bounded, ledger, stream, handlers,
            consumers, environment, history
<1>1. CASE EnsureGroup(p)
  <2>1. TypeOK'
    BY <1>1 DEF EnsureGroup, GoOn
  <2>2. RequestKnown'
    BY <1>1 DEF EnsureGroup
  <2>3. Bounded'
    BY <1>1 DEF EnsureGroup
  <2> QED BY <2>1, <2>2, <2>3
<1>2. CASE EnsureFails(p)
  <2>1. TypeOK'
    BY <1>2, BudgetTypes DEF EnsureFails, CommandFails, Fault, RecordFailure
  <2>2. RequestKnown'
    BY <1>2 DEF EnsureFails
  <2>3. Bounded'
    BY <1>2, BudgetShrinks DEF EnsureFails, CommandFails, Fault
  <2> QED BY <2>1, <2>2, <2>3
<1>3. CASE StartRead(p)
  <2>1. TypeOK'
    BY <1>3 DEF StartRead, GoOn
  <2>2. RequestKnown'
    BY <1>3 DEF StartRead
  <2>3. Bounded'
    BY <1>3 DEF StartRead
  <2> QED BY <2>1, <2>2, <2>3
<1>4. CASE Read(p)
  <2>1. TypeOK'
    BY <1>4, DeliveredTypes DEF Read, GoOn, Deliver, Dispatch, RecordSuccess
  <2>2. RequestKnown'
    BY <1>4 DEF Read
  <2>3. Bounded'
    BY <1>4 DEF Read
  <2> QED BY <2>1, <2>2, <2>3
<1>5. CASE ReadNothing(p)
  <2>1. TypeOK'
    BY <1>5 DEF ReadNothing, GoOn, RecordSuccess
  <2>2. RequestKnown'
    BY <1>5 DEF ReadNothing
  <2>3. Bounded'
    BY <1>5 DEF ReadNothing
  <2> QED BY <2>1, <2>2, <2>3
<1>6. CASE ReadFails(p)
  <2>1. TypeOK'
    <3>1. backlog' \in Seq(Request) /\ pel' \subseteq Request /\ group' = group
      BY <1>6, DeliveredTypes DEF ReadFails, Deliver
    <3>2. budget' \in Budget /\ plan' \in [Reqs -> Nat]
      BY <1>6 DEF ReadFails, CommandFails, Fault
    <3>3. loop' \in [Procs -> {"ensure", "read", "reading", "gather"}]
      BY <1>6 DEF ReadFails, GoOn
    <3> QED BY <1>6, <3>1, <3>2, <3>3 DEF ReadFails, RecordFailure
  <2>2. RequestKnown'
    BY <1>6 DEF ReadFails
  <2>3. Bounded'
    BY <1>6, BudgetShrinks DEF ReadFails, CommandFails, Fault
  <2> QED BY <2>1, <2>2, <2>3
<1>7. CASE ReadNoGroup(p)
  <2>1. TypeOK'
    BY <1>7 DEF ReadNoGroup, GoOn
  <2>2. RequestKnown'
    BY <1>7 DEF ReadNoGroup
  <2>3. Bounded'
    BY <1>7 DEF ReadNoGroup
  <2> QED BY <2>1, <2>2, <2>3
<1>8. CASE GatherDone(p)
  <2>1. TypeOK'
    BY <1>8 DEF GatherDone, GoOn
  <2>2. RequestKnown'
    BY <1>8 DEF GatherDone
  <2>3. Bounded'
    BY <1>8 DEF GatherDone
  <2> QED BY <2>1, <2>2, <2>3
<1> QED BY <1>1, <1>2, <1>3, <1>4, <1>5, <1>6, <1>7, <1>8

\* The steps of _process_entry.
LEMMA TaskTypes ==
  ASSUME IInv, NEW p \in Procs, NEW k \in tasks[p],
         Sell(p, k) \/ SellFails(p, k) \/ Proceed(p, k) \/ CommandOfTaskFails(p, k)
  PROVE  TypeOK' /\ RequestKnown' /\ Bounded'
<1> USE DEF IInv, TypeOK, Budget, RequestKnown, Bounded, ledger, stream, handlers,
            consumers, environment, history
<1>1. CASE Sell(p, k)
  <2>1. TypeOK'
    <3>1. k \in Task /\ k.entry.req \in Reqs
      BY Constants, TaskTypesKept
    <3>2. sold_count' \in Nat /\ ticket_of' \in [Reqs -> Nat]
      BY <1>1, <3>1 DEF Sell, AtomicBuy
    <3>3. [k EXCEPT !.stage = "push", !.result = Outcome(k.entry.req)] \in Task
      BY <3>1, SaleTypes, TaskTypesKept
    <3>4. tasks' \in [Procs -> SUBSET Task]
      BY <1>1, <3>3 DEF Sell, Replace
    <3> QED BY <1>1, <3>2, <3>4 DEF Sell
  <2>2. RequestKnown'
    BY <1>1 DEF Sell
  <2>3. Bounded'
    BY <1>1, Constants, SaleTypes, TaskTypesKept DEF Sell, AtomicBuy
  <2> QED BY <2>1, <2>2, <2>3
<1>2. CASE SellFails(p, k)
  <2>1. TypeOK'
    <3>1. k \in Task /\ k.entry.req \in Reqs
      BY Constants, TaskTypesKept
    <3>2. sold_count' \in Nat /\ ticket_of' \in [Reqs -> Nat]
      BY <1>2, <3>1 DEF SellFails, AtomicBuy
    <3>3. [k EXCEPT !.stage = "push", !.result = Error] \in Task
      BY Constants, TaskTypesKept
    <3>4. tasks' \in [Procs -> SUBSET Task]
      BY <1>2, <3>3 DEF SellFails, Replace
    <3>5. budget' \in Budget /\ plan' \in [Reqs -> Nat]
      BY <1>2, BudgetTypes DEF SellFails, Fault
    <3> QED BY <1>2, <3>2, <3>4, <3>5 DEF SellFails
  <2>2. RequestKnown'
    BY <1>2 DEF SellFails
  <2>3. Bounded'
    BY <1>2, Constants, SaleTypes, TaskTypesKept, BudgetShrinks DEF SellFails, AtomicBuy, Fault
  <2> QED BY <2>1, <2>2, <2>3
<1>3. CASE Proceed(p, k)
  <2>1. TypeOK'
    <3>1. /\ k.entry.req \in Reqs /\ k.result \in Result
          /\ [k EXCEPT !.stage = "ack"] \in Task
      BY Constants, TaskTypesKept
    <3>2. Append(results[k.entry.req], k.result) \in Seq(Result)
      BY <3>1
    <3>3. results' \in [Reqs -> Seq(Result)] /\ pel' \subseteq Request
      BY <1>3, <3>1, <3>2, ZenonT(30) DEF Proceed, Command, Push, Ack
    <3>4. tasks' \in [Procs -> SUBSET Task]
      BY <1>3, <3>1 DEF Proceed, Replace
    <3> QED BY <1>3, <3>3, <3>4 DEF Proceed
  <2>2. RequestKnown'
    BY <1>3 DEF Proceed
  <2>3. Bounded'
    BY <1>3 DEF Proceed
  <2> QED BY <2>1, <2>2, <2>3
<1>4. CASE CommandOfTaskFails(p, k)
  <2>1. TypeOK'
    <3>1. k.entry.req \in Reqs /\ k.result \in Result
      BY Constants, TaskTypesKept
    <3>2. Append(results[k.entry.req], k.result) \in Seq(Result)
      BY <3>1
    <3>3. results' \in [Reqs -> Seq(Result)] /\ pel' \subseteq Request
      <4>1. CASE Command(k)
        BY <4>1, <3>1, <3>2, ZenonT(30) DEF Command, Push, Ack
      <4>2. CASE UNCHANGED <<pel, results>>
        BY <4>2
      <4> QED BY <1>4, <4>1, <4>2 DEF CommandOfTaskFails
    <3>4. tasks' \in [Procs -> SUBSET Task]
      BY <1>4 DEF CommandOfTaskFails, Replace
    <3>5. budget' \in Budget /\ plan' \in [Reqs -> Nat]
      BY <1>4 DEF CommandOfTaskFails, CommandFails, Fault
    <3>6. loop' \in [Procs -> {"ensure", "read", "reading", "gather"}]
               /\ batch' \in [Procs -> SUBSET Request] /\ circuit' \in [Procs -> {"open", "closed"}]
      BY <1>4 DEF CommandOfTaskFails, GoOn, RecordFailure
    <3> QED BY <1>4, <3>3, <3>4, <3>5, <3>6 DEF CommandOfTaskFails
  <2>2. RequestKnown'
    BY <1>4 DEF CommandOfTaskFails
  <2>3. Bounded'
    BY <1>4, BudgetShrinks DEF CommandOfTaskFails, CommandFails, Fault
  <2> QED BY <2>1, <2>2, <2>3
<1> QED BY <1>1, <1>2, <1>3, <1>4

\* The steps of POST /reset, crashes and the cooldown of the breaker.
LEMMA ResetTypes ==
  ASSUME IInv, NEW p \in Procs,
         SkipStream(p) \/ DeleteStream(p) \/ DeleteFails(p) \/ CreateGroup(p)
         \/ GroupExists(p) \/ CreateFails(p) \/ ResetTables(p) \/ Crash(p) \/ Cooldown(p)
  PROVE  TypeOK' /\ RequestKnown' /\ Bounded'
<1> USE DEF IInv, TypeOK, Budget, RequestKnown, Bounded, ledger, stream, handlers,
            consumers, environment, history
<1>1. CASE SkipStream(p)
  <2>1. TypeOK'
    BY <1>1 DEF SkipStream, GoReset
  <2>2. RequestKnown'
    BY <1>1 DEF SkipStream
  <2>3. Bounded'
    BY <1>1 DEF SkipStream
  <2> QED BY <2>1, <2>2, <2>3
<1>2. CASE DeleteStream(p)
  <2>1. TypeOK'
    <3>1. backlog' \in Seq(Request)
      BY <1>2 DEF DeleteStream, Delete
    <3> QED BY <1>2, <3>1 DEF DeleteStream, GoReset, Delete
  <2>2. RequestKnown'
    BY <1>2 DEF DeleteStream
  <2>3. Bounded'
    BY <1>2 DEF DeleteStream
  <2> QED BY <2>1, <2>2, <2>3
<1>3. CASE DeleteFails(p)
  <2>1. TypeOK'
    <3>1. backlog' \in Seq(Request) /\ pel' \subseteq Request /\ group' \in BOOLEAN
      <4>1. <<>> \in Seq(Request)
        OBVIOUS
      <4> QED BY <1>3, <4>1 DEF DeleteFails, Delete
    <3>2. budget' \in Budget /\ plan' \in [Reqs -> Nat]
      BY <1>3, BudgetTypes DEF DeleteFails, Fault
    <3> QED BY <1>3, <3>1, <3>2 DEF DeleteFails, GoReset, RecordFailure
  <2>2. RequestKnown'
    BY <1>3 DEF DeleteFails
  <2>3. Bounded'
    BY <1>3, BudgetShrinks DEF DeleteFails, Fault
  <2> QED BY <2>1, <2>2, <2>3
<1>4. CASE CreateGroup(p)
  <2>1. TypeOK'
    BY <1>4 DEF CreateGroup, GoReset, RecordSuccess
  <2>2. RequestKnown'
    BY <1>4 DEF CreateGroup
  <2>3. Bounded'
    BY <1>4 DEF CreateGroup
  <2> QED BY <2>1, <2>2, <2>3
<1>5. CASE GroupExists(p)
  <2>1. TypeOK'
    BY <1>5 DEF GroupExists, GoReset, RecordFailure
  <2>2. RequestKnown'
    BY <1>5 DEF GroupExists
  <2>3. Bounded'
    BY <1>5 DEF GroupExists
  <2> QED BY <2>1, <2>2, <2>3
<1>6. CASE CreateFails(p)
  <2>1. TypeOK'
    BY <1>6, BudgetTypes DEF CreateFails, GoReset, CommandFails, Fault, RecordFailure
  <2>2. RequestKnown'
    BY <1>6 DEF CreateFails
  <2>3. Bounded'
    BY <1>6, BudgetShrinks DEF CreateFails, CommandFails, Fault
  <2> QED BY <2>1, <2>2, <2>3
<1>7. CASE ResetTables(p)
  <2>1. TypeOK'
    BY <1>7, Constants, BudgetTypes DEF ResetTables, GoReset
  <2>2. RequestKnown'
    BY <1>7 DEF ResetTables
  <2>3. Bounded'
    <3>1. /\ budget.resets \in Nat /\ budget.resets <= MaxResets
          /\ budget'.resets = budget.resets - 1
      BY <1>7 DEF ResetTables
    <3>2. budget'.resets <= MaxResets /\ 0 <= Total
      BY <3>1, Constants
    <3> QED BY <1>7, <3>2 DEF ResetTables
  <2> QED BY <2>1, <2>2, <2>3
<1>8. CASE Crash(p)
  <2>1. TypeOK'
    BY <1>8, BudgetTypes DEF Crash, RecordSuccess
  <2>2. RequestKnown'
    BY <1>8 DEF Crash
  <2>3. Bounded'
    BY <1>8, BudgetShrinks DEF Crash
  <2> QED BY <2>1, <2>2, <2>3
<1>9. CASE Cooldown(p)
  <2>1. TypeOK'
    BY <1>9 DEF Cooldown, RecordSuccess
  <2>2. RequestKnown'
    BY <1>9 DEF Cooldown
  <2>3. Bounded'
    BY <1>9 DEF Cooldown
  <2> QED BY <2>1, <2>2, <2>3
<1> QED BY <1>1, <1>2, <1>3, <1>4, <1>5, <1>6, <1>7, <1>8, <1>9

\* A list whose time to live is over.
LEMMA ExpireTypes ==
  ASSUME IInv, NEW r \in Reqs, Expire(r)
  PROVE  TypeOK' /\ RequestKnown' /\ Bounded'
  BY DEF IInv, TypeOK, RequestKnown, Bounded, Expire, ledger, stream, handlers, consumers,
     environment, history

\* A buy arrives, and is let in or rejected.
LEMMA ClientTypes ==
  ASSUME IInv, NEW h \in Handlers, NEW r \in Reqs, Arrive(h, r) \/ Reject(h, r)
  PROVE  TypeOK' /\ RequestKnown' /\ Bounded'
<1>1. /\ plan[r] \in Nat /\ plan[r] <= Sends[r] /\ plan[r] > 0
      /\ plan' = [plan EXCEPT ![r] = @ - 1] /\ Limiter(ProcOf[h])
  BY DEF IInv, TypeOK, Bounded, Arrive, Reject
<1>2. plan' \in [Reqs -> Nat]
  BY <1>1 DEF IInv, TypeOK
<1>3. \A q \in Reqs : plan[q] \in Nat /\ plan'[q] \in {plan[q], plan[q] - 1}
  BY <1>1 DEF IInv, TypeOK
<1>4. \A q \in Reqs : plan'[q] <= Sends[q]
  <2>1. \A q \in Reqs : Sends[q] \in Nat /\ plan[q] <= Sends[q]
    BY Constants DEF IInv, Bounded
  <2> QED BY <1>3, <2>1
<1>5. /\ budget' \in Budget
      /\ budget'.faults <= MaxFaults /\ budget'.crashes <= MaxCrashes
      /\ budget'.resets <= MaxResets
  <2>1. \/ UNCHANGED budget
        \/ budget.faults > 0 /\ budget' = [budget EXCEPT !.faults = @ - 1]
    BY <1>1 DEF Limiter
  <2> QED BY <2>1, BudgetTypes, BudgetShrinks DEF IInv, TypeOK, Budget, Bounded
<1>6. circuit' \in [Procs -> {"open", "closed"}]
  <2>1. circuit' = circuit \/ circuit' = [circuit EXCEPT ![ProcOf[h]] = "open"]
    BY <1>1 DEF Limiter, RecordFailure
  <2> QED BY <2>1 DEF IInv, TypeOK
<1>7. CASE Arrive(h, r)
  <2>1. [req |-> r, copy |-> plan[r]] \in Request
    BY <1>1 DEF Request
  <2>2. /\ request' \in [Handlers -> Request \cup {NoRequest}]
        /\ pc' \in [Handlers -> {"idle", "admitted", "waiting", "fallback"}]
        /\ fresh' \subseteq Handlers
        /\ UNCHANGED <<ledger, stream, results, consumers, reset_pc, answers>>
    BY <1>7, <2>1 DEF IInv, TypeOK, Arrive, Goto
  <2>3. TypeOK'
    BY <1>2, <1>5, <1>6, <2>2 DEF IInv, TypeOK, Budget, ledger, stream, consumers
  <2>4. \A g \in Handlers : g # h => pc'[g] = pc[g] /\ request'[g] = request[g]
    BY <1>7 DEF Arrive, Goto
  <2>5. request'[h] \in Request
    BY <1>7, <2>1 DEF IInv, TypeOK, Arrive
  <2>6. RequestKnown'
    BY <2>4, <2>5 DEF IInv, RequestKnown
  <2>7. Bounded'
    BY <1>4, <1>5, <2>2 DEF IInv, Bounded, ledger
  <2> QED BY <2>3, <2>6, <2>7
<1>8. CASE Reject(h, r)
  <2>1. UNCHANGED <<ledger, stream, results, handlers, consumers, reset_pc, history>>
    BY <1>8 DEF Reject
  <2>2. TypeOK'
    BY <1>2, <1>5, <1>6, <2>1
    DEF IInv, TypeOK, Budget, ledger, stream, handlers, consumers, history
  <2>3. RequestKnown'
    BY <2>1 DEF IInv, RequestKnown, handlers
  <2>4. Bounded'
    BY <1>4, <1>5, <2>1 DEF IInv, Bounded, ledger
  <2> QED BY <2>2, <2>3, <2>4
<1> QED BY <1>7, <1>8

-----------------------------------------------------------------------------
(* What is told until the first reset                                      *)

\* The list of r is what it was, without its first elements.
Shifted(r) ==
    \E d \in {0, 1} : \A i \in DOMAIN results'[r] :
        /\ i \in Nat /\ i + d \in DOMAIN results[r]
        /\ results'[r][i] = results[r][i + d]

\* A list that is popped, expires or stays loses at most its head.
LEMMA ListShifted ==
  ASSUME IInv, NEW r \in Reqs,
         \/ results'[r] = results[r]
         \/ results'[r] = <<>>
         \/ results[r] # <<>> /\ results'[r] = Tail(results[r])
  PROVE  Shifted(r)
<1>1. results[r] \in Seq(Result)
  BY DEF IInv, TypeOK
<1>2. CASE results'[r] = results[r]
  <2>1. \A i \in DOMAIN results[r] : i \in Nat /\ i + 0 = i
    BY <1>1
  <2> QED BY <1>2, <2>1 DEF Shifted
<1>3. CASE results'[r] = <<>>
  <2>1. DOMAIN results'[r] = {}
    BY <1>3
  <2> QED BY <2>1 DEF Shifted
<1>4. CASE results[r] # <<>> /\ results'[r] = Tail(results[r])
  <2>1. \A i \in DOMAIN Tail(results[r]) :
            /\ i \in Nat /\ i + 1 \in DOMAIN results[r]
            /\ Tail(results[r])[i] = results[r][i + 1]
    BY <1>1
  <2> QED BY <1>4, <2>1 DEF Shifted
<1> QED BY <1>2, <1>3, <1>4

\* Where "success" only goes away, it remains at most once.
LEMMA SuccessShrinks ==
  ASSUME NEW r, OneSuccess(r), Shifted(r), Told(r)' \subseteq Told(r),
         \A p \in Procs : Pushing(p, r)' \subseteq Pushing(p, r)
  PROVE  OneSuccess(r)'
<1>1. PICK d \in {0, 1} : \A i \in DOMAIN results'[r] :
          i \in Nat /\ i + d \in DOMAIN results[r] /\ results'[r][i] = results[r][i + d]
  BY DEF Shifted
<1>2. \A i \in Listed(r)' : i \in Nat /\ i + d \in Listed(r)
  BY <1>1 DEF Listed
<1>3. \A i, j \in Listed(r)' : i = j
  <2> SUFFICES ASSUME NEW i \in Listed(r)', NEW j \in Listed(r)' PROVE i = j
    OBVIOUS
  <2>1. i + d = j + d
    BY <1>2 DEF OneSuccess
  <2> QED BY <1>2, <2>1
<1>4. Listed(r) = {} => Listed(r)' = {}
  BY <1>2
<1>5. NonePushing(r) => NonePushing(r)'
  BY DEF NonePushing
<1> QED BY <1>3, <1>4, <1>5 DEF OneSuccess

\* What was honest stays so when atomic_buy sells.
LEMMA HonestStays ==
  ASSUME IInv, NEW r \in Reqs, AtomicBuy(r) \/ UNCHANGED ledger,
         NEW x, NEW q \in Reqs, Honest(x, q)
  PROVE  Honest(x, q)'
<1>1. CASE UNCHANGED ledger
  BY <1>1 DEF Honest, ledger
<1>2. CASE AtomicBuy(r) /\ ~Available(r)
  BY <1>2 DEF AtomicBuy, Honest
<1>3. CASE AtomicBuy(r) /\ Available(r)
  <2>1. ticket_of[r] = NoTicket /\ sold_count # Total
    BY <1>3, TotalAssumption DEF Available
  <2>2. q # r => ticket_of'[q] = ticket_of[q]
    BY <1>3 DEF AtomicBuy
  <2> QED BY <2>1, <2>2 DEF Honest
<1> QED BY <1>1, <1>2, <1>3

\* What atomic_buy returns is honest.
LEMMA OutcomeHonest ==
  ASSUME IInv, NEW r \in Reqs, AtomicBuy(r), NEW x, x = Outcome(r)
  PROVE  Honest(x, r)' /\ (x.status = "success" => ticket_of[r] = NoTicket)
<1>1. /\ sold_count \in Nat
      /\ Total \in Nat
      /\ sold_count <= Total
      /\ ticket_of \in [Reqs -> Nat]
  BY TotalAssumption DEF IInv, TypeOK, Bounded
<1>2. CASE Available(r)
  <2>1. /\ x.status = "success" /\ x.ticket = sold_count + 1
        /\ ticket_of[r] = NoTicket /\ ticket_of' = [ticket_of EXCEPT ![r] = sold_count + 1]
    BY <1>2 DEF AtomicBuy, Outcome, Available
  <2>2. sold_count + 1 # NoTicket
    BY <1>1 DEF NoTicket
  <2> QED BY <1>1, <2>1, <2>2 DEF Honest
<1>3. CASE ~Available(r)
  <2>1. UNCHANGED ledger /\ x.ticket = ticket_of[r]
    BY <1>3 DEF AtomicBuy, Outcome, ledger
  <2>2. CASE ticket_of[r] # NoTicket
    <3>1. x.status = "already_processed"
      BY <2>2 DEF Outcome
    <3> QED BY <2>1, <2>2, <3>1 DEF Honest, ledger
  <2>3. CASE ticket_of[r] = NoTicket
    <3>1. x.status = "sold_out" /\ sold_count = Total
      BY <1>1, <1>3, <2>3 DEF Outcome, Available
    <3> QED BY <2>1, <2>3, <3>1 DEF Honest, ledger
  <2> QED BY <2>2, <2>3
<1> QED BY <1>2, <1>3

\* An error claims nothing.
LEMMA ErrorHonest ==
  ASSUME NEW r PROVE Honest(Error, r) /\ Honest(Error, r)' /\ Error.status = "error"
  BY DEF Error, Honest

\* A "success" that is told somewhere has a ticket on the ledger.
LEMMA NoTicketNoSuccess ==
  ASSUME IInv, budget.resets = MaxResets, NEW r \in Reqs, ticket_of[r] = NoTicket
  PROVE  NoSuccess(r)
<1> USE DEF IInv, UntilReset
<1>1. NonePushing(r)
  BY DEF NonePushing, Pushing, ResultsHonest, Honest
<1>2. Listed(r) = {}
  BY DEF Listed, ResultsHonest, Honest
<1>3. Told(r) = {}
  BY DEF Told, AnswersTruthful
<1> QED BY <1>1, <1>2, <1>3 DEF NoSuccess

-----------------------------------------------------------------------------
(* Steps that tell nobody anything                                         *)

NothingTold ==
    /\ UNCHANGED <<ledger, answers>> /\ budget'.resets = budget.resets
    /\ \A r \in Reqs : Shifted(r)
    /\ \A p \in Procs : \A k \in tasks'[p] : k.stage = "push" => k \in tasks[p]

\* A step that tells nobody anything keeps what holds until the first reset.
LEMMA NothingToldStep ==
  ASSUME IInv, NothingTold PROVE UntilReset'
<1> SUFFICES ASSUME budget.resets = MaxResets
             PROVE  ResultsHonest' /\ AnswersTruthful' /\ \A r \in Reqs : OneSuccess(r)'
  BY DEF UntilReset, NothingTold
<1>1. ResultsHonest /\ AnswersTruthful /\ \A r \in Reqs : OneSuccess(r)
  BY DEF IInv, UntilReset
<1>2. UNCHANGED <<sold_count, ticket_of, answers>>
  BY DEF NothingTold, ledger
<1>3. ASSUME NEW r \in Reqs, NEW i \in DOMAIN results'[r] PROVE Honest(results'[r][i], r)
  <2>1. \E j \in DOMAIN results[r] : results'[r][i] = results[r][j]
    BY DEF NothingTold, Shifted
  <2> QED BY <1>1, <2>1 DEF ResultsHonest
<1>4. ASSUME NEW p \in Procs, NEW k \in tasks'[p], k.stage = "push"
      PROVE  Honest(k.result, k.entry.req)
  BY <1>1, <1>4 DEF NothingTold, ResultsHonest
<1>5. ResultsHonest'
  BY <1>2, <1>3, <1>4 DEF ResultsHonest, Honest
<1>6. AnswersTruthful'
  BY <1>1, <1>2 DEF AnswersTruthful
<1>7. ASSUME NEW r \in Reqs PROVE OneSuccess(r)'
  <2>1. Told(r)' = Told(r) /\ \A p \in Procs : Pushing(p, r)' \subseteq Pushing(p, r)
    BY DEF Told, Pushing, NothingTold
  <2>2. OneSuccess(r) /\ Shifted(r)
    BY <1>1 DEF NothingTold
  <2> QED BY <2>1, <2>2, SuccessShrinks
<1> QED BY <1>5, <1>6, <1>7

\* Such steps are: a handler on its way into the queue or out of its wait, ...
LEMMA HandlersTellNothing ==
  ASSUME IInv, NEW h \in Handlers,
         SkipQueue(h) \/ Enqueue(h) \/ EnqueueFails(h) \/ TimeOut(h) \/ WaitFails(h)
  PROVE  NothingTold
<1>1. UNCHANGED <<ledger, answers, tasks>>
  BY DEF SkipQueue, Enqueue, EnqueueFails, TimeOut, WaitFails, consumers, history
<1>2. budget'.resets = budget.resets
  BY BudgetTypes
  DEF SkipQueue, Enqueue, EnqueueFails, TimeOut, WaitFails, CommandFails, Fault, environment
<1>3. \A r \in Reqs :
          \/ results'[r] = results[r]
          \/ results[r] # <<>> /\ results'[r] = Tail(results[r])
  <2>1. results' = results \/ Pop(request[h].req)
    BY DEF SkipQueue, Enqueue, EnqueueFails, TimeOut, WaitFails
  <2>2. results \in [Reqs -> Seq(Result)]
    BY DEF IInv, TypeOK
  <2> QED BY <2>1, <2>2 DEF Pop
<1> QED BY <1>1, <1>2, <1>3, ListShifted DEF NothingTold

\* ... a consumer that reads, ...
LEMMA ConsumersTellNothing ==
  ASSUME IInv, NEW p \in Procs, ConsumerStep(p) PROVE NothingTold
<1> USE DEF ConsumerStep, EnsureGroup, EnsureFails, StartRead, Read, ReadNothing, ReadFails,
            ReadNoGroup, GatherDone
<1>1. UNCHANGED <<ledger, answers, results>>
  BY DEF history
<1>2. budget'.resets = budget.resets
  BY BudgetTypes DEF CommandFails, Fault, environment
<1>3. \A q \in Procs : \A k \in tasks'[q] : k.stage = "push" => k \in tasks[q]
  <2>1. UNCHANGED tasks \/ Dispatch(p)
    BY DEF consumers
  <2>2. CASE Dispatch(p)
    <3>1. \A e : NewTask(e).stage # "push"
      BY DEF NewTask
    <3>2. \A q \in Procs : \A k \in tasks'[q] : k \in tasks[q] \/ \E e : k = NewTask(e)
      BY <2>2 DEF Dispatch
    <3> QED BY <3>1, <3>2
  <2> QED BY <2>1, <2>2
<1> QED BY <1>1, <1>2, <1>3, ListShifted DEF NothingTold

\* ... a reset behind its transaction, a crash, the end of the cooldown, ...
LEMMA ResetsTellNothing ==
  ASSUME IInv, NEW p \in Procs, ResetStep(p) \/ Cooldown(p) \/ Crash(p) PROVE NothingTold
<1> USE DEF ResetStep, SkipStream, DeleteStream, DeleteFails, CreateGroup, GroupExists,
            CreateFails, Cooldown, Crash
<1>1. UNCHANGED <<ledger, answers, results>>
  BY DEF history
<1>2. budget'.resets = budget.resets
  <2>1. CASE ResetStep(p) \/ Cooldown(p)
    BY <2>1, BudgetTypes DEF CommandFails, Fault, environment
  <2>2. CASE Crash(p)
    BY <2>2
  <2> QED BY <2>1, <2>2
<1>3. \A q \in Procs : \A k \in tasks'[q] : k.stage = "push" => k \in tasks[q]
  BY ZenonT(30) DEF IInv, TypeOK, consumers
<1> QED BY <1>1, <1>2, <1>3, ListShifted DEF NothingTold

\* ... a buy that arrives, a list that expires.
LEMMA ClientsTellNothing ==
  ASSUME IInv, NEW h \in Handlers, NEW r \in Reqs, Arrive(h, r) \/ Reject(h, r) \/ Expire(r)
  PROVE  NothingTold
<1>1. UNCHANGED <<ledger, answers, tasks>>
  BY DEF Arrive, Reject, Expire, consumers, history
<1>2. budget'.resets = budget.resets
  BY BudgetTypes DEF Arrive, Reject, Expire, Limiter, environment
<1>3. \A q \in Reqs : results'[q] = results[q] \/ results'[q] = <<>>
  BY DEF IInv, TypeOK, Arrive, Reject, Expire
<1> QED BY <1>1, <1>2, <1>3, ListShifted DEF NothingTold

-----------------------------------------------------------------------------
(* Steps that tell a result                                                *)

\* The buy of a handler is answered with x.
LEMMA TellStep ==
  ASSUME IInv, budget.resets = MaxResets,
         NEW e, NEW x, e.req \in Reqs,
         answers' \subseteq answers \cup {[request |-> e, result |-> x]},
         UNCHANGED tasks, \A q \in Reqs : Shifted(q),
         \A y : \A q \in Reqs : Honest(y, q) => Honest(y, q)',
         Honest(x, e.req)',
         x.status = "success" =>
             NonePushing(e.req) /\ Told(e.req) = {} /\ Listed(e.req)' = {}
  PROVE  UntilReset'
<1> DEFINE r == e.req
           a == [request |-> e, result |-> x]
<1>1. ResultsHonest /\ AnswersTruthful /\ \A q \in Reqs : OneSuccess(q)
  BY DEF IInv, UntilReset
<1>2. ResultsHonest'
  <2>1. ASSUME NEW q \in Reqs, NEW i \in DOMAIN results'[q]
        PROVE  \E j \in DOMAIN results[q] :
                   results'[q][i] = results[q][j] /\ Honest(results[q][j], q)
    BY <1>1 DEF Shifted, ResultsHonest
  <2>2. ASSUME NEW q \in Reqs, NEW i, i \in DOMAIN results'[q], NEW y, y = results'[q][i]
        PROVE  Honest(y, q)'
    BY <2>1, <2>2
  <2>3. ASSUME NEW p \in Procs, NEW k \in tasks'[p], k.stage = "push"
        PROVE  Honest(k.result, k.entry.req)'
    <3>1. k \in tasks[p] /\ k.entry.req \in Reqs
      BY RequestTypes DEF IInv, TypeOK, Task
    <3> QED BY <1>1, <2>3, <3>1 DEF ResultsHonest
  <2> QED BY <2>2, <2>3 DEF ResultsHonest
<1>3. AnswersTruthful'
  <2>1. ASSUME NEW b \in answers' PROVE Honest(b.result, b.request.req)'
    <3>1. CASE b \in answers
      <4>1. Honest(b.result, b.request.req) /\ b.request.req \in Reqs
        BY <1>1, <3>1, RequestTypes DEF AnswersTruthful, Honest, IInv, TypeOK
      <4> QED BY <4>1
    <3>2. CASE b = a
      BY <3>2
    <3> QED BY <3>1, <3>2
  <2> QED BY <2>1 DEF AnswersTruthful, Honest
<1>4. ASSUME NEW q \in Reqs PROVE OneSuccess(q)'
  <2>1. \A p \in Procs : Pushing(p, q)' = Pushing(p, q)
    BY DEF Pushing
  <2>2. CASE q # r \/ x.status # "success"
    <3>1. Told(q)' \subseteq Told(q)
      BY <2>2 DEF Told
    <3> QED BY <1>1, <2>1, <3>1, SuccessShrinks
  <2>3. CASE q = r /\ x.status = "success"
    <3>1. NonePushing(q)' /\ Listed(q)' = {}
      BY <2>1, <2>3 DEF NonePushing
    <3>2. \A b, c \in Told(q)' : b = c
      BY <2>3 DEF Told
    <3>3. \A p, s \in Procs : \A k \in Pushing(p, q)' : \A l \in Pushing(s, q)' : p = s /\ k = l
      BY <3>1 DEF NonePushing
    <3> QED BY <3>1, <3>2, <3>3 DEF OneSuccess
  <2> QED BY <2>2, <2>3
<1> QED BY <1>2, <1>3, <1>4 DEF UntilReset

\* A handler takes a result from its list.
LEMMA PopStep ==
  ASSUME IInv, budget.resets = MaxResets, NEW h \in Handlers, PopResult(h)
  PROVE  UntilReset'
<1>1. PICK e, r, x : e = request[h] /\ r = e.req /\ x = Head(results[r])
  OBVIOUS
<1>2. r \in Reqs
  BY <1>1, RequestTypes DEF IInv, RequestKnown, PopResult, Goto
<1>3. /\ results[r] # <<>> /\ results' = [results EXCEPT ![r] = Tail(@)]
      /\ answers' \subseteq answers \cup {[request |-> e, result |-> x]}
      /\ UNCHANGED <<ledger, tasks>>
  BY <1>1 DEF PopResult, Pop, Answer, consumers
<1>4. results[r] \in Seq(Result) /\ 1 \in DOMAIN results[r] /\ x = results[r][1]
  BY <1>1, <1>2, <1>3 DEF IInv, TypeOK
<1>5. \A q \in Reqs : Shifted(q)
  BY <1>3, ListShifted
<1>6. \A y : \A q \in Reqs : Honest(y, q) => Honest(y, q)'
  BY <1>3 DEF Honest, ledger
<1>7. Honest(x, r)'
  BY <1>2, <1>4, <1>6 DEF IInv, UntilReset, ResultsHonest
<1>8. x.status = "success" => NonePushing(r) /\ Told(r) = {} /\ Listed(r)' = {}
  <2> SUFFICES ASSUME x.status = "success"
               PROVE  NonePushing(r) /\ Told(r) = {} /\ Listed(r)' = {}
    OBVIOUS
  <2>1. 1 \in Listed(r) /\ OneSuccess(r)
    BY <1>2, <1>4 DEF Listed, IInv, UntilReset
  <2>2. \A i \in DOMAIN Tail(results[r]) :
            /\ i \in Nat /\ i # 0 /\ i + 1 \in DOMAIN results[r]
            /\ Tail(results[r])[i] = results[r][i + 1]
    BY <1>4
  <2>3. results'[r] = Tail(results[r])
    BY <1>2, <1>3 DEF IInv, TypeOK
  <2>4. ASSUME NEW i \in Listed(r)' PROVE FALSE
    <3>1. i + 1 \in Listed(r) /\ i \in Nat /\ i # 0
      BY <2>2, <2>3 DEF Listed
    <3>2. i + 1 = 1
      BY <2>1, <3>1 DEF OneSuccess
    <3> QED BY <3>1, <3>2
  <2> QED BY <2>1, <2>4 DEF OneSuccess
<1> QED BY <1>1, <1>2, <1>3, <1>5, <1>6, <1>7, <1>8, TellStep

\* A handler buys past the queue.
LEMMA FallbackStep ==
  ASSUME IInv, budget.resets = MaxResets, NEW h \in Handlers,
         Fallback(h) \/ FallbackFails(h)
  PROVE  UntilReset'
<1>1. PICK e, r : e = request[h] /\ r = e.req
  OBVIOUS
<1>2. r \in Reqs
  BY <1>1, RequestTypes DEF IInv, RequestKnown, Fallback, FallbackFails, Goto
<1>3. PICK x : /\ answers' \subseteq answers \cup {[request |-> e, result |-> x]}
               /\ \/ x = Outcome(r) /\ AtomicBuy(r)
                  \/ x = Error /\ (AtomicBuy(r) \/ UNCHANGED ledger)
  BY <1>1 DEF Fallback, FallbackFails, Answer
<1>4. UNCHANGED <<tasks, results>>
  BY DEF Fallback, FallbackFails, consumers
<1>5. \A q \in Reqs : Shifted(q)
  BY <1>4, ListShifted
<1>6. Listed(r)' = Listed(r)
  BY <1>4 DEF Listed
<1>7. \A y : \A q \in Reqs : Honest(y, q) => Honest(y, q)'
  BY <1>2, <1>3, HonestStays
<1>8. Honest(x, r)' /\ (x.status = "success" => ticket_of[r] = NoTicket)
  <2>1. CASE x = Outcome(r) /\ AtomicBuy(r)
    BY <1>2, <2>1, OutcomeHonest
  <2>2. CASE x = Error
    BY <2>2, ErrorHonest
  <2> QED BY <1>3, <2>1, <2>2
<1>9. x.status = "success" => NonePushing(r) /\ Told(r) = {} /\ Listed(r)' = {}
  BY <1>2, <1>6, <1>8, NoTicketNoSuccess DEF NoSuccess
<1> QED BY <1>1, <1>2, <1>3, <1>4, <1>5, <1>7, <1>8, <1>9, TellStep

\* atomic_buy of a consumer's task ends with the result x.
LEMMA SaleStep ==
  ASSUME IInv, budget.resets = MaxResets, NEW p \in Procs, NEW k \in tasks[p],
         Sell(p, k) \/ SellFails(p, k)
  PROVE  UntilReset'
<1>1. PICK r : r = k.entry.req
  OBVIOUS
<1>2. k \in Task /\ r \in Reqs
  BY <1>1, RequestTypes DEF IInv, TypeOK, Task
<1>3. PICK x \in Result :
          /\ tasks' = [tasks EXCEPT ![p] =
                           (@ \ {k}) \cup {[k EXCEPT !.stage = "push", !.result = x]}]
          /\ \/ x = Outcome(r) /\ AtomicBuy(r)
             \/ x = Error /\ (AtomicBuy(r) \/ UNCHANGED ledger)
  BY <1>1, <1>2, SaleTypes, Constants DEF Sell, SellFails, Replace
<1>4. PICK new : new = [k EXCEPT !.stage = "push", !.result = x]
  OBVIOUS
<1>5. new.result = x /\ new.entry = k.entry
  BY <1>4
<1>6. /\ \A q \in Procs : q # p => tasks'[q] = tasks[q]
      /\ tasks'[p] \subseteq tasks[p] \cup {new}
  BY <1>3, <1>4
<1>7. UNCHANGED <<results, answers>>
  BY DEF Sell, SellFails, history
<1>8. \A y : \A q \in Reqs : Honest(y, q) => Honest(y, q)'
  BY <1>2, <1>3, HonestStays
<1>9. Honest(x, r)' /\ (x.status = "success" => ticket_of[r] = NoTicket)
  <2>1. CASE x = Outcome(r) /\ AtomicBuy(r)
    BY <1>2, <2>1, OutcomeHonest
  <2>2. CASE x = Error
    BY <2>2, ErrorHonest
  <2> QED BY <1>3, <2>1, <2>2
<1>10. ResultsHonest /\ AnswersTruthful /\ \A q \in Reqs : OneSuccess(q)
  BY DEF IInv, UntilReset
<1>11. ResultsHonest'
  <2>1. ASSUME NEW q \in Procs, NEW l \in tasks'[q], l.stage = "push"
        PROVE  Honest(l.result, l.entry.req)'
    <3>1. CASE l \in tasks[q]
      <4>1. Honest(l.result, l.entry.req) /\ l.entry.req \in Reqs
        BY <1>10, <2>1, <3>1, RequestTypes DEF ResultsHonest, IInv, TypeOK, Task
      <4> QED BY <1>8, <4>1
    <3>2. CASE l = new
      BY <1>1, <1>5, <1>9, <3>2
    <3> QED BY <1>6, <3>1, <3>2
  <2>2. \A q \in Reqs : \A i \in DOMAIN results[q] : Honest(results[q][i], q)
    BY <1>10 DEF ResultsHonest
  <2>3. \A q \in Reqs : \A i \in DOMAIN results[q] : \A y :
            y = results[q][i] => Honest(y, q)'
    BY <1>8, <2>2
  <2> QED BY <1>7, <2>1, <2>3 DEF ResultsHonest
<1>12. AnswersTruthful'
  <2>1. ASSUME NEW b \in answers PROVE Honest(b.result, b.request.req)'
    BY <1>8, <1>10, RequestTypes DEF AnswersTruthful, Honest, IInv, TypeOK
  <2> QED BY <1>7, <2>1 DEF AnswersTruthful, Honest
<1>13. ASSUME NEW q \in Reqs PROVE OneSuccess(q)'
  <2>1. Told(q)' = Told(q) /\ Listed(q)' = Listed(q) /\ Shifted(q)
    BY <1>7, ListShifted DEF Told, Listed
  <2>2. CASE q # r \/ x.status # "success"
    <3>1. \A s \in Procs : Pushing(s, q)' \subseteq Pushing(s, q)
      BY <1>1, <1>5, <1>6, <2>2 DEF Pushing
    <3> QED BY <1>10, <2>1, <3>1, SuccessShrinks
  <2>3. CASE q = r /\ x.status = "success"
    <3>1. NoSuccess(q)
      BY <1>9, <2>3, NoTicketNoSuccess
    <3>2. \A s \in Procs : \A l \in Pushing(s, q)' : s = p /\ l = new
      BY <1>6, <3>1 DEF NoSuccess, NonePushing, Pushing
    <3> QED BY <2>1, <3>1, <3>2 DEF NoSuccess, OneSuccess
  <2> QED BY <2>2, <2>3
<1> QED BY <1>11, <1>12, <1>13 DEF UntilReset

\* The result of a consumer's task is pushed.
LEMMA PushStep ==
  ASSUME IInv, budget.resets = MaxResets, NEW p \in Procs, NEW k \in tasks[p], Push(k),
         NEW next, next \subseteq Task, \A l \in next : l.stage # "push",
         tasks' = [tasks EXCEPT ![p] = (@ \ {k}) \cup next],
         UNCHANGED <<ledger, answers>>
  PROVE  UntilReset'
<1>1. PICK r, x : r = k.entry.req /\ x = k.result
  OBVIOUS
<1>2. k \in Task /\ r \in Reqs /\ x \in Result
  BY <1>1, RequestTypes DEF IInv, TypeOK, Task
<1>3. results' = [results EXCEPT ![r] = Append(@, x)] /\ k.stage = "push"
  BY <1>1 DEF Push
<1>4. results[r] \in Seq(Result) /\ results'[r] = Append(results[r], x)
      /\ \A q \in Reqs : q # r => results'[q] = results[q]
  BY <1>2, <1>3 DEF IInv, TypeOK
<1>5. /\ DOMAIN results'[r] = DOMAIN results[r] \cup {Len(results[r]) + 1}
      /\ Len(results[r]) + 1 \notin DOMAIN results[r]
      /\ results'[r][Len(results[r]) + 1] = x
      /\ \A i \in DOMAIN results[r] : results'[r][i] = results[r][i]
  BY <1>4
<1>6. /\ \A q \in Procs : q # p => tasks'[q] = tasks[q]
      /\ tasks'[p] = (tasks[p] \ {k}) \cup next
  BY DEF IInv, TypeOK
<1>7. \A q \in Procs : \A l \in tasks'[q] :
          l.stage = "push" => l \in tasks[q] /\ (q = p => l # k)
  BY <1>6
<1>8. ResultsHonest /\ AnswersTruthful /\ \A q \in Reqs : OneSuccess(q)
  BY DEF IInv, UntilReset
<1>9. Honest(x, r)
  BY <1>1, <1>3, <1>8 DEF ResultsHonest
<1>10. ResultsHonest'
  <2>1. ASSUME NEW q \in Reqs, NEW i \in DOMAIN results'[q] PROVE Honest(results'[q][i], q)
    <3>1. CASE q # r
      BY <1>4, <1>8, <3>1 DEF ResultsHonest
    <3>2. CASE q = r
      BY <1>5, <1>8, <1>9, <3>2 DEF ResultsHonest
    <3> QED BY <3>1, <3>2
  <2>2. ASSUME NEW q \in Procs, NEW l \in tasks'[q], l.stage = "push"
        PROVE  Honest(l.result, l.entry.req)
    BY <1>8, <2>2 DEF ResultsHonest
  <2> QED BY <2>1, <2>2 DEF ResultsHonest, Honest, ledger
<1>11. AnswersTruthful'
  BY <1>8 DEF AnswersTruthful, ledger
<1>12. ASSUME NEW q \in Reqs PROVE OneSuccess(q)'
  <2>1. Told(q)' = Told(q) /\ \A s \in Procs : Pushing(s, q)' \subseteq Pushing(s, q)
    BY DEF Told, Pushing
  <2>2. CASE q # r
    <3>1. Shifted(q)
      BY <1>4, <2>2, ListShifted
    <3> QED BY <1>8, <2>1, <3>1, SuccessShrinks
  <2>3. CASE q = r /\ x.status # "success"
    <3>1. Listed(q)' = Listed(q)
      BY <1>5, <2>3 DEF Listed
    <3>2. NonePushing(q) => NonePushing(q)'
      BY <2>1 DEF NonePushing
    <3> QED BY <1>8, <2>1, <3>1, <3>2 DEF OneSuccess
  <2>4. CASE q = r /\ x.status = "success"
    <3>1. k \in Pushing(p, q) /\ OneSuccess(q)
      BY <1>1, <1>3, <1>8, <2>4 DEF Pushing
    <3>2. Listed(q) = {} /\ Told(q) = {}
      BY <3>1 DEF OneSuccess, NonePushing
    <3>3. \A s \in Procs : \A l \in Pushing(s, q)' : FALSE
      BY <1>7, <3>1 DEF Pushing, OneSuccess
    <3>4. Listed(q)' = {Len(results[q]) + 1}
      BY <1>5, <2>4, <3>2 DEF Listed
    <3> QED BY <2>1, <3>2, <3>3, <3>4 DEF OneSuccess, NonePushing
  <2> QED BY <2>2, <2>3, <2>4
<1> QED BY <1>10, <1>11, <1>12 DEF UntilReset

\* Every step of a task is a sale, a push, or says nothing.
LEMMA TaskUntilReset ==
  ASSUME IInv, budget.resets = MaxResets, NEW p \in Procs, TaskStep(p) PROVE UntilReset'
<1>1. PICK k \in tasks[p] :
          Sell(p, k) \/ SellFails(p, k) \/ Proceed(p, k) \/ CommandOfTaskFails(p, k)
  BY DEF TaskStep
<1>2. k \in Task
  BY DEF IInv, TypeOK
<1>3. CASE Sell(p, k) \/ SellFails(p, k)
  BY <1>3, SaleStep
<1>4. CASE Proceed(p, k) \/ CommandOfTaskFails(p, k)
  <2>1. /\ UNCHANGED <<ledger, answers>>
        /\ Push(k) \/ Ack(k) \/ UNCHANGED <<pel, results>>
    BY <1>4 DEF Proceed, CommandOfTaskFails, Command, history
  <2>2. budget'.resets = budget.resets
    BY <1>4, BudgetTypes DEF Proceed, CommandOfTaskFails, CommandFails, Fault, environment
  <2>3. PICK next \in {{}, {[k EXCEPT !.stage = "ack"]}} :
            tasks' = [tasks EXCEPT ![p] = (@ \ {k}) \cup next]
    BY <1>4 DEF Proceed, CommandOfTaskFails, Replace
  <2>4. next \subseteq Task /\ \A l \in next : l.stage # "push"
    BY <1>2 DEF Task
  <2>5. CASE Push(k)
    BY <2>1, <2>3, <2>4, <2>5, PushStep
  <2>6. CASE Ack(k) \/ UNCHANGED <<pel, results>>
    <3>1. \A q \in Reqs : Shifted(q)
      BY <2>6, ListShifted DEF Ack
    <3>2. \A q \in Procs : \A l \in tasks'[q] : l.stage = "push" => l \in tasks[q]
      BY <2>3, <2>4
    <3>3. NothingTold
      BY <2>1, <2>2, <3>1, <3>2 DEF NothingTold
    <3> QED BY <3>3, NothingToldStep
  <2> QED BY <2>1, <2>5, <2>6
<1> QED BY <1>1, <1>3, <1>4

\* After a reset nothing is claimed.
LEMMA ResetTablesStep ==
  ASSUME IInv, NEW p \in Procs, ResetTables(p) PROVE UntilReset'
<1>1. /\ budget.resets \in Nat /\ budget.resets <= MaxResets
      /\ budget'.resets = budget.resets - 1
  BY DEF IInv, TypeOK, Bounded, ResetTables
<1>2. budget'.resets # MaxResets
  BY <1>1
<1> QED BY <1>2 DEF UntilReset

-----------------------------------------------------------------------------
(* While nothing fails                                                     *)

\* Nothing but faults, crashes and resets is counted, and they show.
LEMMA BudgetStep ==
  ASSUME IInv, Next PROVE UNCHANGED budget \/ Disturbed'
<1>1. Fault => Disturbed'
  BY BudgetShrinks DEF Fault, Disturbed
<1>2. ASSUME NEW h \in Handlers, HandlerStep(h) PROVE UNCHANGED budget \/ Fault
  BY <1>2
  DEF HandlerStep, SkipQueue, Enqueue, EnqueueFails, PopResult, TimeOut, WaitFails, Fallback,
      FallbackFails, CommandFails, environment
<1>3. ASSUME NEW h \in Handlers, NEW r \in Reqs, Arrive(h, r) \/ Reject(h, r)
      PROVE  UNCHANGED budget \/ Disturbed'
  <2>1. \/ UNCHANGED budget
        \/ budget.faults > 0 /\ budget' = [budget EXCEPT !.faults = @ - 1]
    BY <1>3 DEF Arrive, Reject, Limiter
  <2> QED BY <2>1, BudgetShrinks DEF Disturbed
<1>4. ASSUME NEW p \in Procs, ConsumerStep(p) PROVE UNCHANGED budget \/ Fault
  BY <1>4
  DEF ConsumerStep, EnsureGroup, EnsureFails, StartRead, Read, ReadNothing, ReadFails,
      ReadNoGroup, GatherDone, CommandFails, environment
<1>5. ASSUME NEW p \in Procs, TaskStep(p) PROVE UNCHANGED budget \/ Fault
  BY <1>5
  DEF TaskStep, Sell, SellFails, Proceed, CommandOfTaskFails, CommandFails, environment
<1>6. ASSUME NEW p \in Procs, ResetStep(p) \/ Cooldown(p) PROVE UNCHANGED budget \/ Fault
  BY <1>6
  DEF ResetStep, SkipStream, DeleteStream, DeleteFails, CreateGroup, GroupExists, CreateFails,
      Cooldown, CommandFails, environment
<1>7. ASSUME NEW p \in Procs, ResetTables(p) \/ Crash(p) PROVE Disturbed'
  <2>1. \/ budget.crashes > 0 /\ budget' = [budget EXCEPT !.crashes = @ - 1]
        \/ budget.resets > 0 /\ budget' = [budget EXCEPT !.resets = @ - 1]
    BY <1>7 DEF ResetTables, Crash
  <2> QED BY <2>1, BudgetShrinks DEF Disturbed
<1>8. ASSUME NEW r \in Reqs, Expire(r) PROVE UNCHANGED budget
  BY <1>8 DEF Expire, environment
<1>9. CASE Finished
  BY <1>9 DEF Finished, vars, environment
<1> QED BY <1>1, <1>2, <1>3, <1>4, <1>5, <1>6, <1>7, <1>8, <1>9 DEF Next

\* The steps that are left while nothing fails.
LEMMA CalmStep ==
  ASSUME IInv, Next, ~Disturbed'
  PROVE  /\ ~Disturbed
         /\ \/ \E h \in Handlers : Enqueue(h) \/ PopResult(h) \/ TimeOut(h) \/ Fallback(h)
            \/ \E h \in Handlers : \E r \in Reqs :
                   (Arrive(h, r) \/ Reject(h, r)) /\ UNCHANGED circuit
            \/ \E p \in Procs : ConsumerStep(p) /\ ~CommandFails(p)
            \/ \E p \in Procs : \E k \in tasks[p] : Sell(p, k) \/ Proceed(p, k)
            \/ \E r \in Reqs : Expire(r)
            \/ Finished
<1>1. UNCHANGED budget /\ ~Disturbed
  BY BudgetStep DEF Disturbed
<1>2. \A p \in Procs : circuit[p] = "closed" /\ reset_pc[p] = "idle"
  BY <1>1 DEF IInv, Calm
<1>3. ~Fault
  BY BudgetShrinks DEF Fault, Disturbed
<1>4. \A p \in Procs : ~CommandFails(p)
  BY <1>2, <1>3 DEF CommandFails
<1>5. ASSUME NEW h \in Handlers, HandlerStep(h)
      PROVE  Enqueue(h) \/ PopResult(h) \/ TimeOut(h) \/ Fallback(h)
  <2>1. ProcOf[h] \in Procs
    BY ProcAssumption
  <2> QED BY <1>2, <1>3, <1>4, <1>5, <2>1
      DEF HandlerStep, SkipQueue, EnqueueFails, WaitFails, FallbackFails
<1>6. ASSUME NEW h \in Handlers, NEW r \in Reqs, Arrive(h, r) \/ Reject(h, r)
      PROVE  UNCHANGED circuit
  <2>1. ~(budget.faults > 0 /\ budget' = [budget EXCEPT !.faults = @ - 1])
    BY BudgetShrinks DEF Disturbed
  <2> QED BY <1>6, <2>1 DEF Arrive, Reject, Limiter
<1>7. ASSUME NEW p \in Procs, TaskStep(p)
      PROVE  \E k \in tasks[p] : Sell(p, k) \/ Proceed(p, k)
  BY <1>3, <1>4, <1>7 DEF TaskStep, SellFails, CommandOfTaskFails
<1>8. ASSUME NEW p \in Procs, ResetStep(p) \/ Cooldown(p) PROVE FALSE
  BY <1>2, <1>8
  DEF ResetStep, SkipStream, DeleteStream, DeleteFails, CreateGroup, GroupExists, CreateFails,
      GoReset, Cooldown
<1>9. ASSUME NEW p \in Procs, ResetTables(p) \/ Crash(p) PROVE FALSE
  <2>1. \/ budget.crashes > 0 /\ budget' = [budget EXCEPT !.crashes = @ - 1]
        \/ budget.resets > 0 /\ budget' = [budget EXCEPT !.resets = @ - 1]
    BY <1>9 DEF ResetTables, Crash
  <2> QED BY <2>1, BudgetShrinks DEF Disturbed
<1> QED BY <1>1, <1>4, <1>5, <1>6, <1>7, <1>8, <1>9 DEF Next

\* Then Redis goes on being believed up, and every answer counts.
LEMMA NextCalm ==
  ASSUME IInv, [Next]_vars PROVE Calm'
<1> SUFFICES ASSUME ~Disturbed'
             PROVE  /\ \A p \in Procs : circuit'[p] = "closed" /\ reset_pc'[p] = "idle"
                    /\ \A h \in Handlers : pc'[h] # "idle" => h \in fresh'
  BY DEF Calm
<1>1. CASE UNCHANGED vars
  BY <1>1 DEF IInv, Calm, Disturbed, vars, environment, handlers, history
<1>2. CASE Next
  <2>1. /\ \A p \in Procs : circuit[p] = "closed" /\ reset_pc[p] = "idle"
        /\ \A h \in Handlers : pc[h] # "idle" => h \in fresh
    BY <1>2, CalmStep DEF IInv, Calm
  <2>2. /\ circuit \in [Procs -> {"open", "closed"}]
        /\ pc \in [Handlers -> {"idle", "admitted", "waiting", "fallback"}]
    BY DEF IInv, TypeOK
  <2>3. ASSUME NEW h \in Handlers, Enqueue(h) \/ PopResult(h) \/ TimeOut(h) \/ Fallback(h)
        PROVE  /\ \A p \in Procs : circuit'[p] = "closed" /\ reset_pc'[p] = "idle"
               /\ \A g \in Handlers : pc'[g] # "idle" => g \in fresh'
    <3>1. (UNCHANGED circuit \/ RecordSuccess(ProcOf[h])) /\ UNCHANGED reset_pc
      BY <2>3 DEF Enqueue, PopResult, TimeOut, Fallback
    <3>2. \/ /\ \A g \in Handlers : pc'[g] # "idle" => pc[g] # "idle"
             /\ fresh' = fresh
          \/ /\ \A g \in Handlers : pc'[g] # "idle" => pc[g] # "idle" /\ g # h
             /\ fresh' = fresh \ {h}
      BY <2>2, <2>3 DEF Enqueue, PopResult, TimeOut, Fallback, Goto, Answer, history
    <3> QED BY <2>1, <2>2, <3>1, <3>2 DEF RecordSuccess
  <2>4. ASSUME NEW h \in Handlers, NEW r \in Reqs, Arrive(h, r) \/ Reject(h, r),
               UNCHANGED circuit
        PROVE  /\ \A p \in Procs : circuit'[p] = "closed" /\ reset_pc'[p] = "idle"
               /\ \A g \in Handlers : pc'[g] # "idle" => g \in fresh'
    BY <2>1, <2>2, <2>4 DEF Arrive, Reject, Goto, handlers, history
  <2>5. ASSUME NEW p \in Procs, ConsumerStep(p), ~CommandFails(p)
        PROVE  /\ \A q \in Procs : circuit'[q] = "closed" /\ reset_pc'[q] = "idle"
               /\ \A g \in Handlers : pc'[g] # "idle" => g \in fresh'
    <3>1. UNCHANGED circuit \/ RecordSuccess(p)
      BY <2>5
      DEF ConsumerStep, EnsureGroup, EnsureFails, StartRead, Read, ReadNothing, ReadFails,
          ReadNoGroup, GatherDone
    <3>2. UNCHANGED <<reset_pc, pc, fresh>>
      BY <2>5
      DEF ConsumerStep, EnsureGroup, EnsureFails, StartRead, Read, ReadNothing, ReadFails,
          ReadNoGroup, GatherDone, handlers, history
    <3> QED BY <2>1, <2>2, <3>1, <3>2 DEF RecordSuccess
  <2>6. ASSUME NEW p \in Procs, NEW k \in tasks[p], Sell(p, k) \/ Proceed(p, k)
        PROVE  UNCHANGED <<circuit, reset_pc, pc, fresh>>
    BY <2>6 DEF Sell, Proceed, handlers, history
  <2>7. ASSUME NEW r \in Reqs, Expire(r) PROVE UNCHANGED <<circuit, reset_pc, pc, fresh>>
    BY <2>7 DEF Expire, handlers, history
  <2>8. CASE Finished
    BY <2>1, <2>8 DEF Finished, vars, handlers
  <2> QED BY <1>2, <2>1, <2>3, <2>4, <2>5, <2>6, <2>7, <2>8, CalmStep
<1> QED BY <1>1, <1>2

\* A sale stays announced where its "success" only moves on.
LEMMA SuccessStays ==
  ASSUME NEW r, ~SoldSilently(r), ticket_of'[r] # NoTicket => ticket_of[r] # NoTicket,
         Told(r) \subseteq Told(r)', Listed(r) \subseteq Listed(r)',
         \A p \in Procs : Pushing(p, r) \subseteq Pushing(p, r)'
  PROVE  ~SoldSilently(r)'
  BY DEF SoldSilently, NoSuccess, NonePushing

\* A handler takes a result, which is its answer.
LEMMA PopKeepsSuccess ==
  ASSUME IInv, NEW r \in Reqs, ~SoldSilently(r), NEW h \in Handlers, PopResult(h), h \in fresh
  PROVE  ~SoldSilently(r)'
<1>1. PICK e, x : e = request[h] /\ x = Head(results[e.req])
  OBVIOUS
<1>2. /\ results' = [results EXCEPT ![e.req] = Tail(@)] /\ results[e.req] # <<>>
      /\ answers' = answers \cup {[request |-> e, result |-> x]}
      /\ UNCHANGED <<ticket_of, tasks>>
  BY <1>1 DEF PopResult, Pop, Answer, ledger, consumers
<1>3. /\ Told(r) \subseteq Told(r)'
      /\ \A p \in Procs : Pushing(p, r) \subseteq Pushing(p, r)'
  BY <1>2 DEF Told, Pushing
<1>4. results \in [Reqs -> Seq(Result)] /\ results[r] \in Seq(Result)
  BY DEF IInv, TypeOK
<1>5. CASE e.req # r
  <2>1. Listed(r) \subseteq Listed(r)'
    BY <1>2, <1>5 DEF Listed
  <2> QED BY <1>2, <1>3, <2>1, SuccessStays
<1>6. CASE e.req = r /\ 1 \in Listed(r)
  <2>1. x = results[r][1]
    BY <1>1, <1>6
  <2>2. [request |-> e, result |-> x] \in Told(r)'
    BY <1>2, <1>6, <2>1 DEF Told, Listed
  <2> QED BY <2>2 DEF SoldSilently, NoSuccess
<1>7. CASE e.req = r /\ 1 \notin Listed(r)
  <2>1. ASSUME NEW i \in Listed(r) PROVE i - 1 \in Listed(r)'
    <3>1. results'[r] = Tail(results[r]) /\ results[r] # <<>>
      BY <1>2, <1>4, <1>7
    <3>2. i \in 1 .. Len(results[r]) /\ i # 1
      BY <1>7 DEF Listed
    <3>3. i - 1 \in DOMAIN Tail(results[r]) /\ Tail(results[r])[i - 1] = results[r][i]
      BY <3>2
    <3> QED BY <3>1, <3>3 DEF Listed
  <2>2. Listed(r) # {} => Listed(r)' # {}
    BY <2>1
  <2> QED BY <1>2, <1>3, <2>2 DEF SoldSilently, NoSuccess, NonePushing
<1> QED BY <1>5, <1>6, <1>7

\* Only a buy that ends in "success" gives its req_id a ticket.
LEMMA SaleSucceeds ==
  ASSUME NEW r \in Reqs, NEW q \in Reqs, AtomicBuy(q), ticket_of[r] = NoTicket,
         ticket_of'[r] # NoTicket
  PROVE  r = q /\ Outcome(q).status = "success"
  BY DEF AtomicBuy, Available, Outcome

\* A handler buys past the queue, and says so.
LEMMA FallbackKeepsSuccess ==
  ASSUME IInv, NEW r \in Reqs, ~SoldSilently(r), NEW h \in Handlers, Fallback(h), h \in fresh
  PROVE  ~SoldSilently(r)'
<1>1. PICK e, x : e = request[h] /\ x = Outcome(e.req)
  OBVIOUS
<1>2. e.req \in Reqs
  BY <1>1, RequestTypes DEF IInv, RequestKnown, Fallback, Goto
<1>3. /\ answers' = answers \cup {[request |-> e, result |-> x]} /\ AtomicBuy(e.req)
      /\ UNCHANGED <<results, tasks>>
  BY <1>1 DEF Fallback, Answer, consumers
<1>4. /\ Told(r) \subseteq Told(r)' /\ Listed(r) \subseteq Listed(r)'
      /\ \A p \in Procs : Pushing(p, r) \subseteq Pushing(p, r)'
  BY <1>3 DEF Told, Listed, Pushing
<1>5. CASE ticket_of'[r] # NoTicket /\ ticket_of[r] = NoTicket
  <2>1. r = e.req /\ x.status = "success"
    BY <1>1, <1>2, <1>3, <1>5, SaleSucceeds
  <2>2. [request |-> e, result |-> x] \in Told(r)'
    BY <1>3, <2>1 DEF Told
  <2> QED BY <2>2 DEF SoldSilently, NoSuccess
<1> QED BY <1>4, <1>5, SuccessStays

\* A consumer buys, and is about to push the result.
LEMMA SaleKeepsSuccess ==
  ASSUME IInv, NEW r \in Reqs, ~SoldSilently(r), NEW p \in Procs, NEW k \in tasks[p], Sell(p, k)
  PROVE  ~SoldSilently(r)'
<1>1. PICK x, new : /\ x = Outcome(k.entry.req)
                    /\ new = [k EXCEPT !.stage = "push", !.result = x]
  OBVIOUS
<1>2. k \in Task /\ k.entry.req \in Reqs
  BY RequestTypes DEF IInv, TypeOK, Task
<1>3. /\ \A q \in Procs : q # p => tasks'[q] = tasks[q]
      /\ tasks'[p] = (tasks[p] \ {k}) \cup {new}
      /\ k.stage = "buy" /\ AtomicBuy(k.entry.req) /\ UNCHANGED <<results, answers>>
  BY <1>1 DEF Sell, Replace, IInv, TypeOK, history
<1>4. /\ Told(r) \subseteq Told(r)' /\ Listed(r) \subseteq Listed(r)'
      /\ \A q \in Procs : Pushing(q, r) \subseteq Pushing(q, r)'
  BY <1>3 DEF Told, Listed, Pushing
<1>5. CASE ticket_of'[r] # NoTicket /\ ticket_of[r] = NoTicket
  <2>1. r = k.entry.req /\ x.status = "success"
    BY <1>1, <1>2, <1>3, <1>5, SaleSucceeds
  <2>2. new.stage = "push" /\ new.result = x /\ new.entry = k.entry
    BY <1>1
  <2>3. new \in Pushing(p, r)'
    BY <1>3, <2>1, <2>2 DEF Pushing
  <2> QED BY <2>3 DEF SoldSilently, NoSuccess, NonePushing
<1> QED BY <1>4, <1>5, SuccessStays

\* A consumer pushes a result, or acknowledges its entry.
LEMMA TaskKeepsSuccess ==
  ASSUME IInv, NEW r \in Reqs, ~SoldSilently(r), NEW p \in Procs, NEW k \in tasks[p],
         Proceed(p, k)
  PROVE  ~SoldSilently(r)'
<1>1. k \in Task /\ k.entry.req \in Reqs
  BY RequestTypes DEF IInv, TypeOK, Task
<1>2. /\ \A q \in Procs : q # p => tasks'[q] = tasks[q]
      /\ tasks[p] \ {k} \subseteq tasks'[p]
      /\ UNCHANGED <<ticket_of, answers>>
  BY DEF Proceed, Replace, ledger, history
<1>3. Told(r) \subseteq Told(r)'
  BY <1>2 DEF Told
<1>4. CASE Ack(k)
  <2>1. Listed(r) \subseteq Listed(r)'
    BY <1>4 DEF Ack, Listed
  <2>2. \A q \in Procs : Pushing(q, r) \subseteq Pushing(q, r)'
    BY <1>2, <1>4 DEF Ack, Pushing
  <2> QED BY <1>2, <1>3, <2>1, <2>2, SuccessStays
<1>5. CASE Push(k)
  <2>1. /\ results \in [Reqs -> Seq(Result)] /\ results[k.entry.req] \in Seq(Result)
        /\ results' = [results EXCEPT ![k.entry.req] = Append(@, k.result)]
    BY <1>1, <1>5 DEF IInv, TypeOK, Push
  <2>2. PICK q, n : q = k.entry.req /\ n = Len(results[q]) + 1
    OBVIOUS
  <2>3. /\ n \in DOMAIN results'[q] /\ results'[q][n] = k.result
        /\ \A i \in DOMAIN results[q] : i \in DOMAIN results'[q] /\ results'[q][i] = results[q][i]
    BY <1>1, <2>1, <2>2
  <2>4. Listed(r) \subseteq Listed(r)'
    <3>1. CASE r # q
      BY <2>1 DEF Listed
    <3>2. CASE r = q
      BY <2>3, <3>2 DEF Listed
    <3> QED BY <3>1, <3>2
  <2>5. CASE \E s \in Procs : k \in Pushing(s, r)
    <3>1. n \in Listed(r)'
      BY <2>2, <2>3, <2>5 DEF Pushing, Listed
    <3> QED BY <3>1 DEF SoldSilently, NoSuccess
  <2>6. CASE \A s \in Procs : k \notin Pushing(s, r)
    <3>1. \A s \in Procs : Pushing(s, r) \subseteq Pushing(s, r)'
      BY <1>2, <2>6 DEF Pushing
    <3> QED BY <1>2, <1>3, <2>4, <3>1, SuccessStays
  <2> QED BY <2>5, <2>6
<1> QED BY <1>4, <1>5 DEF Proceed, Command

\* While nothing fails, a step leaves a sale without its "success" only by the
\* expiry of its list.
LEMMA KeptStep ==
  ASSUME IInv, Next, ~Disturbed', NEW r \in Reqs, ~Expire(r), ~SoldSilently(r)
  PROVE  ~SoldSilently(r)'
<1>1. ASSUME UNCHANGED <<ticket_of, answers>>, results'[r] = results[r],
             \A p \in Procs : tasks[p] \subseteq tasks'[p]
      PROVE  ~SoldSilently(r)'
  <2>1. /\ Told(r) \subseteq Told(r)' /\ Listed(r) \subseteq Listed(r)'
        /\ \A p \in Procs : Pushing(p, r) \subseteq Pushing(p, r)'
    BY <1>1 DEF Told, Listed, Pushing
  <2> QED BY <1>1, <2>1, SuccessStays
<1>2. \A h \in Handlers : pc[h] # "idle" => h \in fresh
  BY CalmStep DEF IInv, Calm
<1>3. ASSUME NEW h \in Handlers, Enqueue(h) \/ PopResult(h) \/ TimeOut(h) \/ Fallback(h)
      PROVE  ~SoldSilently(r)'
  <2>1. h \in fresh
    BY <1>2, <1>3 DEF Enqueue, PopResult, TimeOut, Fallback, Goto
  <2>2. CASE PopResult(h) \/ Fallback(h)
    BY <2>1, <2>2, PopKeepsSuccess, FallbackKeepsSuccess
  <2>3. CASE Enqueue(h) \/ TimeOut(h)
    BY <1>1, <2>3 DEF Enqueue, TimeOut, ledger, consumers, history
  <2> QED BY <1>3, <2>2, <2>3
<1>4. ASSUME NEW h \in Handlers, NEW q \in Reqs, Arrive(h, q) \/ Reject(h, q)
      PROVE  ~SoldSilently(r)'
  BY <1>1, <1>4 DEF Arrive, Reject, ledger, consumers, history
<1>5. ASSUME NEW p \in Procs, ConsumerStep(p) PROVE ~SoldSilently(r)'
  <2>1. UNCHANGED <<ticket_of, answers, results>>
    BY <1>5
    DEF ConsumerStep, EnsureGroup, EnsureFails, StartRead, Read, ReadNothing, ReadFails,
        ReadNoGroup, GatherDone, ledger, history
  <2>2. UNCHANGED tasks \/ Dispatch(p)
    BY <1>5
    DEF ConsumerStep, EnsureGroup, EnsureFails, StartRead, Read, ReadNothing, ReadFails,
        ReadNoGroup, GatherDone, consumers
  <2>3. \A q \in Procs : tasks[q] \subseteq tasks'[q]
    <3>1. CASE Dispatch(p)
      <4>1. PICK new : tasks' = [tasks EXCEPT ![p] = @ \cup new]
        BY <3>1 DEF Dispatch
      <4> QED BY <4>1
    <3> QED BY <2>2, <3>1
  <2> QED BY <1>1, <2>1, <2>3
<1>6. ASSUME NEW p \in Procs, NEW k \in tasks[p], Sell(p, k) \/ Proceed(p, k)
      PROVE  ~SoldSilently(r)'
  BY <1>6, SaleKeepsSuccess, TaskKeepsSuccess
<1>7. ASSUME NEW q \in Reqs, Expire(q) PROVE ~SoldSilently(r)'
  <2>1. q # r /\ results'[r] = results[r]
    BY <1>7 DEF Expire, IInv, TypeOK
  <2> QED BY <1>1, <1>7, <2>1 DEF Expire, ledger, consumers, history
<1>8. CASE Finished
  BY <1>1, <1>8 DEF Finished, vars, ledger, history
<1> QED BY <1>3, <1>4, <1>5, <1>6, <1>7, <1>8, CalmStep

-----------------------------------------------------------------------------
(* Every reachable state                                                   *)

\* Every step of the system keeps what holds until the first reset.
LEMMA NextUntilReset ==
  ASSUME IInv, [Next]_vars PROVE UntilReset'
<1>1. ASSUME NothingTold PROVE UntilReset'
  BY <1>1, NothingToldStep
<1>2. ASSUME NEW h \in Handlers, HandlerStep(h) PROVE UntilReset'
  <2>1. CASE SkipQueue(h) \/ Enqueue(h) \/ EnqueueFails(h) \/ TimeOut(h) \/ WaitFails(h)
    BY <1>1, <2>1, HandlersTellNothing
  <2>2. CASE PopResult(h) \/ Fallback(h) \/ FallbackFails(h)
    <3>1. budget'.resets = budget.resets
      BY <2>2, BudgetTypes DEF PopResult, Fallback, FallbackFails, Fault, environment
    <3>2. CASE budget.resets = MaxResets
      BY <2>2, <3>2, PopStep, FallbackStep
    <3> QED BY <3>1, <3>2 DEF UntilReset
  <2> QED BY <1>2, <2>1, <2>2 DEF HandlerStep
<1>3. ASSUME NEW h \in Handlers, NEW r \in Reqs, Arrive(h, r) \/ Reject(h, r) PROVE UntilReset'
  BY <1>1, <1>3, ClientsTellNothing
<1>4. ASSUME NEW p \in Procs, TaskStep(p) PROVE UntilReset'
  <2>1. budget'.resets = budget.resets
    BY <1>4, BudgetTypes
    DEF TaskStep, Sell, SellFails, Proceed, CommandOfTaskFails, CommandFails, Fault,
        environment
  <2>2. CASE budget.resets = MaxResets
    BY <1>4, <2>2, TaskUntilReset
  <2> QED BY <2>1, <2>2 DEF UntilReset
<1>5. ASSUME NEW p \in Procs,
             ConsumerStep(p) \/ ResetStep(p) \/ Cooldown(p) \/ Crash(p) \/ ResetTables(p)
      PROVE  UntilReset'
  BY <1>1, <1>5, ConsumersTellNothing, ResetsTellNothing, ResetTablesStep
<1>6. ASSUME NEW r \in Reqs, Expire(r) PROVE UntilReset'
  <2>1. UNCHANGED <<ledger, answers, tasks, budget>>
    BY <1>6 DEF Expire, consumers, environment, history
  <2>2. \A q \in Reqs : results'[q] = results[q] \/ results'[q] = <<>>
    BY <1>6 DEF Expire
  <2>3. NothingTold
    BY <2>1, <2>2, ListShifted DEF NothingTold
  <2> QED BY <1>1, <2>3
<1>7. CASE UNCHANGED vars \/ Finished
  <2>1. UNCHANGED <<ledger, answers, tasks, budget, results>>
    BY <1>7 DEF Finished, vars, consumers, environment, history
  <2>2. NothingTold
    BY <2>1, ListShifted DEF NothingTold
  <2> QED BY <1>1, <2>2
<1> QED BY <1>2, <1>3, <1>4, <1>5, <1>6, <1>7 DEF Next

\* Every step of the system keeps the types and the bounds.
LEMMA NextTypes ==
  ASSUME IInv, [Next]_vars PROVE TypeOK' /\ RequestKnown' /\ Bounded'
<1>1. ASSUME NEW h \in Handlers, HandlerStep(h) PROVE TypeOK' /\ RequestKnown' /\ Bounded'
  BY <1>1, HandlerTypes DEF HandlerStep
<1>2. ASSUME NEW h \in Handlers, NEW r \in Reqs, Arrive(h, r) \/ Reject(h, r)
      PROVE  TypeOK' /\ RequestKnown' /\ Bounded'
  BY <1>2, ClientTypes
<1>3. ASSUME NEW p \in Procs, ConsumerStep(p) PROVE TypeOK' /\ RequestKnown' /\ Bounded'
  BY <1>3, ConsumerTypes DEF ConsumerStep
<1>4. ASSUME NEW p \in Procs, TaskStep(p) PROVE TypeOK' /\ RequestKnown' /\ Bounded'
  BY <1>4, TaskTypes DEF TaskStep
<1>5. ASSUME NEW p \in Procs, ResetStep(p) \/ Cooldown(p) \/ Crash(p) \/ ResetTables(p)
      PROVE  TypeOK' /\ RequestKnown' /\ Bounded'
  BY <1>5, ResetTypes DEF ResetStep
<1>6. ASSUME NEW r \in Reqs, Expire(r) PROVE TypeOK' /\ RequestKnown' /\ Bounded'
  BY <1>6, ExpireTypes
<1>7. CASE UNCHANGED vars \/ Finished
  <2>1. UNCHANGED vars
    BY <1>7 DEF Finished
  <2> QED
    BY <2>1 DEF IInv, TypeOK, RequestKnown, Bounded, vars, ledger, stream, handlers,
                consumers, environment, history
<1> QED BY <1>1, <1>2, <1>3, <1>4, <1>5, <1>6, <1>7 DEF Next

LEMMA NextIInv == IInv /\ [Next]_vars => IInv'
  BY NextTypes, NextUntilReset, NextCalm DEF IInv

LEMMA InitIInv == Init => IInv
<1> SUFFICES ASSUME Init PROVE IInv
  OBVIOUS
<1> USE DEF Init
<1>1. TypeOK
  <2>1. <<>> \in Seq(Request) /\ <<>> \in Seq(Result)
    OBVIOUS
  <2> QED BY <2>1, BoundsAssumption DEF TypeOK, NoTicket
<1>2. RequestKnown
  BY DEF RequestKnown
<1>3. Bounded
  BY TotalAssumption, BoundsAssumption DEF Bounded
<1>4. UntilReset
  BY DEF UntilReset, ResultsHonest, AnswersTruthful, OneSuccess, Pushing, Listed, Told
<1>5. Calm
  BY DEF Calm
<1> QED BY <1>1, <1>2, <1>3, <1>4, <1>5 DEF IInv

\* The inductive invariant holds in every reachable state; the theorems below are
\* consequences of it.
THEOREM InvariantHolds == Spec => []IInv
  BY InitIInv, NextIInv, PTL DEF Spec

\* Every reachable state is well typed.
THEOREM TypeCorrect == Spec => []TypeOK
  BY InvariantHolds, PTL DEF IInv

\* Until the first reset every answer of POST /buy agrees with the ledger, whichever
\* way it took.
THEOREM AnswersAreTruthful == Spec => [](budget.resets = MaxResets => AnswersTruthful)
<1>1. IInv => (budget.resets = MaxResets => AnswersTruthful)
  BY DEF IInv, UntilReset
<1> QED BY <1>1, InvariantHolds, PTL

\* Until the first reset one send of a req_id at most is told "success".
THEOREM SuccessIsToldOnce == Spec => [](budget.resets = MaxResets => SuccessOnce)
<1>1. IInv => (budget.resets = MaxResets => SuccessOnce)
  <2> SUFFICES ASSUME IInv, budget.resets = MaxResets,
                      NEW a \in answers, NEW b \in answers,
                      a.result.status = "success", b.result.status = "success",
                      a.request.req = b.request.req
               PROVE  a = b
    BY DEF SuccessOnce
  <2>1. a.request.req \in Reqs
    BY RequestTypes DEF IInv, TypeOK
  <2>2. a \in Told(a.request.req) /\ b \in Told(a.request.req)
    BY DEF Told
  <2> QED BY <2>1, <2>2 DEF IInv, UntilReset, OneSuccess
<1> QED BY <1>1, InvariantHolds, PTL

\* While nothing failed, crashed or was reset, the "success" of every sale is told, or
\* waits to be told, unless its list's time to live is over.
THEOREM SuccessIsKept == Spec => SuccessKept
<1>1. IInv /\ [Next]_vars =>
          [\A r \in Reqs :
               SoldSilently(r)' => SoldSilently(r) \/ Disturbed' \/ Expire(r)]_vars
  BY KeptStep
<1> QED BY <1>1, InvariantHolds, PTL DEF Spec, SuccessKept

=============================================================================

------------------------------- MODULE BuyQueue -------------------------------
(***************************************************************************)
(* Stage 3, distributed/app/queue_stream.py with POST /buy and POST /reset *)
(* of main.py: buys go through a Redis stream to the consumers that run in *)
(* every process, with a fallback to the database when Redis fails or no   *)
(* result comes in time.                                                   *)
(*                                                                         *)
(* atomic_buy and reset_state are single steps on the ledger, which is     *)
(* what TicketDb is shown to implement.  Redis is external: a command      *)
(* takes effect in one step, and may fail before or after it.  While a     *)
(* process's circuit breaker is open its commands may go on failing: the   *)
(* outage may last, and record_failure() closes connections in use.        *)
(*                                                                         *)
(* A req_id stands for the buy it names; its user_id decides nothing here. *)
(***************************************************************************)
EXTENDS Integers, Sequences, FiniteSets, Functions

CONSTANTS
    Procs,          \* uvicorn worker processes of all replicas
    Handlers,       \* concurrent executions of POST /buy
    ProcOf,         \* the process a handler runs in
    Reqs,           \* req_ids
    Total,          \* total_tickets
    NoRequest,      \* a handler's request while it is idle
    BatchSize,      \* count of XREADGROUP
    Sends,          \* how often the clients send each req_id (retries, double clicks)
    MaxFaults, MaxCrashes, MaxResets    \* bounds on faults, crashes and resets

\* The n-th last send of a req_id.
Request == UNION {[req : {r}, copy : 1 .. Sends[r]] : r \in Reqs}

ASSUME TotalAssumption == Total \in Nat
ASSUME ProcAssumption == ProcOf \in [Handlers -> Procs]
ASSUME BoundsAssumption ==
    /\ BatchSize \in Nat \ {0}
    /\ Sends \in [Reqs -> Nat] /\ MaxFaults \in Nat /\ MaxCrashes \in Nat /\ MaxResets \in Nat
ASSUME RequestAssumption == NoRequest \notin Request

VARIABLES
    sold_count, ticket_of,      \* the ledger: the count, and the ticket of a req_id
    backlog,        \* entries of buy_requests not yet delivered to the group
    pel,            \* entries delivered and not acknowledged
    group,          \* does the group `sellers` exist?
    results,        \* the lists result:{req_id}
    circuit,        \* "open" or "closed", per process
    pc, request,    \* step and request of each handler
    loop,           \* step of each process's _run_consumer
    batch,          \* entries its asyncio.gather waits for
    tasks,          \* its executions of _process_entry
    reset_pc,       \* step of each process's POST /reset
    plan,           \* sends of each req_id still to come
    budget,         \* faults, crashes and resets still to come
    answers,        \* history: responses of buys that began after the last reset
    fresh           \* history: handlers whose buy began when it had returned

ledger == <<sold_count, ticket_of>>
stream == <<backlog, pel, group>>
handlers == <<pc, request>>
consumers == <<loop, batch, tasks>>
environment == <<plan, budget>>
history == <<answers, fresh>>
vars == <<ledger, stream, results, circuit, handlers, consumers, reset_pc,
          environment, history>>

NoTicket == 0
Result == [status : {"success", "already_processed", "sold_out", "error"}, ticket : Nat]
Error == [status |-> "error", ticket |-> NoTicket]
Task == [entry : Request, stage : {"buy", "push", "ack"}, result : Result]

Init ==
    /\ sold_count = 0
    /\ ticket_of = [r \in Reqs |-> NoTicket]
    /\ backlog = <<>> /\ pel = {} /\ group = FALSE
    /\ results = [r \in Reqs |-> <<>>]
    /\ circuit = [p \in Procs |-> "closed"]
    /\ pc = [h \in Handlers |-> "idle"]
    /\ request = [h \in Handlers |-> NoRequest]
    /\ loop = [p \in Procs |-> "ensure"]
    /\ batch = [p \in Procs |-> {}]
    /\ tasks = [p \in Procs |-> {}]
    /\ reset_pc = [p \in Procs |-> "idle"]
    /\ plan = Sends
    /\ budget = [faults |-> MaxFaults, crashes |-> MaxCrashes, resets |-> MaxResets]
    /\ answers = {} /\ fresh = {}

-----------------------------------------------------------------------------
(* The ledger                                                              *)

Available(r) == ticket_of[r] = NoTicket /\ sold_count < Total

\* A bug: sold out is checked before the idempotency check.
SoldOutFirst(r) ==
    [status |-> IF sold_count >= Total THEN "sold_out"
                ELSE IF ticket_of[r] # NoTicket THEN "already_processed" ELSE "success",
     ticket |-> IF Available(r) THEN sold_count + 1 ELSE ticket_of[r]]

\* What atomic_buy returns for r.
Outcome(r) ==
    [status |-> IF ticket_of[r] # NoTicket THEN "already_processed"
                ELSE IF sold_count < Total THEN "success" ELSE "sold_out",
     ticket |-> IF Available(r) THEN sold_count + 1 ELSE ticket_of[r]]

AtomicBuy(r) ==
    /\ sold_count' = IF Available(r) THEN sold_count + 1 ELSE sold_count
    /\ ticket_of' = IF Available(r) THEN [ticket_of EXCEPT ![r] = sold_count + 1]
                    ELSE ticket_of

-----------------------------------------------------------------------------
(* Failures of a Redis command                                             *)

Fault ==
    /\ budget.faults > 0
    /\ budget' = [budget EXCEPT !.faults = @ - 1]
    /\ UNCHANGED plan

CommandFails(p) == Fault \/ (circuit[p] = "open" /\ UNCHANGED environment)

RecordFailure(p) == circuit' = [circuit EXCEPT ![p] = "open"]
RecordSuccess(p) == circuit' = [circuit EXCEPT ![p] = "closed"]

\* cooldown_seconds have passed.
Cooldown(p) ==
    /\ circuit[p] = "open"
    /\ RecordSuccess(p)
    /\ UNCHANGED <<ledger, stream, results, handlers, consumers, reset_pc,
                   environment, history>>

-----------------------------------------------------------------------------
(* POST /buy                                                               *)

Goto(h, from, to) ==
    /\ pc[h] = from
    /\ pc' = [pc EXCEPT ![h] = to]

\* The rate limiter is asked first; its own Redis command may fail, which
\* opens the circuit.
Limiter(p) ==
    \/ UNCHANGED <<circuit, budget>>
    \/ /\ circuit[p] = "closed"
       /\ budget.faults > 0
       /\ budget' = [budget EXCEPT !.faults = @ - 1]
       /\ RecordFailure(p)

Arrive(h, r) ==
    /\ Goto(h, "idle", "admitted")
    /\ plan[r] > 0
    /\ plan' = [plan EXCEPT ![r] = @ - 1]
    /\ request' = [request EXCEPT ![h] = [req |-> r, copy |-> plan[r]]]
    /\ fresh' = IF \A p \in Procs : reset_pc[p] = "idle" THEN fresh \cup {h} ELSE fresh
    /\ Limiter(ProcOf[h])
    /\ UNCHANGED <<ledger, stream, results, consumers, reset_pc, answers>>

\* Rate limited: answered 429, and nothing else happens.
Reject(h, r) ==
    /\ pc[h] = "idle"
    /\ plan[r] > 0
    /\ plan' = [plan EXCEPT ![r] = @ - 1]
    /\ Limiter(ProcOf[h])
    /\ UNCHANGED <<ledger, stream, results, handlers, consumers, reset_pc, history>>

\* The circuit is open: straight to the database.
SkipQueue(h) ==
    /\ Goto(h, "admitted", "fallback")
    /\ circuit[ProcOf[h]] = "open"
    /\ UNCHANGED <<ledger, stream, results, circuit, request, consumers, reset_pc,
                   environment, history>>

XAdd(h) ==
    /\ backlog' = Append(backlog, request[h])
    /\ UNCHANGED <<pel, group>>

Enqueue(h) ==
    /\ Goto(h, "admitted", "waiting")
    /\ circuit[ProcOf[h]] = "closed"
    /\ XAdd(h)
    /\ UNCHANGED <<ledger, results, circuit, request, consumers, reset_pc,
                   environment, history>>

EnqueueFails(h) ==
    /\ Goto(h, "admitted", "fallback")
    /\ circuit[ProcOf[h]] = "closed"
    /\ Fault
    /\ RecordFailure(ProcOf[h])
    /\ XAdd(h) \/ UNCHANGED stream
    /\ UNCHANGED <<ledger, results, request, consumers, reset_pc, history>>

\* BLPOP.
Pop(r) ==
    /\ results[r] # <<>>
    /\ results' = [results EXCEPT ![r] = Tail(@)]

\* The response of h, which is kept if its buy began when every reset had
\* returned.
Answer(h, result) ==
    /\ answers' = IF h \notin fresh THEN answers
                  ELSE answers \cup {[request |-> request[h], result |-> result]}
    /\ request' = [request EXCEPT ![h] = NoRequest]
    /\ fresh' = fresh \ {h}

\* A bug: the result is read and left in the list.
PeekResult(h) ==
    /\ Goto(h, "waiting", "idle")
    /\ results[request[h].req] # <<>>
    /\ RecordSuccess(ProcOf[h])
    /\ Answer(h, Head(results[request[h].req]))
    /\ UNCHANGED <<ledger, stream, results, consumers, reset_pc, environment>>

PopResult(h) ==
    /\ Goto(h, "waiting", "idle")
    /\ Pop(request[h].req)
    /\ RecordSuccess(ProcOf[h])
    /\ Answer(h, Head(results[request[h].req]))
    /\ UNCHANGED <<ledger, stream, consumers, reset_pc, environment>>

\* A bug: BLPOP waits for ever (timeout 0).
WaitForever(h) ==
    /\ Goto(h, "waiting", "waiting")
    /\ results[request[h].req] = <<>>
    /\ UNCHANGED vars

TimeOut(h) ==
    /\ Goto(h, "waiting", "fallback")
    /\ results[request[h].req] = <<>>
    /\ RecordSuccess(ProcOf[h])
    /\ UNCHANGED <<ledger, stream, results, request, consumers, reset_pc,
                   environment, history>>

WaitFails(h) ==
    /\ Goto(h, "waiting", "fallback")
    /\ CommandFails(ProcOf[h])
    /\ RecordFailure(ProcOf[h])
    /\ Pop(request[h].req) \/ UNCHANGED results
    /\ UNCHANGED <<ledger, stream, request, consumers, reset_pc, history>>

Fallback(h) ==
    /\ Goto(h, "fallback", "idle")
    /\ AtomicBuy(request[h].req)
    /\ Answer(h, Outcome(request[h].req))
    /\ UNCHANGED <<stream, results, circuit, consumers, reset_pc, environment>>

\* The database fails too: the response is a 500.
FallbackFails(h) ==
    /\ Goto(h, "fallback", "idle")
    /\ Fault
    /\ AtomicBuy(request[h].req) \/ UNCHANGED ledger
    /\ Answer(h, Error)
    /\ UNCHANGED <<stream, results, circuit, consumers, reset_pc>>

HandlerStep(h) ==
    \/ SkipQueue(h) \/ Enqueue(h) \/ EnqueueFails(h)
    \/ PopResult(h) \/ TimeOut(h) \/ WaitFails(h)
    \/ Fallback(h) \/ FallbackFails(h)

-----------------------------------------------------------------------------
(* consumer_loop and _run_consumer                                         *)

GoOn(p, from, to) ==
    /\ loop[p] = from
    /\ loop' = [loop EXCEPT ![p] = to]

EnsureGroup(p) ==
    /\ GoOn(p, "ensure", "read")
    /\ group' = TRUE
    /\ UNCHANGED <<ledger, backlog, pel, results, circuit, handlers, batch, tasks,
                   reset_pc, environment, history>>

\* The error escapes to consumer_loop, which starts over.
EnsureFails(p) ==
    /\ loop[p] = "ensure"
    /\ CommandFails(p)
    /\ RecordFailure(p)
    /\ group' \in {group, TRUE}
    /\ UNCHANGED <<ledger, backlog, pel, results, handlers, consumers, reset_pc, history>>

Delivered ==
    SubSeq(backlog, 1, IF Len(backlog) < BatchSize THEN Len(backlog) ELSE BatchSize)

\* XREADGROUP of new entries moves them to the pending entries list.
Deliver ==
    /\ group
    /\ backlog # <<>>
    /\ backlog' = SubSeq(backlog, Len(Delivered) + 1, Len(backlog))
    /\ pel' = pel \cup Range(Delivered)
    /\ UNCHANGED group

NewTask(e) == [entry |-> e, stage |-> "buy", result |-> Error]

Dispatch(p) ==
    /\ batch' = [batch EXCEPT ![p] = Range(Delivered)]
    /\ tasks' = [tasks EXCEPT ![p] = @ \cup {NewTask(e) : e \in Range(Delivered)}]

\* While the circuit is open nothing is read.
StartRead(p) ==
    /\ GoOn(p, "read", "reading")
    /\ circuit[p] = "closed"
    /\ UNCHANGED <<ledger, stream, results, circuit, handlers, batch, tasks, reset_pc,
                   environment, history>>

\* The circuit may have been opened since, and is closed again.
Read(p) ==
    /\ GoOn(p, "reading", "gather")
    /\ Deliver
    /\ Dispatch(p)
    /\ RecordSuccess(p)
    /\ UNCHANGED <<ledger, results, handlers, reset_pc, environment, history>>

\* Nothing came while XREADGROUP blocked.
ReadNothing(p) ==
    /\ GoOn(p, "reading", "read")
    /\ group /\ backlog = <<>>
    /\ RecordSuccess(p)
    /\ UNCHANGED <<ledger, stream, results, handlers, batch, tasks, reset_pc,
                   environment, history>>

\* A ConnectionError is retried at once, a TimeoutError escapes to
\* consumer_loop.  The entries may have been delivered to nobody.
ReadFails(p) ==
    /\ \E next \in {"read", "ensure"} : GoOn(p, "reading", next)
    /\ CommandFails(p)
    /\ RecordFailure(p)
    /\ Deliver \/ UNCHANGED stream
    /\ UNCHANGED <<ledger, results, handlers, batch, tasks, reset_pc, history>>

\* A bug: the missing group is not created again.
IgnoreNoGroup(p) ==
    /\ GoOn(p, "reading", "read")
    /\ ~group
    /\ UNCHANGED <<ledger, stream, results, circuit, handlers, batch, tasks, reset_pc,
                   environment, history>>

\* NOGROUP: the stream was deleted by a reset.
ReadNoGroup(p) ==
    /\ GoOn(p, "reading", "ensure")
    /\ ~group
    /\ UNCHANGED <<ledger, stream, results, circuit, handlers, batch, tasks, reset_pc,
                   environment, history>>

\* asyncio.gather returns.
GatherDone(p) ==
    /\ GoOn(p, "gather", "read")
    /\ \A k \in tasks[p] : k.entry \notin batch[p]
    /\ batch' = [batch EXCEPT ![p] = {}]
    /\ UNCHANGED <<ledger, stream, results, circuit, handlers, tasks, reset_pc,
                   environment, history>>

-----------------------------------------------------------------------------
(* _process_entry                                                          *)

Replace(p, k, next) == tasks' = [tasks EXCEPT ![p] = (@ \ {k}) \cup next]

Sell(p, k) ==
    /\ k.stage = "buy"
    /\ AtomicBuy(k.entry.req)
    /\ Replace(p, k, {[k EXCEPT !.stage = "push", !.result = Outcome(k.entry.req)]})
    /\ UNCHANGED <<stream, results, circuit, handlers, loop, batch, reset_pc,
                   environment, history>>

\* Any exception of atomic_buy becomes a result of its own, although the sale
\* may have been committed.
SellFails(p, k) ==
    /\ k.stage = "buy"
    /\ Fault
    /\ AtomicBuy(k.entry.req) \/ UNCHANGED ledger
    /\ Replace(p, k, {[k EXCEPT !.stage = "push", !.result = Error]})
    /\ UNCHANGED <<stream, results, circuit, handlers, loop, batch, reset_pc,
                   history>>

\* A bug: the task is pushed instead of its result.
PushTask(k) ==
    /\ k.stage = "push"
    /\ results' = [results EXCEPT ![k.entry.req] = Append(@, k)]
    /\ UNCHANGED pel

\* A bug: SET instead of RPUSH, the result replaces what waits in the list.
SetResult(k) ==
    /\ k.stage = "push"
    /\ results' = [results EXCEPT ![k.entry.req] = <<k.result>>]
    /\ UNCHANGED pel

\* RPUSH and EXPIRE.  Whether the list gets its time to live decides nothing
\* here: it may vanish at any time, or stay.
Push(k) ==
    /\ k.stage = "push"
    /\ results' = [results EXCEPT ![k.entry.req] = Append(@, k.result)]
    /\ UNCHANGED pel

\* A bug: the entry is never acknowledged.
NoAck(k) ==
    /\ k.stage = "ack"
    /\ UNCHANGED <<pel, results>>

Ack(k) ==
    /\ k.stage = "ack"
    /\ pel' = pel \ {k.entry}
    /\ UNCHANGED results

Command(k) == Push(k) \/ Ack(k)

Proceed(p, k) ==
    /\ Command(k)
    /\ Replace(p, k, IF k.stage = "ack" THEN {}
                     ELSE {[k EXCEPT !.stage = "ack"]})
    /\ UNCHANGED <<ledger, backlog, group, circuit, handlers, loop, batch, reset_pc,
                   environment, history>>

\* The rest of the task is dropped.  A ConnectionError is swallowed; a
\* TimeoutError ends the gather, consumer_loop starts over, and the other
\* tasks of the batch run on by themselves.
CommandOfTaskFails(p, k) ==
    /\ k.stage # "buy"
    /\ CommandFails(p)
    /\ Command(k) \/ UNCHANGED <<pel, results>>
    /\ Replace(p, k, {})
    /\ \/ UNCHANGED <<circuit, loop, batch>>
       \/ /\ k.entry \in batch[p]
          /\ GoOn(p, "gather", "ensure")
          /\ batch' = [batch EXCEPT ![p] = {}]
          /\ RecordFailure(p)
    /\ UNCHANGED <<ledger, backlog, group, handlers, reset_pc, history>>

TaskStep(p) ==
    \E k \in tasks[p] :
        Sell(p, k) \/ SellFails(p, k) \/ Proceed(p, k) \/ CommandOfTaskFails(p, k)

ConsumerStep(p) ==
    \/ EnsureGroup(p) \/ EnsureFails(p)
    \/ StartRead(p) \/ Read(p) \/ ReadNothing(p) \/ ReadFails(p) \/ ReadNoGroup(p)
    \/ GatherDone(p)

\* A result list's time to live is over.
Expire(r) ==
    /\ results[r] # <<>>
    /\ results' = [results EXCEPT ![r] = <<>>]
    /\ UNCHANGED <<ledger, stream, circuit, handlers, consumers, reset_pc,
                   environment, history>>

-----------------------------------------------------------------------------
(* POST /reset: the tables, then the stream if Redis is believed to be up. *)
(* The result lists are left alone.                                        *)

GoReset(p, from, to) ==
    /\ reset_pc[p] = from
    /\ reset_pc' = [reset_pc EXCEPT ![p] = to]

ResetTables(p) ==
    /\ GoReset(p, "idle", "delete")
    /\ budget.resets > 0
    /\ budget' = [budget EXCEPT !.resets = @ - 1]
    /\ sold_count' = 0
    /\ ticket_of' = [r \in Reqs |-> NoTicket]
    /\ answers' = {} /\ fresh' = {}
    /\ UNCHANGED <<stream, results, circuit, handlers, consumers, plan>>

SkipStream(p) ==
    /\ GoReset(p, "delete", "idle")
    /\ circuit[p] = "open"
    /\ UNCHANGED <<ledger, stream, results, circuit, handlers, consumers,
                   environment, history>>

Delete == backlog' = <<>> /\ pel' = {} /\ group' = FALSE

DeleteStream(p) ==
    /\ GoReset(p, "delete", "create")
    /\ circuit[p] = "closed"
    /\ Delete
    /\ UNCHANGED <<ledger, results, circuit, handlers, consumers, environment, history>>

DeleteFails(p) ==
    /\ GoReset(p, "delete", "idle")
    /\ circuit[p] = "closed"
    /\ Fault
    /\ RecordFailure(p)
    /\ Delete \/ UNCHANGED stream
    /\ UNCHANGED <<ledger, results, handlers, consumers, history>>

CreateGroup(p) ==
    /\ GoReset(p, "create", "idle")
    /\ ~group
    /\ group' = TRUE
    /\ RecordSuccess(p)
    /\ UNCHANGED <<ledger, backlog, pel, results, handlers, consumers, environment, history>>

\* BUSYGROUP, because a consumer was faster, counts as a failure of Redis.
GroupExists(p) ==
    /\ GoReset(p, "create", "idle")
    /\ group
    /\ RecordFailure(p)
    /\ UNCHANGED <<ledger, stream, results, handlers, consumers, environment, history>>

CreateFails(p) ==
    /\ GoReset(p, "create", "idle")
    /\ CommandFails(p)
    /\ RecordFailure(p)
    /\ group' \in {group, TRUE}
    /\ UNCHANGED <<ledger, backlog, pel, results, handlers, consumers, history>>

ResetStep(p) ==
    \/ SkipStream(p) \/ DeleteStream(p) \/ DeleteFails(p)
    \/ CreateGroup(p) \/ GroupExists(p) \/ CreateFails(p)

-----------------------------------------------------------------------------

\* The process dies with everything in it and starts again; its clients see
\* a transport error and may send their req_ids again.
Crash(p) ==
    /\ budget.crashes > 0
    /\ budget' = [budget EXCEPT !.crashes = @ - 1]
    /\ pc' = [h \in Handlers |-> IF ProcOf[h] = p THEN "idle" ELSE pc[h]]
    /\ request' = [h \in Handlers |-> IF ProcOf[h] = p THEN NoRequest ELSE request[h]]
    /\ fresh' = {h \in fresh : ProcOf[h] # p}
    /\ loop' = [loop EXCEPT ![p] = "ensure"]
    /\ batch' = [batch EXCEPT ![p] = {}]
    /\ tasks' = [tasks EXCEPT ![p] = {}]
    /\ reset_pc' = [reset_pc EXCEPT ![p] = "idle"]
    /\ RecordSuccess(p)
    /\ UNCHANGED <<ledger, stream, results, plan, answers>>

\* Nobody sends anything any more and everything accepted is done with.
Finished ==
    /\ \A r \in Reqs : plan[r] = 0
    /\ \A h \in Handlers : pc[h] = "idle"
    /\ \A p \in Procs : loop[p] \in {"read", "reading"} /\ tasks[p] = {}
    /\ backlog = <<>>
    /\ UNCHANGED vars

Next ==
    \/ \E h \in Handlers :
        HandlerStep(h) \/ \E r \in Reqs : Arrive(h, r) \/ Reject(h, r)
    \/ \E p \in Procs :
        \/ ConsumerStep(p) \/ TaskStep(p) \/ Cooldown(p)
        \/ ResetTables(p) \/ ResetStep(p) \/ Crash(p)
    \/ \E r \in Reqs : Expire(r)
    \/ Finished

Spec == Init /\ [][Next]_vars

\* The event loop of a process runs every task that is ready, Redis and the
\* database answer or fail, and time passes.
Fairness ==
    /\ \A h \in Handlers : WF_vars(HandlerStep(h))
    /\ \A p \in Procs :
        /\ WF_vars(ConsumerStep(p)) /\ WF_vars(TaskStep(p))
        /\ WF_vars(Cooldown(p)) /\ WF_vars(ResetStep(p))

FairSpec == Spec /\ Fairness

-----------------------------------------------------------------------------
(* Properties                                                              *)

\* Every variable keeps the type its comment gives it.
TypeOK ==
    /\ sold_count \in Nat
    /\ ticket_of \in [Reqs -> Nat]
    /\ backlog \in Seq(Request) /\ pel \subseteq Request /\ group \in BOOLEAN
    /\ results \in [Reqs -> Seq(Result)]
    /\ circuit \in [Procs -> {"open", "closed"}]
    /\ pc \in [Handlers -> {"idle", "admitted", "waiting", "fallback"}]
    /\ request \in [Handlers -> Request \cup {NoRequest}]
    /\ loop \in [Procs -> {"ensure", "read", "reading", "gather"}]
    /\ batch \in [Procs -> SUBSET Request]
    /\ tasks \in [Procs -> SUBSET Task]
    /\ reset_pc \in [Procs -> {"idle", "delete", "create"}]
    /\ plan \in [Reqs -> Nat]
    /\ budget \in [faults : Nat, crashes : Nat, resets : Nat]
    /\ answers \subseteq [request : Request, result : Result]
    /\ fresh \subseteq Handlers

\* INV3 of the load client over HTTP: whichever way an answer took (its own
\* queue entry, the entry of another send of the req_id, the fallback), it
\* agrees with the database, and what was sold out stays so.
AnswersTruthful ==
    \A a \in answers :
        /\ a.result.status \in {"success", "already_processed"} =>
               a.result.ticket # NoTicket /\ a.result.ticket = ticket_of[a.request.req]
        /\ a.result.status = "sold_out" =>
               ticket_of[a.request.req] = NoTicket /\ sold_count = Total

\* However often a req_id is sent, and although each send may be bought by a
\* consumer and again by the fallback, one send at most is told "success".
SuccessOnce ==
    \A a, b \in answers :
        /\ a.result.status = "success" /\ b.result.status = "success"
        /\ a.request.req = b.request.req
        => a = b

\* The three places of the result "success" for r: a task about to push it, its
\* list, and the answers.
Pushing(p, r) ==
    {k \in tasks[p] : k.stage = "push" /\ k.result.status = "success" /\ k.entry.req = r}
Listed(r) == {i \in DOMAIN results[r] : results[r][i].status = "success"}
Told(r) == {a \in answers : a.result.status = "success" /\ a.request.req = r}

NonePushing(r) == \A p \in Procs : Pushing(p, r) = {}
NoSuccess(r) == NonePushing(r) /\ Listed(r) = {} /\ Told(r) = {}

\* r is sold, and nobody was or will be told so by a "success".
SoldSilently(r) == ticket_of[r] # NoTicket /\ NoSuccess(r)

Disturbed ==
    budget # [faults |-> MaxFaults, crashes |-> MaxCrashes, resets |-> MaxResets]

\* The bridge of result lists from the consumers to the requests that wait: across
\* timeouts, fallbacks and other sends of the req_id that share its list, the
\* "success" of a sale stays on its way until a send is told it.  While nothing
\* failed, crashed or was reset, only the list's time to live can end it.
SuccessKept ==
    [][\A r \in Reqs :
           SoldSilently(r)' => SoldSilently(r) \/ Disturbed' \/ Expire(r)]_vars

\* Whatever Redis, the consumers and the breaker do, a buy is answered unless
\* its process dies.
EveryBuyAnswered == \A h \in Handlers : pc[h] # "idle" ~> pc[h] = "idle"

\* The consumer never dies for good: after faults, crashes and resets that
\* delete the group, what is in the stream is read.
BacklogDrains == \A e \in Request : e \in Range(backlog) ~> e \notin Range(backlog)

\* What is read is acknowledged, unless something failed or was reset.
AckedUnlessDisturbed ==
    \A e \in Request : e \in pel ~> e \notin pel \/ Disturbed

\* "The entry will be redelivered (it stays pending) once Redis is back".
PendingIsRedelivered == \A e \in Request : e \in pel ~> e \notin pel
=============================================================================

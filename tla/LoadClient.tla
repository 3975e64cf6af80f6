------------------------------ MODULE LoadClient ------------------------------
(***************************************************************************)
(* The load clients (buyer/load_client.py and load_client_async.py) in     *)
(* front of a service that keeps the contract of TicketService: a reset,   *)
(* a plan of buys with replayed req_ids fired from a bounded number of     *)
(* slots (threads, or permits of the semaphore), retries of sends whose    *)
(* answer did not arrive, and the four invariants evaluated on GET /status *)
(* once every send has a result.  GET /status goes through the cache of    *)
(* cache.py, which other clients that poll it fill as well.                *)
(*                                                                         *)
(* A caller of the contract is one execution of POST /buy on the server,   *)
(* past the rate limiter.  A client that times out leaves it running: it   *)
(* may still sell later.                                                   *)
(* Latencies and the printed report are left out.                          *)
(***************************************************************************)
EXTENDS TicketService, FiniteSets

CONSTANTS
    Slots,        \* max_workers, max_inflight
    MaxRetries,   \* 0 in load_client.py, max_retries = 2 in load_client_async.py
    ReplayCount,  \* sends of a duplicated req_id
    Plans,        \* the plans build_request_plan may draw: sends per req_id
    NoJob,        \* an idle slot
    NoCaller,     \* the slot waits to fire (again)
    Getters,      \* executions of GET /status
    Checker,      \* the one for check_invariants
    NoStatus      \* a key that is not set, or nothing read yet

ASSUME RetriesAssumption == MaxRetries \in Nat /\ ReplayCount \in Nat
ASSUME PlansAssumption == Plans \subseteq [Reqs -> {0, 1, ReplayCount}]

Job == [req : Reqs, retries : 0 .. MaxRetries, caller : Callers \cup {NoCaller}]

ASSUME NoJobAssumption == NoJob \notin Job /\ NoCaller \notin Callers

\* What GET /status returns.  (busy, a ghost: some execution or a reset was under
\* way between its two reads.)
Status == [count : Nat, rows : SUBSET Sale, busy : BOOLEAN]

ASSUME CheckerAssumption == Checker \in Getters /\ NoStatus \notin Status

VARIABLES
    phase,      \* "start", "load", "done"
    plan,       \* sends of each req_id; none for those of an earlier load
    buyer,      \* the user_id of each req_id
    left,       \* sends still to come
    job,        \* what each slot is at
    results,    \* what fire_one returned: req_id, body_status, ticket_number
    report,     \* the response of the checker's GET /status
    cache,      \* STATUS_CACHE_KEY
    at,         \* how far each GET /status is; "count": has read it
    got         \* what it has read

clientVars == <<phase, plan, buyer, left, job, results>>
statusVars == <<report, cache, at, got>>
allVars == <<vars, clientVars, statusVars>>

planVars == <<plan, buyer>>
RequestResult == [req : Reqs, ticket : Nat,
    status : {"success", "already_processed", "sold_out", "error", "rate_limited",
              "transport_error"}]

\* build_request_plan
ClientInit ==
    /\ Init
    /\ phase = "start"
    /\ plan \in Plans
    /\ buyer \in [Reqs -> Users]
    /\ left = plan
    /\ job = [s \in Slots |-> NoJob]
    /\ results = {}
    /\ report = NoStatus
    /\ cache = NoStatus
    /\ at = [g \in Getters |-> "idle"]
    /\ got = [g \in Getters |-> NoStatus]

-----------------------------------------------------------------------------
(* fire_one and run_load                                                   *)

\* The ghost: what is read around this step cannot be relied on.
Disturb ==
    /\ got' = [g \in Getters |->
                 IF at[g] = "count" THEN [got[g] EXCEPT !.busy = TRUE] ELSE got[g]]
    /\ UNCHANGED <<report, cache, at>>

\* A send of an earlier load that was given up and is still on its way.
Leftover(c, r) ==
    /\ phase = "start"
    /\ plan[r] = 0
    /\ Submit(c, [req |-> r, user |-> buyer[r]])
    /\ Disturb
    /\ UNCHANGED clientVars

\* POST /reset, or --no-reset.
Start ==
    /\ phase = "start"
    /\ phase' = "load"
    /\ (Reset /\ Disturb) \/ UNCHANGED <<vars, statusVars>>
    /\ UNCHANGED <<planVars, left, job, results>>

Take(s, r) ==
    /\ phase = "load"
    /\ job[s] = NoJob
    /\ left[r] > 0
    /\ left' = [left EXCEPT ![r] = @ - 1]
    /\ job' = [job EXCEPT ![s] = [req |-> r, retries |-> MaxRetries, caller |-> NoCaller]]
    /\ UNCHANGED <<vars, phase, planVars, results, statusVars>>

\* The send gets past the limiter: its execution begins.
Fire(s, c) ==
    /\ job[s] # NoJob /\ job[s].caller = NoCaller
    /\ Submit(c, [req |-> job[s].req, user |-> buyer[job[s].req]])
    /\ job' = [job EXCEPT ![s].caller = c]
    /\ Disturb
    /\ UNCHANGED <<phase, planVars, left, results>>

\* fire_one returns, and the slot is free.
Return(s, status, ticket) ==
    /\ results' = results \cup {[req |-> job[s].req, status |-> status, ticket |-> ticket]}
    /\ job' = [job EXCEPT ![s] = NoJob]

\* A bug: the last failure leaves no result.
GiveUpSilently(s) ==
    IF job[s].retries > 0
    THEN /\ job' = [job EXCEPT ![s].retries = @ - 1, ![s].caller = NoCaller]
         /\ UNCHANGED results
    ELSE job' = [job EXCEPT ![s] = NoJob] /\ UNCHANGED results

\* A bug: one attempt too many.
RetryOnceMore(s) ==
    IF job[s].retries >= 0
    THEN /\ job' = [job EXCEPT ![s].retries = @ - 1, ![s].caller = NoCaller]
         /\ UNCHANGED results
    ELSE Return(s, "transport_error", NoTicket)

\* A bug: `attempt` does not advance.
RetryForever(s) ==
    /\ job' = [job EXCEPT ![s].caller = NoCaller]
    /\ UNCHANGED results

\* The attempt raised: a timeout, a lost connection, or a body that is not JSON.
AttemptFails(s) ==
    IF job[s].retries > 0
    THEN /\ job' = [job EXCEPT ![s].retries = @ - 1, ![s].caller = NoCaller]
         /\ UNCHANGED results
    ELSE Return(s, "transport_error", NoTicket)

\* The send does not get past the limiter: it is answered 429, which is a result
\* like any other, unless the answer gets lost.
Reject(s) ==
    /\ job[s] # NoJob /\ job[s].caller = NoCaller
    /\ Return(s, "rate_limited", NoTicket) \/ AttemptFails(s)
    /\ UNCHANGED <<vars, phase, planVars, left, statusVars>>

\* The answer of c reaches the slot that waits for it, or gets lost.  The error
\* of a handler may be a JSON body (a result) or a bare 500 (a failed attempt).
Reach(c, status, ticket) ==
    /\ IF \E s \in Slots : job[s] # NoJob /\ job[s].caller = c
       THEN LET s == CHOOSE t \in Slots : job[t] # NoJob /\ job[t].caller = c
            IN  Return(s, status, ticket) \/ AttemptFails(s)
       ELSE UNCHANGED <<job, results>>
    /\ UNCHANGED <<phase, planVars, left, statusVars>>

Serve(c) ==
    \/ Sell(c) /\ Reach(c, "success", sold + 1)
    \/ /\ Replay(c)
       /\ \E s \in sales : /\ s.req = pending[c].req
                           /\ Reach(c, "already_processed", s.ticket)
    \/ SoldOut(c) /\ Reach(c, "sold_out", NoTicket)
    \/ Fail(c) /\ Reach(c, "error", NoTicket)

\* The attempt times out; its execution goes on.
TimeOut(s) ==
    /\ job[s] # NoJob /\ job[s].caller # NoCaller
    /\ AttemptFails(s)
    /\ UNCHANGED <<vars, phase, planVars, left, statusVars>>

-----------------------------------------------------------------------------
(* GET /status and check_invariants                                        *)

\* The checker asks once every send has a result; the others at any time.
Asks(g) ==
    /\ at[g] = "idle"
    /\ IF g = Checker
       THEN /\ phase = "load"
            /\ \A r \in Reqs : left[r] = 0
            /\ \A s \in Slots : job[s] = NoJob
       ELSE phase # "done"

Deliver(g, status) ==
    IF g = Checker
    THEN report' = status /\ phase' = "done"
    ELSE UNCHANGED <<report, phase>>

Hit(g) ==
    /\ Asks(g)
    /\ cache # NoStatus
    /\ at' = [at EXCEPT ![g] = "done"]
    /\ Deliver(g, cache)
    /\ UNCHANGED <<vars, planVars, left, job, results, cache, got>>

\* A miss, or Redis cannot be asked: get_status, which reads the counter first.
StatusCount(g) ==
    /\ Asks(g)
    /\ at' = [at EXCEPT ![g] = "count"]
    /\ got' = [got EXCEPT ![g] = [count |-> sold, rows |-> {},
                                 busy |-> \E c \in Callers : pending[c] # NoBuy]]
    /\ UNCHANGED <<vars, clientVars, report, cache>>

StatusRows(g) ==
    /\ at[g] = "count"
    /\ at' = [at EXCEPT ![g] = "rows"]
    /\ got' = [got EXCEPT ![g].rows = sales]
    /\ UNCHANGED <<vars, clientVars, report, cache>>

\* SET may fail; the status is returned in any case.
Store(g) ==
    /\ at[g] = "rows"
    /\ cache' = got[g] \/ UNCHANGED cache
    /\ Deliver(g, got[g])
    /\ at' = [at EXCEPT ![g] = "done"]
    /\ got' = [got EXCEPT ![g] = NoStatus]
    /\ UNCHANGED <<vars, planVars, left, job, results>>

\* A bug: invalidation patches the entry in place.
PatchEntry ==
    /\ cache # NoStatus
    /\ cache' = [cache EXCEPT !.count = sold]
    /\ UNCHANGED <<vars, clientVars, report, at, got>>

\* The entry is deleted after a commit, expires, or Redis loses it.  Nothing says
\* that it is deleted in time: see StatusCache.
DropEntry ==
    /\ cache # NoStatus
    /\ cache' = NoStatus
    /\ UNCHANGED <<vars, clientVars, report, at, got>>

INV1 == report.count <= Total /\ Cardinality(report.rows) <= Total
INV2 == Cardinality(report.rows) = Cardinality({s.ticket : s \in report.rows})
Named == {x \in results : x.status \in {"success", "already_processed"}}
INV3 ==
    /\ \A x, y \in Named : x.req = y.req => x.ticket = y.ticket
    /\ \A x \in Named, s \in report.rows : x.req = s.req => x.ticket = s.ticket
INV4 == report.count = Cardinality(report.rows)

-----------------------------------------------------------------------------

Finished ==
    /\ phase = "done"
    /\ \A c \in Callers : pending[c] = NoBuy
    /\ UNCHANGED allVars

SlotStep(s) == (\E r \in Reqs : Take(s, r)) \/ (\E c \in Callers : Fire(s, c))
GetStep(g) == Hit(g) \/ StatusCount(g) \/ StatusRows(g) \/ Store(g)

ClientNext ==
    \/ \E c \in Callers, r \in Reqs : Leftover(c, r)
    \/ Start
    \/ \E s \in Slots : SlotStep(s) \/ Reject(s) \/ TimeOut(s)
    \/ \E c \in Callers : Serve(c)
    \/ \E g \in Getters : GetStep(g)
    \/ DropEntry
    \/ Finished

\* The client starts, and from then on one of its threads or tasks, or of the
\* server's, runs as long as any can.  No more is needed, since a load is finite;
\* nothing is assumed of timeouts, rejections, leftovers and the cache.
Running ==
    \/ Start
    \/ /\ phase # "start"
       /\ \/ \E s \in Slots : SlotStep(s)
          \/ \E c \in Callers : Serve(c)
          \/ GetStep(Checker)

ClientFairness == WF_allVars(Running)

ClientSpec == ClientInit /\ [][ClientNext]_allVars /\ ClientFairness

-----------------------------------------------------------------------------

StatusTypeOK ==
    /\ cache \in Status \cup {NoStatus} /\ report \in Status \cup {NoStatus}
    /\ at \in [Getters -> {"idle", "count", "rows", "done"}]
    /\ got \in [Getters -> Status \cup {NoStatus}]
    /\ \A g \in Getters : at[g] \in {"count", "rows"} <=> got[g] # NoStatus

\* The service's and the client's variables keep their types, a send is tried at
\* most MaxRetries + 1 times, and a load has its verdict with its status.
ClientTypeOK ==
    /\ TypeOK /\ StatusTypeOK
    /\ phase \in {"start", "load", "done"}
    /\ phase = "done" <=> report # NoStatus
    /\ plan \in Plans
    /\ \A r \in Reqs : left[r] \in 0 .. plan[r]
    /\ buyer \in [Reqs -> Users]
    /\ job \in [Slots -> Job \cup {NoJob}]
    /\ results \subseteq RequestResult

\* Against a service that keeps its contract the client never reports INV1, INV2
\* or INV3 as failed, whatever it lost, retried or gave up and however old the
\* status is that it is served: no false alarm about overselling, ticket numbers
\* or idempotency.
NoFalseAlarm == phase = "done" => INV1 /\ INV2 /\ INV3

\* INV4 can be reported as failed by a correct service, but only for a status
\* between whose two reads a buy or a reset was running: a send that was given
\* up, while the checker read it itself; any buy at all, or the reset, when it was
\* served a status that somebody else read and left in the cache.
AlarmIsTornRead == phase = "done" /\ ~INV4 => report.busy

\* At the end the client knows of every ticket on record for its plan, those of
\* executions it gave up included: some send was told the number, or ended
\* without an answer that could tell it.  It is never left with "sold_out" alone.
NoTicketLost ==
    phase = "done" =>
        \A s \in sales : plan[s.req] > 0 =>
            \E x \in results :
                /\ x.req = s.req
                /\ \/ x.ticket = s.ticket
                   \/ x.status \in {"error", "rate_limited", "transport_error"}

\* Every load ends with a verdict.
LoadEnds == <>(phase = "done")

==============================================================================

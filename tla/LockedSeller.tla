----------------------------- MODULE LockedSeller -----------------------------
(***************************************************************************)
(* Stage 2, seller/main.py: the in-memory seller whose POST /buy and       *)
(* POST /reset run under one process-wide threading.Lock.  Each request    *)
(* runs on a thread of Starlette's pool, so every statement of buy() is a  *)
(* step of its own thread; the two time.sleep() calls are the points       *)
(* between the steps.  The values of a `with buy_lock` block that only its *)
(* own thread can see (the response object) are built in the step that     *)
(* leaves the block.                                                       *)
(*                                                                         *)
(* total_tickets is assigned only TOTAL_TICKETS, so it is the constant     *)
(* Total here.  GET /status is added by SellerStatus.                      *)
(***************************************************************************)
EXTENDS Integers, Sequences, Functions

CONSTANTS
    Threads,        \* threads of the pool
    Reqs,           \* req_ids
    Users,          \* user_ids
    Total,          \* TOTAL_TICKETS
    NoThread,       \* the owner of a free lock
    NoBuy,          \* a thread's request while it is idle
    ReplayCount,    \* how often the client sends a replayed req_id
    MaxResets       \* bound on the number of POST /reset calls

Buy == [req : Reqs, user : Users]

ASSUME TotalAssumption == Total \in Nat
ASSUME BoundsAssumption == ReplayCount \in Nat /\ MaxResets \in Nat
ASSUME NoBuyAssumption == NoBuy \notin Buy
ASSUME NoThreadAssumption == NoThread \notin Threads

VARIABLES
    sold_count,         \* state["sold_count"]
    processed_requests, \* state["processed_requests"]: ticket of a req_id
    user_tickets,       \* state["user_tickets"]: tickets of a user_id, in order
    buy_lock,           \* the thread inside `with buy_lock`, or NoThread
    pc,                 \* next step of each thread
    buy,                \* the BuyRequest each thread handles
    seen,               \* local already_processed / ticket_number_if_...
    sold_out,           \* local sold_out
    ticket_number,      \* local ticket_number
    plan,               \* how often the client still sends each req_id
    resets,             \* POST /reset calls still to come
    answers             \* history: the responses since the last reset

locals == <<buy, seen, sold_out, ticket_number>>
state == <<sold_count, processed_requests, user_tickets>>
vars == <<state, buy_lock, pc, locals, plan, resets, answers>>

NoTicket == 0   \* "req_id not in processed_requests"

Steps == {"idle", "waiting", "checked", "gated", "counted", "recorded"}

\* build_request_plan: every req_id is sent once, or ReplayCount times.
Plans == [Reqs -> {1, ReplayCount}]

Init ==
    /\ sold_count = 0
    /\ processed_requests = [r \in Reqs |-> NoTicket]
    /\ user_tickets = [u \in Users |-> <<>>]
    /\ buy_lock = NoThread
    /\ pc = [t \in Threads |-> "idle"]
    /\ buy = [t \in Threads |-> NoBuy]
    /\ seen = [t \in Threads |-> NoTicket]
    /\ sold_out = [t \in Threads |-> FALSE]
    /\ ticket_number = [t \in Threads |-> NoTicket]
    /\ plan \in Plans
    /\ resets = MaxResets
    /\ answers = {}

-----------------------------------------------------------------------------
(* POST /buy                                                               *)

Goto(t, from, to) ==
    /\ pc[t] = from
    /\ pc' = [pc EXCEPT ![t] = to]

\* The client sends a planned request and thread t starts buy().
Arrive(t, r, u) ==
    /\ Goto(t, "idle", "waiting")
    /\ plan[r] > 0
    /\ plan' = [plan EXCEPT ![r] = @ - 1]
    /\ buy' = [buy EXCEPT ![t] = [req |-> r, user |-> u]]
    /\ UNCHANGED <<state, buy_lock, seen, sold_out, ticket_number, resets, answers>>

ReadRequest(t) ==
    /\ seen' = [seen EXCEPT ![t] = processed_requests[buy[t].req]]
    /\ UNCHANGED <<state, buy, sold_out, ticket_number, plan, resets, answers>>

\* A bug: the idempotency read happens before the lock is taken.
CheckRequestUnlocked(t) ==
    /\ Goto(t, "waiting", "checked")
    /\ ReadRequest(t)
    /\ UNCHANGED buy_lock

\* `with buy_lock:` is entered and the idempotency read done.
CheckRequest(t) ==
    /\ Goto(t, "waiting", "checked")
    /\ buy_lock = NoThread
    /\ buy_lock' = t
    /\ ReadRequest(t)

\* return BuyResponse(...): the response is complete, the lock is released
\* and the thread goes back to the pool.
Respond(t, status, ticket, remaining) ==
    /\ answers' = answers \cup
            {[req |-> buy[t].req, user |-> buy[t].user, status |-> status,
              ticket |-> ticket, remaining |-> remaining]}
    /\ buy_lock' = NoThread
    /\ buy' = [buy EXCEPT ![t] = NoBuy]
    /\ seen' = [seen EXCEPT ![t] = NoTicket]
    /\ sold_out' = [sold_out EXCEPT ![t] = FALSE]
    /\ ticket_number' = [ticket_number EXCEPT ![t] = NoTicket]

AnswerReplay(t) ==
    /\ Goto(t, "checked", "idle")
    /\ seen[t] # NoTicket
    /\ Respond(t, "already_processed", seen[t], Total - sold_count)
    /\ UNCHANGED <<state, plan, resets>>

\* A bug: > for >=.
CheckStockOffByOne(t) ==
    /\ Goto(t, "checked", "gated")
    /\ seen[t] = NoTicket
    /\ sold_out' = [sold_out EXCEPT ![t] = (sold_count > Total)]
    /\ UNCHANGED <<state, buy_lock, buy, seen, ticket_number, plan, resets, answers>>

CheckStock(t) ==
    /\ Goto(t, "checked", "gated")
    /\ seen[t] = NoTicket
    /\ sold_out' = [sold_out EXCEPT ![t] = (sold_count >= Total)]
    /\ UNCHANGED <<state, buy_lock, buy, seen, ticket_number, plan, resets, answers>>

\* A bug: a sold-out buy queues for the lock again instead of answering.
RetrySoldOut(t) ==
    /\ Goto(t, "gated", "waiting")
    /\ sold_out[t]
    /\ buy_lock' = NoThread
    /\ UNCHANGED <<state, locals, plan, resets, answers>>

AnswerSoldOut(t) ==
    /\ Goto(t, "gated", "idle")
    /\ sold_out[t]
    /\ Respond(t, "sold_out", NoTicket, 0)
    /\ UNCHANGED <<state, plan, resets>>

\* state["sold_count"] += 1 and the read of it into ticket_number.
TakeTicket(t) ==
    /\ Goto(t, "gated", "counted")
    /\ ~sold_out[t]
    /\ sold_count' = sold_count + 1
    /\ ticket_number' = [ticket_number EXCEPT ![t] = sold_count + 1]
    /\ UNCHANGED <<processed_requests, user_tickets, buy_lock, buy, seen,
                   sold_out, plan, resets, answers>>

\* A bug: the req_id is not remembered.
ForgetRequest(t) ==
    /\ Goto(t, "counted", "recorded")
    /\ UNCHANGED <<state, buy_lock, locals, plan, resets, answers>>

RecordRequest(t) ==
    /\ Goto(t, "counted", "recorded")
    /\ processed_requests' =
            [processed_requests EXCEPT ![buy[t].req] = ticket_number[t]]
    /\ UNCHANGED <<sold_count, user_tickets, buy_lock, locals, plan, resets, answers>>

RecordUser(t) ==
    /\ Goto(t, "recorded", "idle")
    /\ user_tickets' =
            [user_tickets EXCEPT ![buy[t].user] = Append(@, ticket_number[t])]
    /\ Respond(t, "success", ticket_number[t], Total - sold_count)
    /\ UNCHANGED <<sold_count, processed_requests, plan, resets>>

-----------------------------------------------------------------------------
(* POST /reset: one `with buy_lock` block.  Nothing but buy() reads what   *)
(* its assignments change before it ends, and buy() waits for the lock.    *)

\* A bug: user_tickets becomes a list, not a dictionary of lists.
WipeToList ==
    /\ sold_count' = 0
    /\ processed_requests' = [r \in Reqs |-> NoTicket]
    /\ user_tickets' = <<>>

Wipe ==
    /\ sold_count' = 0
    /\ processed_requests' = [r \in Reqs |-> NoTicket]
    /\ user_tickets' = [u \in Users |-> <<>>]

\* A bug: the reset does not take the lock.
ResetUnlocked ==
    /\ resets > 0
    /\ resets' = resets - 1
    /\ Wipe
    /\ answers' = {}
    /\ UNCHANGED <<buy_lock, pc, locals, plan>>

Reset ==
    /\ resets > 0
    /\ resets' = resets - 1
    /\ buy_lock = NoThread
    /\ Wipe
    /\ answers' = {}
    /\ UNCHANGED <<buy_lock, pc, locals, plan>>

-----------------------------------------------------------------------------

BuyStep(t) ==
    \/ CheckRequest(t) \/ AnswerReplay(t)
    \/ CheckStock(t) \/ AnswerSoldOut(t)
    \/ TakeTicket(t) \/ RecordRequest(t) \/ RecordUser(t)

\* The client has sent its plan and has every answer: the run is over.
Finished ==
    /\ \A r \in Reqs : plan[r] = 0
    /\ \A t \in Threads : pc[t] = "idle"
    /\ UNCHANGED vars

Next ==
    \/ \E t \in Threads : BuyStep(t) \/ \E r \in Reqs, u \in Users : Arrive(t, r, u)
    \/ Reset
    \/ Finished

Spec == Init /\ [][Next]_vars

\* The operating system runs every thread that is not blocked, and the client
\* sends its whole plan.  No thread is promised the lock: threading.Lock is
\* not fair.
Fairness ==
    /\ \A t \in Threads : WF_vars(BuyStep(t))
    /\ WF_vars(\E t \in Threads, r \in Reqs, u \in Users : Arrive(t, r, u))

FairSpec == Spec /\ Fairness

-----------------------------------------------------------------------------
(* Properties                                                              *)

\* Every variable keeps the type its comment gives it.
TypeOK ==
    /\ sold_count \in Nat
    /\ processed_requests \in [Reqs -> Nat]
    /\ user_tickets \in [Users -> Seq(Nat)]
    /\ buy_lock \in Threads \cup {NoThread}
    /\ pc \in [Threads -> Steps]
    /\ buy \in [Threads -> Buy \cup {NoBuy}]
    /\ seen \in [Threads -> Nat]
    /\ sold_out \in [Threads -> BOOLEAN]
    /\ ticket_number \in [Threads -> Nat]
    /\ plan \in [Reqs -> Nat]
    /\ resets \in Nat
    /\ answers \subseteq [req : Reqs, user : Users, ticket : Nat, remaining : Int,
                          status : {"success", "already_processed", "sold_out"}]

\* INV1 of the load client: however buys and resets interleave, no more
\* tickets are sold than there are.
NoOverselling == sold_count <= Total

\* A recorded req_id, and the number recorded for it.
Processed == {r \in Reqs : processed_requests[r] # NoTicket}

\* INV2 and INV4 of the load client: when no thread is inside the lock, the
\* tickets on record for req_ids are exactly 1 .. sold_count, each recorded
\* for one req_id, and so are the tickets in the users' lists.
BookkeepingConsistent ==
    buy_lock = NoThread =>
        /\ {processed_requests[r] : r \in Processed} = 1 .. sold_count
        /\ \A r1, r2 \in Processed :
               processed_requests[r1] = processed_requests[r2] => r1 = r2
        /\ UNION {Range(user_tickets[u]) : u \in Users} = 1 .. sold_count
        /\ \A u1, u2 \in Users :
               \A i \in DOMAIN user_tickets[u1], j \in DOMAIN user_tickets[u2] :
                   user_tickets[u1][i] = user_tickets[u2][j] => u1 = u2 /\ i = j

\* INV3 of the load client: every answer that names a ticket names the one
\* the server has on record for the req_id, a req_id is sold at most once, and
\* one that was told "sold_out" never holds a ticket.
IdempotentAnswers ==
    \A a \in answers :
        /\ a.status \in {"success", "already_processed"} =>
               a.ticket = processed_requests[a.req] /\ a.ticket # NoTicket
        /\ a.status = "sold_out" => processed_requests[a.req] = NoTicket
        /\ \A b \in answers :
               a.req = b.req /\ a.status = "success" /\ b.status = "success" => a = b

\* Every request that reached buy() is answered, although the lock is unfair:
\* the plan is finite, so the threads that overtake it run out.
EveryBuyAnswered == \A t \in Threads : pc[t] = "waiting" ~> pc[t] = "idle"

-----------------------------------------------------------------------------
(* The seller implements the ticket service: a sale takes effect when it   *)
(* is in the user's list, the last write of the block.                     *)

Unrecorded == \E t \in Threads : pc[t] \in {"counted", "recorded"}

Service == INSTANCE TicketService WITH
    Callers <- Threads,
    Faulty  <- FALSE,
    sold    <- IF Unrecorded THEN sold_count - 1 ELSE sold_count,
    sales   <- {s \in [req : Reqs, user : Users, ticket : 1 .. sold_count] :
                    /\ processed_requests[s.req] = s.ticket
                    /\ s.ticket \in Range(user_tickets[s.user])},
    pending <- buy

\* Linearizability: every buy takes effect in one step between its arrival
\* and its answer, as if the requests had run one after the other.
ImplementsService == Service!Spec
=============================================================================

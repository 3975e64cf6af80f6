----------------------------- MODULE NaiveSeller -----------------------------
(***************************************************************************)
(* Stage 1, naive/main.py: the same buy() without a lock.  Every read and  *)
(* write of the shared dictionary is a step of its thread, and any other   *)
(* thread may run between two of them.                                     *)
(*                                                                         *)
(* No Python build is pinned, so threads may switch between any two        *)
(* bytecodes: `sold_count += 1` is a load and a store, and the number a    *)
(* buyer is told is read by a third step.                                  *)
(***************************************************************************)
EXTENDS Integers, FiniteSets

CONSTANTS
    Threads, Reqs, Users,   \* threads of the pool, req_ids, user_ids
    Total,                  \* TOTAL_TICKETS
    NoBuy,                  \* a thread's request while it is idle
    ReplayCount,            \* how often the client sends a replayed req_id
    MaxResets               \* bound on the number of POST /reset calls

ASSUME TotalAssumption == Total \in Nat
ASSUME ThreadsAssumption == IsFiniteSet(Threads) /\ Threads # {}
ASSUME BoundsAssumption == ReplayCount \in Nat /\ MaxResets \in Nat

VARIABLES
    sold_count, processed_requests, user_tickets,
    pc, buy,
    already_processed,  \* local: the result of `req_id in processed_requests`
    ticket_number,      \* local: the number read or issued last
    sold_out,           \* local
    plan, resets,
    answers,            \* history: every response given
    granted,            \* history: <<req_id, ticket>> of every sale
    late,               \* history: req_id answered before this buy arrived
    told,               \* history: the numbers sold to others before it arrived
    torn                \* history: a store overwrote a count it had not loaded

shared == <<sold_count, processed_requests, user_tickets>>
locals == <<buy, already_processed, ticket_number, sold_out>>
history == <<answers, granted, late, told, torn>>
vars == <<shared, pc, locals, plan, resets, history>>

NoTicket == 0

Init ==
    /\ sold_count = 0
    /\ processed_requests = [r \in Reqs |-> NoTicket]
    /\ user_tickets = [u \in Users |-> 0]
    /\ pc = [t \in Threads |-> "idle"]
    /\ buy = [t \in Threads |-> NoBuy]
    /\ already_processed = [t \in Threads |-> FALSE]
    /\ ticket_number = [t \in Threads |-> NoTicket]
    /\ sold_out = [t \in Threads |-> FALSE]
    /\ plan \in [Reqs -> {1, ReplayCount}]
    /\ resets = MaxResets
    /\ answers = {}
    /\ granted = {}
    /\ late = [t \in Threads |-> FALSE]
    /\ told = [t \in Threads |-> {}]
    /\ torn = FALSE

Goto(t, from, to) ==
    /\ pc[t] = from
    /\ pc' = [pc EXCEPT ![t] = to]

-----------------------------------------------------------------------------
(* POST /buy                                                               *)

Arrive(t, r, u) ==
    /\ Goto(t, "idle", "start")
    /\ plan[r] > 0
    /\ plan' = [plan EXCEPT ![r] = @ - 1]
    /\ buy' = [buy EXCEPT ![t] = [req |-> r, user |-> u]]
    /\ late' = [late EXCEPT ![t] = \E a \in answers : a.req = r /\ a.status = "success"]
    /\ told' = [told EXCEPT ![t] = {a.ticket : a \in {b \in answers : b.status = "success"}}]
    /\ UNCHANGED <<shared, already_processed, ticket_number, sold_out, resets,
                   answers, granted, torn>>

CheckRequest(t) ==
    /\ Goto(t, "start", "member")
    /\ already_processed' =
            [already_processed EXCEPT ![t] = processed_requests[buy[t].req] # NoTicket]
    /\ UNCHANGED <<shared, buy, ticket_number, sold_out, plan, resets, history>>

GetTicket(t) ==
    /\ Goto(t, "member", "checked")
    /\ ticket_number' = [ticket_number EXCEPT ![t] = processed_requests[buy[t].req]]
    /\ UNCHANGED <<shared, buy, already_processed, sold_out, plan, resets, history>>

Respond(t, status, ticket) ==
    /\ answers' = answers \cup
            {[thread |-> t, req |-> buy[t].req, status |-> status, ticket |-> ticket]}
    /\ buy' = [buy EXCEPT ![t] = NoBuy]
    /\ already_processed' = [already_processed EXCEPT ![t] = FALSE]
    /\ ticket_number' = [ticket_number EXCEPT ![t] = NoTicket]
    /\ sold_out' = [sold_out EXCEPT ![t] = FALSE]
    /\ late' = [late EXCEPT ![t] = FALSE]
    /\ told' = [told EXCEPT ![t] = {}]
    /\ UNCHANGED torn

AnswerReplay(t) ==
    /\ Goto(t, "checked", "idle")
    /\ already_processed[t]
    /\ Respond(t, "already_processed", ticket_number[t])
    /\ UNCHANGED <<shared, plan, resets, granted>>

\* A bug: the stock is not checked at all.
SkipStock(t) ==
    /\ Goto(t, "checked", "gated")
    /\ ~already_processed[t]
    /\ UNCHANGED <<shared, locals, plan, resets, history>>

CheckStock(t) ==
    /\ Goto(t, "checked", "gated")
    /\ ~already_processed[t]
    /\ sold_out' = [sold_out EXCEPT ![t] = (sold_count >= Total)]
    /\ UNCHANGED <<shared, buy, already_processed, ticket_number, plan, resets, history>>

AnswerSoldOut(t) ==
    /\ Goto(t, "gated", "idle")
    /\ sold_out[t]
    /\ Respond(t, "sold_out", NoTicket)
    /\ UNCHANGED <<shared, plan, resets, granted>>

\* The bytecodes of `sold_count += 1`, kept apart: the number loaded waits in
\* ticket_number until it is stored.
LoadCount(t) ==
    /\ Goto(t, "gated", "loaded")
    /\ ~sold_out[t]
    /\ ticket_number' = [ticket_number EXCEPT ![t] = sold_count]
    /\ UNCHANGED <<shared, buy, already_processed, sold_out, plan, resets, history>>

StoreCount(t) ==
    /\ Goto(t, "loaded", "stored")
    /\ sold_count' = ticket_number[t] + 1
    /\ torn' = (torn \/ sold_count # ticket_number[t])
    /\ UNCHANGED <<processed_requests, user_tickets, locals, plan, resets,
                   answers, granted, late, told>>

\* ticket_number = state["sold_count"]
ReadTicket(t) ==
    /\ Goto(t, "stored", "counted")
    /\ ticket_number' = [ticket_number EXCEPT ![t] = sold_count]
    /\ granted' = granted \cup {<<buy[t].req, sold_count>>}
    /\ UNCHANGED <<shared, buy, already_processed, sold_out, plan, resets,
                   answers, late, told, torn>>

\* A bug: the req_id is not remembered.
ForgetRequest(t) ==
    /\ Goto(t, "counted", "recorded")
    /\ UNCHANGED <<shared, locals, plan, resets, history>>

\* A bug: a sale of a req_id sold already gives its count back and keeps its number.
GiveCountBack(t) ==
    /\ Goto(t, "counted", "recorded")
    /\ sold_count' = IF processed_requests[buy[t].req] = NoTicket
                     THEN sold_count ELSE sold_count - 1
    /\ processed_requests' =
            [processed_requests EXCEPT ![buy[t].req] = ticket_number[t]]
    /\ UNCHANGED <<user_tickets, locals, plan, resets, history>>

\* A bug: the counter is read a second time instead of the local number.
RecordCount(t) ==
    /\ Goto(t, "counted", "recorded")
    /\ processed_requests' = [processed_requests EXCEPT ![buy[t].req] = sold_count]
    /\ UNCHANGED <<sold_count, user_tickets, locals, plan, resets, history>>

RecordRequest(t) ==
    /\ Goto(t, "counted", "recorded")
    /\ processed_requests' =
            [processed_requests EXCEPT ![buy[t].req] = ticket_number[t]]
    /\ UNCHANGED <<sold_count, user_tickets, locals, plan, resets, history>>

\* Only the length of a user's list matters to what is checked.
RecordUser(t) ==
    /\ Goto(t, "recorded", "idle")
    /\ user_tickets' = [user_tickets EXCEPT ![buy[t].user] = @ + 1]
    /\ Respond(t, "success", ticket_number[t])
    /\ UNCHANGED <<sold_count, processed_requests, plan, resets, granted>>

-----------------------------------------------------------------------------
(* POST /reset: three assignments that change something.                   *)

ResetCount(t) ==
    /\ Goto(t, "idle", "reset requests")
    /\ resets > 0
    /\ resets' = resets - 1
    /\ sold_count' = 0
    /\ UNCHANGED <<processed_requests, user_tickets, locals, plan, history>>

ResetRequests(t) ==
    /\ Goto(t, "reset requests", "reset users")
    /\ processed_requests' = [r \in Reqs |-> NoTicket]
    /\ UNCHANGED <<sold_count, user_tickets, locals, plan, resets, history>>

ResetUsers(t) ==
    /\ Goto(t, "reset users", "idle")
    /\ user_tickets' = [u \in Users |-> 0]
    /\ UNCHANGED <<sold_count, processed_requests, locals, plan, resets, history>>

-----------------------------------------------------------------------------

Step(t) ==
    \/ \E r \in Reqs, u \in Users : Arrive(t, r, u)
    \/ CheckRequest(t) \/ GetTicket(t) \/ AnswerReplay(t)
    \/ CheckStock(t) \/ AnswerSoldOut(t)
    \/ LoadCount(t) \/ StoreCount(t) \/ ReadTicket(t) \/ RecordRequest(t)
    \/ RecordUser(t)
    \/ ResetCount(t) \/ ResetRequests(t) \/ ResetUsers(t)

Finished ==
    /\ \A r \in Reqs : plan[r] = 0
    /\ \A t \in Threads : pc[t] = "idle"
    /\ UNCHANGED vars

Next ==
    \/ \E t \in Threads : Step(t)
    \/ Finished

Spec == Init /\ [][Next]_vars

-----------------------------------------------------------------------------
(* What the naive seller keeps.  It breaks INV1, INV2 and INV3 of the load  *)
(* client, as its comments announce; these say how far.                    *)

\* Until an increment is lost, every thread but the first adds at most one ticket
\* beyond the last: overselling is bounded by the number of requests in flight,
\* which is why the captured run shows 101 of 100.
OversellBounded == ~torn => sold_count <= Total + Cardinality(Threads) - 1

\* Two buyers can be told the same number (both count, then both read back), but
\* only if their buys overlapped: until an increment is lost or somebody resets,
\* no buy is sold a number that had been answered before it arrived.
DuplicatesOverlap ==
    ~torn /\ resets = MaxResets =>
        \A t \in Threads :
            pc[t] \in {"counted", "recorded"} => ticket_number[t] \notin told[t]

\* A retry sent after the first answer is safe even here: it never sells
\* again as long as nobody resets.
LateRetrySafe ==
    \A t \in Threads :
        resets = MaxResets /\ late[t] =>
            pc[t] \in {"start", "member", "checked"} /\
            (pc[t] # "start" => already_processed[t])

\* A replay is never answered with a ticket number that no buy of its req_id
\* was granted, whatever races and resets went on.
ReplayNamesAGrant ==
    \A a \in answers :
        a.status = "already_processed" /\ a.ticket # NoTicket =>
            <<a.req, a.ticket>> \in granted
=============================================================================

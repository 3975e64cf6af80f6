-------------------------- MODULE LockedSellerProofs --------------------------
(***************************************************************************)
(* Proofs about LockedSeller, for every set of threads, req_ids and users, *)
(* every number of tickets and every client plan: type correctness, no     *)
(* overselling, idempotent answers, records that agree whenever the lock   *)
(* is free, the refinement of TicketService, and, for every number of      *)
(* pollers, that GET /status (SellerStatus) misses no sale.                *)
(***************************************************************************)
EXTENDS SellerStatus, TLAPS

Selling == {"counted", "recorded"}

\* A thread handles a request exactly when it has left the pool.
Busy ==
    \A t \in Threads : /\ pc[t] # "idle" => buy[t] \in Buy
                       /\ pc[t] = "idle" => buy[t] = NoBuy

\* The lock is held by the one thread inside `with buy_lock`, if any.
Locked == \A t \in Threads : pc[t] \notin {"idle", "waiting"} <=> buy_lock = t

\* What the thread inside the block has read is still so: the reads it acts
\* on are never stale.
NoStaleRead ==
    \A t \in Threads :
        /\ pc[t] = "checked" => seen[t] = processed_requests[buy[t].req]
        /\ pc[t] \in {"gated", "counted"} => processed_requests[buy[t].req] = NoTicket
        /\ pc[t] = "gated" => (sold_out[t] <=> sold_count >= Total)
        /\ pc[t] \in Selling => ticket_number[t] = sold_count /\ sold_count > 0
        /\ pc[t] = "recorded" => processed_requests[buy[t].req] = sold_count

\* While a ticket is being sold nobody was told "sold_out", and nobody was
\* given an answer to the req_id it is sold to.
SaleInProgress ==
    \A t \in Threads, a \in answers :
        pc[t] \in Selling => a.status # "sold_out" /\ a.req # buy[t].req

SoldOutIsFinal == \A a \in answers : a.status = "sold_out" => sold_count >= Total

IInv ==
    /\ TypeOK
    /\ Busy
    /\ Locked
    /\ NoStaleRead
    /\ NoOverselling
    /\ SaleInProgress
    /\ SoldOutIsFinal
    /\ IdempotentAnswers

USE TotalAssumption, NoThreadAssumption, NoBuyAssumption DEF NoTicket

LEMMA InitIInv == Init => IInv
  BY BoundsAssumption DEF Init, IInv, TypeOK, Plans, Steps, Busy, Locked,
     NoStaleRead, NoOverselling, SaleInProgress, SoldOutIsFinal, IdempotentAnswers, Selling

LEMMA AnswerType ==
  ASSUME TypeOK
  PROVE  \A a \in answers : /\ a.req \in Reqs
                            /\ a.status \in {"success", "already_processed", "sold_out"}
  BY DEF TypeOK

-----------------------------------------------------------------------------
(* Steps that answer nobody                                                *)

LEMMA ArriveStep ==
  ASSUME IInv, NEW t \in Threads, NEW r \in Reqs, NEW u \in Users, Arrive(t, r, u)
  PROVE  IInv'
<1> USE DEF IInv
<1>1. /\ pc[t] = "idle" /\ pc' = [pc EXCEPT ![t] = "waiting"]
      /\ plan[r] > 0 /\ plan' = [plan EXCEPT ![r] = plan[r] - 1]
      /\ buy' = [buy EXCEPT ![t] = [req |-> r, user |-> u]]
      /\ UNCHANGED <<sold_count, processed_requests, user_tickets, buy_lock, seen,
                     sold_out, ticket_number, resets, answers>>
  BY DEF Arrive, Goto, state
<1>2. TypeOK'
  <2>1. plan' \in [Reqs -> Nat]
    <3>1. plan[r] - 1 \in Nat
      BY <1>1 DEF TypeOK
    <3> QED BY <1>1, <3>1 DEF TypeOK
  <2>2. pc' \in [Threads -> Steps] /\ buy' \in [Threads -> Buy \cup {NoBuy}]
    BY <1>1 DEF TypeOK, Steps, Buy
  <2> QED BY <1>1, <2>1, <2>2 DEF TypeOK
<1>3. Busy' /\ Locked'
  BY <1>1 DEF TypeOK, Busy, Locked, Buy
<1>4. NoStaleRead' /\ SaleInProgress'
  BY <1>1 DEF TypeOK, NoStaleRead, SaleInProgress, Selling
<1>5. NoOverselling' /\ SoldOutIsFinal' /\ IdempotentAnswers'
  BY <1>1 DEF NoOverselling, SoldOutIsFinal, IdempotentAnswers
<1> QED BY <1>2, <1>3, <1>4, <1>5

LEMMA CheckRequestStep ==
  ASSUME IInv, NEW t \in Threads, CheckRequest(t) PROVE IInv'
<1> USE DEF IInv
<1>1. /\ pc[t] = "waiting" /\ pc' = [pc EXCEPT ![t] = "checked"]
      /\ buy_lock = NoThread /\ buy_lock' = t
      /\ seen' = [seen EXCEPT ![t] = processed_requests[buy[t].req]]
      /\ UNCHANGED <<sold_count, processed_requests, user_tickets, buy, sold_out,
                     ticket_number, plan, resets, answers>>
  BY DEF CheckRequest, ReadRequest, Goto, state
<1>2. buy[t] \in Buy /\ buy[t].req \in Reqs
  BY <1>1 DEF Busy, Buy
<1>3. TypeOK'
  BY <1>1, <1>2 DEF TypeOK, Steps
<1>4. Busy' /\ Locked'
  BY <1>1 DEF TypeOK, Busy, Locked
<1>5. NoStaleRead' /\ SaleInProgress'
  BY <1>1 DEF TypeOK, Locked, NoStaleRead, SaleInProgress, Selling
<1>6. NoOverselling' /\ SoldOutIsFinal' /\ IdempotentAnswers'
  BY <1>1 DEF NoOverselling, SoldOutIsFinal, IdempotentAnswers
<1> QED BY <1>3, <1>4, <1>5, <1>6

LEMMA CheckStockStep ==
  ASSUME IInv, NEW t \in Threads, CheckStock(t) PROVE IInv'
<1> USE DEF IInv
<1>1. /\ pc[t] = "checked" /\ pc' = [pc EXCEPT ![t] = "gated"]
      /\ seen[t] = 0
      /\ sold_out' = [sold_out EXCEPT ![t] = (sold_count >= Total)]
      /\ UNCHANGED <<sold_count, processed_requests, user_tickets, buy_lock, buy, seen,
                     ticket_number, plan, resets, answers>>
  BY DEF CheckStock, Goto, state
<1>2. TypeOK'
  BY <1>1 DEF TypeOK, Steps
<1>3. Busy' /\ Locked'
  BY <1>1 DEF TypeOK, Busy, Locked
<1>4. NoStaleRead' /\ SaleInProgress'
  BY <1>1, ZenonT(30) DEF TypeOK, Locked, NoStaleRead, SaleInProgress, Selling
<1>5. NoOverselling' /\ SoldOutIsFinal' /\ IdempotentAnswers'
  BY <1>1 DEF NoOverselling, SoldOutIsFinal, IdempotentAnswers
<1> QED BY <1>2, <1>3, <1>4, <1>5

LEMMA TakeTicketStep ==
  ASSUME IInv, NEW t \in Threads, TakeTicket(t) PROVE IInv'
<1> USE DEF IInv
<1>1. /\ pc[t] = "gated" /\ pc' = [pc EXCEPT ![t] = "counted"]
      /\ ~sold_out[t]
      /\ sold_count' = sold_count + 1
      /\ ticket_number' = [ticket_number EXCEPT ![t] = sold_count + 1]
      /\ UNCHANGED <<processed_requests, user_tickets, buy_lock, buy, seen, sold_out,
                     plan, resets, answers>>
  BY DEF TakeTicket, Goto
<1>2. sold_count \in Nat /\ sold_count < Total /\ processed_requests[buy[t].req] = 0
  BY <1>1 DEF TypeOK, NoStaleRead
<1>3. TypeOK'
  BY <1>1, <1>2 DEF TypeOK, Steps
<1>4. Busy' /\ Locked'
  BY <1>1 DEF TypeOK, Busy, Locked
<1>5. \A s \in Threads : s # t => pc[s] \in {"idle", "waiting"}
  BY <1>1 DEF Locked
<1>6. NoStaleRead'
  <2>1. \A s \in Threads : s # t => pc'[s] \in {"idle", "waiting"}
    BY <1>1, <1>5 DEF TypeOK
  <2>2. pc'[t] = "counted" /\ ticket_number'[t] = sold_count' /\ sold_count' > 0
    BY <1>1, <1>2 DEF TypeOK
  <2>3. processed_requests'[buy'[t].req] = 0
    BY <1>1, <1>2
  <2> QED BY <2>1, <2>2, <2>3 DEF NoStaleRead, Selling
<1>7. \A a \in answers : a.status # "sold_out"
  BY <1>2 DEF SoldOutIsFinal
<1>8. \A a \in answers : a.req # buy[t].req
  BY <1>2, <1>7, AnswerType DEF IdempotentAnswers
<1>9. SaleInProgress'
  BY <1>1, <1>5, <1>7, <1>8 DEF TypeOK, SaleInProgress, Selling
<1>10. NoOverselling' /\ SoldOutIsFinal' /\ IdempotentAnswers'
  BY <1>1, <1>2, <1>7 DEF NoOverselling, SoldOutIsFinal, IdempotentAnswers
<1> QED BY <1>3, <1>4, <1>6, <1>9, <1>10

LEMMA RecordRequestStep ==
  ASSUME IInv, NEW t \in Threads, RecordRequest(t) PROVE IInv'
<1> USE DEF IInv
<1>1. /\ pc[t] = "counted" /\ pc' = [pc EXCEPT ![t] = "recorded"]
      /\ processed_requests' =
            [processed_requests EXCEPT ![buy[t].req] = ticket_number[t]]
      /\ UNCHANGED <<sold_count, user_tickets, buy_lock, buy, seen, sold_out,
                     ticket_number, plan, resets, answers>>
  BY DEF RecordRequest, Goto, locals
<1>2. buy[t] \in Buy /\ buy[t].req \in Reqs /\ ticket_number[t] = sold_count
  BY <1>1 DEF Busy, Buy, NoStaleRead, Selling
<1>3. TypeOK'
  BY <1>1, <1>2 DEF TypeOK, Steps
<1>4. Busy' /\ Locked'
  BY <1>1 DEF TypeOK, Busy, Locked
<1>5. \A s \in Threads : s # t => pc[s] \in {"idle", "waiting"}
  BY <1>1 DEF Locked
<1>6. NoStaleRead' /\ SaleInProgress'
  <2>1. \A s \in Threads : s # t => pc'[s] \in {"idle", "waiting"}
    BY <1>1, <1>5 DEF TypeOK
  <2>2. /\ pc'[t] = "recorded" /\ ticket_number'[t] = sold_count' /\ sold_count' > 0
        /\ processed_requests'[buy'[t].req] = sold_count'
    BY <1>1, <1>2 DEF TypeOK, NoStaleRead, Selling
  <2>3. NoStaleRead'
    BY <2>1, <2>2 DEF NoStaleRead, Selling
  <2>4. SaleInProgress'
    BY <1>1, <2>1 DEF SaleInProgress, Selling
  <2> QED BY <2>3, <2>4
<1>7. NoOverselling' /\ SoldOutIsFinal'
  BY <1>1 DEF NoOverselling, SoldOutIsFinal
<1>8. \A a \in answers : a.req # buy[t].req /\ a.req \in Reqs
  BY <1>1, AnswerType DEF SaleInProgress, Selling
<1>9. \A a \in answers : processed_requests'[a.req] = processed_requests[a.req]
  BY <1>1, <1>8 DEF TypeOK
<1>10. IdempotentAnswers'
  BY <1>1, <1>9 DEF IdempotentAnswers
<1> QED BY <1>3, <1>4, <1>6, <1>7, <1>10

-----------------------------------------------------------------------------
(* Steps that answer                                                       *)

\* What Respond does to everything but the answer itself.
LEMMA RespondFrame ==
  ASSUME IInv, NEW t \in Threads, pc[t] \notin {"idle", "waiting"},
         pc' = [pc EXCEPT ![t] = "idle"], UNCHANGED <<plan, resets>>,
         sold_count' = sold_count, processed_requests' = processed_requests,
         user_tickets' \in [Users -> Seq(Nat)],
         NEW status \in {"success", "already_processed", "sold_out"},
         NEW ticket \in Nat, NEW remaining \in Int, Respond(t, status, ticket, remaining)
  PROVE  /\ TypeOK' /\ Busy' /\ Locked' /\ NoStaleRead' /\ NoOverselling'
         /\ buy[t] \in Buy /\ buy[t].req \in Reqs
         /\ \A s \in Threads : pc'[s] \in {"idle", "waiting"}
         /\ answers' = answers \cup
                {[req |-> buy[t].req, user |-> buy[t].user, status |-> status,
                  ticket |-> ticket, remaining |-> remaining]}
<1> USE DEF IInv
<1>1. /\ buy_lock' = NoThread
      /\ buy' = [buy EXCEPT ![t] = NoBuy]
      /\ seen' = [seen EXCEPT ![t] = 0]
      /\ sold_out' = [sold_out EXCEPT ![t] = FALSE]
      /\ ticket_number' = [ticket_number EXCEPT ![t] = 0]
      /\ answers' = answers \cup
            {[req |-> buy[t].req, user |-> buy[t].user, status |-> status,
              ticket |-> ticket, remaining |-> remaining]}
  BY DEF Respond
<1>2. buy[t] \in Buy /\ buy[t].req \in Reqs /\ buy[t].user \in Users
  BY DEF Busy, Buy
<1>3. pc' \in [Threads -> Steps] /\ buy' \in [Threads -> Buy \cup {NoBuy}]
  BY <1>1 DEF TypeOK, Steps
<1>4. TypeOK'
  BY <1>1, <1>2, <1>3 DEF TypeOK
<1>5. \A s \in Threads : pc'[s] \in {"idle", "waiting"}
  BY DEF Locked, TypeOK
<1>6. Busy' /\ Locked'
  BY <1>1, <1>5 DEF TypeOK, Busy, Locked
<1>7. NoStaleRead' /\ NoOverselling'
  BY <1>5 DEF NoStaleRead, NoOverselling, Selling
<1> QED BY <1>1, <1>2, <1>4, <1>5, <1>6, <1>7

LEMMA AnswerReplayStep ==
  ASSUME IInv, NEW t \in Threads, AnswerReplay(t) PROVE IInv'
<1> USE DEF IInv
<1>1. /\ pc[t] = "checked" /\ pc' = [pc EXCEPT ![t] = "idle"]
      /\ seen[t] # 0
      /\ Respond(t, "already_processed", seen[t], Total - sold_count)
      /\ UNCHANGED <<sold_count, processed_requests, user_tickets, plan, resets>>
  BY DEF AnswerReplay, Goto, state
<1>2. /\ user_tickets' \in [Users -> Seq(Nat)] /\ seen[t] \in Nat
      /\ Total - sold_count \in Int
      /\ seen[t] = processed_requests[buy[t].req]
  BY <1>1 DEF TypeOK, NoStaleRead
<1>3. /\ TypeOK' /\ Busy' /\ Locked' /\ NoStaleRead' /\ NoOverselling'
      /\ \A s \in Threads : pc'[s] \in {"idle", "waiting"}
      /\ answers' = answers \cup
             {[req |-> buy[t].req, user |-> buy[t].user, status |-> "already_processed",
               ticket |-> seen[t], remaining |-> Total - sold_count]}
  BY <1>1, <1>2, RespondFrame
<1>4. SaleInProgress' /\ SoldOutIsFinal'
  BY <1>1, <1>3 DEF SaleInProgress, SoldOutIsFinal, Selling
<1>5. IdempotentAnswers'
  BY <1>1, <1>2, <1>3 DEF IdempotentAnswers
<1> QED BY <1>3, <1>4, <1>5

LEMMA AnswerSoldOutStep ==
  ASSUME IInv, NEW t \in Threads, AnswerSoldOut(t) PROVE IInv'
<1> USE DEF IInv
<1>1. /\ pc[t] = "gated" /\ pc' = [pc EXCEPT ![t] = "idle"]
      /\ sold_out[t]
      /\ Respond(t, "sold_out", 0, 0)
      /\ UNCHANGED <<sold_count, processed_requests, user_tickets, plan, resets>>
  BY DEF AnswerSoldOut, Goto, state
<1>2. /\ user_tickets' \in [Users -> Seq(Nat)]
      /\ processed_requests[buy[t].req] = 0 /\ sold_count >= Total
      /\ 0 \in Nat /\ 0 \in Int
      /\ pc[t] \notin {"idle", "waiting"} /\ UNCHANGED <<plan, resets>>
      /\ sold_count' = sold_count /\ processed_requests' = processed_requests
      /\ "sold_out" \in {"success", "already_processed", "sold_out"}
  BY <1>1 DEF TypeOK, NoStaleRead
<1>3. /\ TypeOK' /\ Busy' /\ Locked' /\ NoStaleRead' /\ NoOverselling'
      /\ \A s \in Threads : pc'[s] \in {"idle", "waiting"}
      /\ answers' = answers \cup
             {[req |-> buy[t].req, user |-> buy[t].user, status |-> "sold_out",
               ticket |-> 0, remaining |-> 0]}
  BY <1>1, <1>2, RespondFrame
<1>4. SaleInProgress' /\ SoldOutIsFinal'
  BY <1>1, <1>2, <1>3 DEF SaleInProgress, SoldOutIsFinal, Selling
<1>5. IdempotentAnswers'
  BY <1>1, <1>2, <1>3 DEF IdempotentAnswers
<1> QED BY <1>3, <1>4, <1>5

LEMMA RecordUserStep ==
  ASSUME IInv, NEW t \in Threads, RecordUser(t) PROVE IInv'
<1> USE DEF IInv
<1>1. /\ pc[t] = "recorded" /\ pc' = [pc EXCEPT ![t] = "idle"]
      /\ user_tickets' = [user_tickets EXCEPT ![buy[t].user] =
                              Append(user_tickets[buy[t].user], ticket_number[t])]
      /\ Respond(t, "success", ticket_number[t], Total - sold_count)
      /\ UNCHANGED <<sold_count, processed_requests, plan, resets>>
  BY DEF RecordUser, Goto
<1>2. /\ ticket_number[t] \in Nat /\ Total - sold_count \in Int
      /\ ticket_number[t] = processed_requests[buy[t].req] /\ ticket_number[t] # 0
  BY <1>1 DEF TypeOK, NoStaleRead, Selling
<1>3. user_tickets' \in [Users -> Seq(Nat)]
  <2>1. buy[t].user \in Users
    BY <1>1 DEF Busy, Buy
  <2>2. Append(user_tickets[buy[t].user], ticket_number[t]) \in Seq(Nat)
    BY <1>2, <2>1 DEF TypeOK
  <2> QED BY <1>1, <2>2 DEF TypeOK
<1>4. /\ TypeOK' /\ Busy' /\ Locked' /\ NoStaleRead' /\ NoOverselling'
      /\ \A s \in Threads : pc'[s] \in {"idle", "waiting"}
      /\ answers' = answers \cup
             {[req |-> buy[t].req, user |-> buy[t].user, status |-> "success",
               ticket |-> ticket_number[t], remaining |-> Total - sold_count]}
  BY <1>1, <1>2, <1>3, RespondFrame
<1>5. SaleInProgress' /\ SoldOutIsFinal'
  BY <1>1, <1>4 DEF SaleInProgress, SoldOutIsFinal, Selling
<1>6. \A a \in answers : a.req # buy[t].req
  BY <1>1 DEF SaleInProgress, Selling
<1>7. IdempotentAnswers'
  BY <1>1, <1>2, <1>4, <1>6 DEF IdempotentAnswers
<1> QED BY <1>4, <1>5, <1>7

-----------------------------------------------------------------------------

LEMMA ResetStep == ASSUME IInv, Reset PROVE IInv'
<1> USE DEF IInv
<1>1. /\ resets > 0 /\ resets' = resets - 1
      /\ buy_lock = NoThread
      /\ sold_count' = 0
      /\ processed_requests' = [r \in Reqs |-> 0]
      /\ user_tickets' = [u \in Users |-> <<>>]
      /\ answers' = {}
      /\ UNCHANGED <<buy_lock, pc, buy, seen, sold_out, ticket_number, plan>>
  BY DEF Reset, Wipe, locals
<1>2. TypeOK'
  BY <1>1 DEF TypeOK
<1>3. \A t \in Threads : pc[t] \in {"idle", "waiting"}
  BY <1>1 DEF Locked
<1>4. Busy' /\ Locked'
  BY <1>1 DEF Busy, Locked
<1>5. NoStaleRead' /\ SaleInProgress' /\ NoOverselling'
  BY <1>1, <1>3 DEF NoStaleRead, SaleInProgress, NoOverselling, Selling
<1>6. SoldOutIsFinal' /\ IdempotentAnswers'
  BY <1>1 DEF SoldOutIsFinal, IdempotentAnswers
<1> QED BY <1>2, <1>4, <1>5, <1>6

LEMMA StutterStep == ASSUME IInv, UNCHANGED vars PROVE IInv'
  BY DEF vars, state, locals, IInv, TypeOK, Busy, Locked, NoStaleRead, NoOverselling,
     SaleInProgress, SoldOutIsFinal, IdempotentAnswers, Selling

LEMMA NextIInv == IInv /\ [Next]_vars => IInv'
<1> SUFFICES ASSUME IInv, [Next]_vars PROVE IInv'
  OBVIOUS
<1>1. ASSUME NEW t \in Threads, BuyStep(t) PROVE IInv'
  BY <1>1, CheckRequestStep, AnswerReplayStep, CheckStockStep, AnswerSoldOutStep,
     TakeTicketStep, RecordRequestStep, RecordUserStep DEF BuyStep
<1>2. ASSUME NEW t \in Threads, NEW r \in Reqs, NEW u \in Users, Arrive(t, r, u) PROVE IInv'
  BY <1>2, ArriveStep
<1>3. CASE Reset
  BY <1>3, ResetStep
<1>4. CASE UNCHANGED vars \/ Finished
  BY <1>4, StutterStep DEF Finished
<1> QED BY <1>1, <1>2, <1>3, <1>4 DEF Next

\* The inductive invariant holds in every reachable state; the theorems below are
\* its parts.
THEOREM InvariantHolds == Spec => []IInv
  BY InitIInv, NextIInv, PTL DEF Spec

\* Every reachable state is well typed.
THEOREM TypeCorrect == Spec => []TypeOK
  BY InvariantHolds, PTL DEF IInv

\* However many threads buy and reset, seller/main.py never sells more than
\* TOTAL_TICKETS tickets.
THEOREM NeverOversells == Spec => []NoOverselling
  BY InvariantHolds, PTL DEF IInv

\* However many threads buy and reset, no answer of seller/main.py contradicts
\* another one or the server's record, and no req_id is sold twice.
THEOREM AnswersAreIdempotent == Spec => []IdempotentAnswers
  BY InvariantHolds, PTL DEF IInv

-----------------------------------------------------------------------------
(* The records of requests and of users, INV2 and INV4                     *)

\* The tickets on record for req_ids are exactly 1 .. n, each for one req_id.
RequestsHold(n) ==
    /\ \A r \in Reqs : processed_requests[r] <= n
    /\ \A k \in 1 .. n : \E r \in Reqs : processed_requests[r] = k
    /\ \A r1, r2 \in Processed : processed_requests[r1] = processed_requests[r2] => r1 = r2

\* The tickets in the users' lists are exactly 1 .. n, each at one place.
ListsHold(n) ==
    /\ \A u \in Users : \A i \in DOMAIN user_tickets[u] : user_tickets[u][i] \in 1 .. n
    /\ \A k \in 1 .. n : \E u \in Users : \E i \in DOMAIN user_tickets[u] : user_tickets[u][i] = k
    /\ \A u1, u2 \in Users : \A i \in DOMAIN user_tickets[u1], j \in DOMAIN user_tickets[u2] :
           user_tickets[u1][i] = user_tickets[u2][j] => u1 = u2 /\ i = j

\* Between `sold_count += 1` and the write to each dictionary, that dictionary
\* lacks the newest ticket and no other.
Counting == \E t \in Threads : pc[t] = "counted"
OnRecord == IF Counting THEN sold_count - 1 ELSE sold_count
InLists == IF Unrecorded THEN sold_count - 1 ELSE sold_count
Ledger == RequestsHold(OnRecord) /\ ListsHold(InLists)

\* Where the one thread inside `with buy_lock` stands before and after its step
\* decides which record lacks a ticket.
LEMMA Places ==
  ASSUME IInv, NEW t \in Threads, pc[t] \notin {"idle", "waiting"},
         NEW step, pc' = [pc EXCEPT ![t] = step]
  PROVE  /\ Counting <=> pc[t] = "counted"
         /\ Unrecorded <=> pc[t] \in Selling
         /\ Counting' <=> step = "counted"
         /\ Unrecorded' <=> step \in Selling
<1>1. \A s \in Threads : s # t => pc[s] \in {"idle", "waiting"}
  BY DEF IInv, Locked
<1>2. pc'[t] = step /\ \A s \in Threads : s # t => pc'[s] = pc[s]
  BY DEF IInv, TypeOK
<1> QED BY <1>1, <1>2 DEF Counting, Unrecorded, Selling

\* No ticket is missing while the lock is free.
LEMMA NothingMissing ==
  ASSUME IInv, buy_lock = NoThread
  PROVE  ~Counting /\ ~Unrecorded
<1>1. \A t \in Threads : pc[t] \in {"idle", "waiting"}
  BY DEF IInv, Locked
<1> QED BY <1>1 DEF Counting, Unrecorded

\* A step that leaves both records and both gaps alone.
LEMMA RecordsKept ==
  ASSUME Ledger, UNCHANGED state, Counting' <=> Counting, Unrecorded' <=> Unrecorded
  PROVE  Ledger'
  BY DEF Ledger, OnRecord, InLists, RequestsHold, ListsHold, Processed, state

LEMMA TakeTicketLedger ==
  ASSUME IInv, Ledger, NEW t \in Threads, TakeTicket(t) PROVE Ledger'
<1>1. /\ pc[t] = "gated" /\ pc' = [pc EXCEPT ![t] = "counted"]
      /\ sold_count' = sold_count + 1
      /\ UNCHANGED <<processed_requests, user_tickets>>
  BY DEF TakeTicket, Goto
<1>2. ~Counting /\ ~Unrecorded /\ Counting' /\ Unrecorded'
  BY <1>1, Places DEF Selling
<1>3. OnRecord' = OnRecord /\ InLists' = InLists
  BY <1>1, <1>2 DEF OnRecord, InLists, IInv, TypeOK
<1> QED BY <1>1, <1>3 DEF Ledger, RequestsHold, ListsHold, Processed

LEMMA RecordRequestLedger ==
  ASSUME IInv, Ledger, NEW t \in Threads, RecordRequest(t) PROVE Ledger'
<1> DEFINE r == buy[t].req
<1>1. /\ pc[t] = "counted" /\ pc' = [pc EXCEPT ![t] = "recorded"]
      /\ processed_requests' = [processed_requests EXCEPT ![r] = ticket_number[t]]
      /\ UNCHANGED <<sold_count, user_tickets>>
  BY DEF RecordRequest, Goto
<1>2. Counting /\ Unrecorded /\ ~Counting' /\ Unrecorded'
  <2>1. pc[t] = "counted" /\ pc' = [pc EXCEPT ![t] = "recorded"]
    BY <1>1
  <2> QED BY <2>1, Places DEF Selling, Counting, Unrecorded
<1>3. /\ r \in Reqs /\ ticket_number[t] = sold_count /\ sold_count \in Nat /\ sold_count > 0
      /\ processed_requests[r] = 0 /\ processed_requests \in [Reqs -> Nat]
  BY <1>1 DEF IInv, TypeOK, Busy, Buy, NoStaleRead, Selling
<1>4. OnRecord = sold_count - 1 /\ OnRecord' = sold_count /\ InLists' = InLists
  BY <1>1, <1>2 DEF OnRecord, InLists
<1>5. /\ processed_requests'[r] = sold_count
      /\ \A q \in Reqs : q # r => /\ processed_requests'[q] = processed_requests[q]
                                  /\ processed_requests[q] <= sold_count - 1
  BY <1>1, <1>3, <1>4 DEF Ledger, RequestsHold
<1>6. RequestsHold(sold_count)'
  <2>1. \A q \in Reqs : processed_requests'[q] <= sold_count
    BY <1>3, <1>5
  <2>2. ASSUME NEW k \in 1 .. sold_count PROVE \E q \in Reqs : processed_requests'[q] = k
    <3>1. CASE k = sold_count
      BY <1>3, <1>5, <3>1
    <3>2. CASE k # sold_count
      <4>1. k \in 1 .. (sold_count - 1)
        BY <1>3, <3>2
      <4>2. PICK q \in Reqs : processed_requests[q] = k
        BY <1>4, <4>1 DEF Ledger, RequestsHold
      <4> QED BY <1>3, <1>5, <4>1, <4>2
    <3> QED BY <3>1, <3>2
  <2>3. \A r1, r2 \in Processed' : processed_requests'[r1] = processed_requests'[r2] => r1 = r2
    BY <1>3, <1>5 DEF Ledger, RequestsHold, Processed
  <2> QED BY <1>1, <2>1, <2>2, <2>3 DEF RequestsHold
<1>7. ListsHold(InLists)'
  BY <1>1, <1>4 DEF Ledger, ListsHold
<1> QED BY <1>1, <1>4, <1>6, <1>7 DEF Ledger

LEMMA RecordUserLedger ==
  ASSUME IInv, Ledger, NEW t \in Threads, RecordUser(t) PROVE Ledger'
<1> DEFINE u == buy[t].user
           list == user_tickets[u]
<1>1. /\ pc[t] = "recorded" /\ pc' = [pc EXCEPT ![t] = "idle"]
      /\ user_tickets' = [user_tickets EXCEPT ![u] = Append(list, ticket_number[t])]
      /\ UNCHANGED <<sold_count, processed_requests>>
  BY DEF RecordUser, Goto
<1>2. ~Counting /\ Unrecorded /\ ~Counting' /\ ~Unrecorded'
  <2>1. /\ pc[t] \notin {"idle", "waiting"} /\ pc[t] # "counted" /\ pc[t] \in Selling
        /\ pc' = [pc EXCEPT ![t] = "idle"]
    BY <1>1 DEF Selling
  <2>2. /\ Counting <=> pc[t] = "counted"
        /\ Unrecorded <=> pc[t] \in Selling
        /\ Counting' <=> "idle" = "counted"
        /\ Unrecorded' <=> "idle" \in Selling
    BY <2>1, Places
  <2> QED BY <2>1, <2>2 DEF Selling
<1>3. /\ u \in Users /\ ticket_number[t] = sold_count /\ sold_count \in Nat /\ sold_count > 0
      /\ user_tickets \in [Users -> Seq(Nat)]
  BY <1>1 DEF IInv, TypeOK, Busy, Buy, NoStaleRead, Selling
<1>4. InLists = sold_count - 1 /\ InLists' = sold_count /\ OnRecord' = OnRecord
  BY <1>1, <1>2 DEF OnRecord, InLists
<1>5. /\ DOMAIN list = 1 .. Len(list) /\ Len(list) \in Nat
      /\ DOMAIN user_tickets'[u] = 1 .. (Len(list) + 1)
      /\ \A i \in DOMAIN list : user_tickets'[u][i] = list[i]
      /\ user_tickets'[u][Len(list) + 1] = sold_count
      /\ \A v \in Users : v # u => user_tickets'[v] = user_tickets[v]
  BY <1>1, <1>3, SMTT(20)
<1>6. \A v \in Users : \A i \in DOMAIN user_tickets[v] : user_tickets[v][i] \in 1 .. (sold_count - 1)
  BY <1>4 DEF Ledger, ListsHold
<1>7. \A v \in Users : \A i \in DOMAIN user_tickets'[v] :
          \/ v = u /\ i = Len(list) + 1 /\ user_tickets'[v][i] = sold_count
          \/ i \in DOMAIN user_tickets[v] /\ user_tickets'[v][i] = user_tickets[v][i]
  <2> TAKE v \in Users
  <2> TAKE i \in DOMAIN user_tickets'[v]
  <2>1. CASE v = u
    <3>1. i \in 1 .. Len(list) \/ i = Len(list) + 1
      BY <1>5, <2>1
    <3> QED BY <1>5, <2>1, <3>1
  <2>2. CASE v # u
    BY <1>5, <2>2
  <2> QED BY <2>1, <2>2
<1>8. ListsHold(sold_count)'
  <2>1. \A v \in Users : \A i \in DOMAIN user_tickets'[v] : user_tickets'[v][i] \in 1 .. sold_count
    BY <1>3, <1>6, <1>7
  <2>2. ASSUME NEW k \in 1 .. sold_count
        PROVE  \E v \in Users : \E i \in DOMAIN user_tickets'[v] : user_tickets'[v][i] = k
    <3>1. CASE k = sold_count
      BY <1>3, <1>5, <3>1
    <3>2. CASE k # sold_count
      <4>1. k \in 1 .. (sold_count - 1)
        BY <1>3, <3>2
      <4>2. PICK v \in Users : \E i \in DOMAIN user_tickets[v] : user_tickets[v][i] = k
        BY <1>4, <4>1 DEF Ledger, ListsHold
      <4>3. PICK i \in DOMAIN user_tickets[v] : user_tickets[v][i] = k
        BY <4>2
      <4>4. i \in DOMAIN user_tickets'[v] /\ user_tickets'[v][i] = k
        BY <1>5, <4>3
      <4> QED BY <4>4
    <3> QED BY <3>1, <3>2
  <2>3. ASSUME NEW v1 \in Users, NEW v2 \in Users,
               NEW i \in DOMAIN user_tickets'[v1], NEW j \in DOMAIN user_tickets'[v2],
               user_tickets'[v1][i] = user_tickets'[v2][j]
        PROVE  v1 = v2 /\ i = j
    <3>1. CASE user_tickets'[v1][i] = sold_count
      <4>1. ASSUME NEW v \in Users, NEW m \in DOMAIN user_tickets'[v],
                   user_tickets'[v][m] = sold_count
            PROVE  v = u /\ m = Len(list) + 1
        <5>1. ~(user_tickets'[v][m] \in 1 .. (sold_count - 1))
          BY <1>3, <4>1
        <5> QED BY <1>6, <1>7, <5>1
      <4> QED BY <2>3, <3>1, <4>1
    <3>2. CASE user_tickets'[v1][i] # sold_count
      <4>1. /\ i \in DOMAIN user_tickets[v1] /\ user_tickets'[v1][i] = user_tickets[v1][i]
            /\ j \in DOMAIN user_tickets[v2] /\ user_tickets'[v2][j] = user_tickets[v2][j]
        BY <1>7, <2>3, <3>2
      <4>2. \A u1, u2 \in Users :
                \A m \in DOMAIN user_tickets[u1], n \in DOMAIN user_tickets[u2] :
                    user_tickets[u1][m] = user_tickets[u2][n] => u1 = u2 /\ m = n
        BY DEF Ledger, ListsHold
      <4>3. user_tickets[v1][i] = user_tickets[v2][j]
        BY <2>3, <4>1
      <4> QED BY <4>1, <4>2, <4>3
    <3> QED BY <3>1, <3>2
  <2> QED BY <1>1, <2>1, <2>2, <2>3 DEF ListsHold
<1>9. RequestsHold(OnRecord)'
  BY <1>1, <1>4 DEF Ledger, RequestsHold, Processed
<1> QED BY <1>1, <1>4, <1>8, <1>9 DEF Ledger

LEMMA ResetLedger ==
  ASSUME IInv, Reset PROVE Ledger'
<1>1. /\ sold_count' = 0 /\ processed_requests' = [r \in Reqs |-> 0]
      /\ user_tickets' = [u \in Users |-> <<>>]
      /\ buy_lock = NoThread /\ pc' = pc
  BY DEF Reset, Wipe
<1>2. ~Counting' /\ ~Unrecorded'
  BY <1>1, NothingMissing DEF Counting, Unrecorded
<1> QED BY <1>1, <1>2 DEF Ledger, OnRecord, InLists, RequestsHold, ListsHold, Processed

LEMMA InitLedger == Init => Ledger
  BY DEF Init, Ledger, OnRecord, InLists, Counting, Unrecorded, RequestsHold, ListsHold, Processed

LEMMA NextLedger == IInv /\ Ledger /\ [Next]_vars => Ledger'
<1> SUFFICES ASSUME IInv, Ledger, [Next]_vars PROVE Ledger'
  OBVIOUS
<1>1. ASSUME NEW t \in Threads, BuyStep(t) PROVE Ledger'
  <2>1. CASE CheckRequest(t)
    <3>1. buy_lock = NoThread /\ pc' = [pc EXCEPT ![t] = "checked"] /\ UNCHANGED state
      BY <2>1 DEF CheckRequest, ReadRequest, Goto
    <3>2. \A s \in Threads : pc[s] \in {"idle", "waiting"}
      BY <3>1 DEF IInv, Locked
    <3>3. \A s \in Threads : pc'[s] \notin Selling
      BY <3>1, <3>2 DEF IInv, TypeOK, Selling
    <3> QED BY <3>1, <3>3, NothingMissing, RecordsKept DEF Counting, Unrecorded, Selling
  <2>2. CASE AnswerReplay(t) \/ CheckStock(t) \/ AnswerSoldOut(t)
    <3>1. /\ pc[t] \in {"checked", "gated"} /\ UNCHANGED state
          /\ \E step \in {"idle", "gated"} : pc' = [pc EXCEPT ![t] = step]
      BY <2>2 DEF AnswerReplay, CheckStock, AnswerSoldOut, Goto
    <3>2. PICK step \in {"idle", "gated"} : pc' = [pc EXCEPT ![t] = step]
      BY <3>1
    <3>3. ~Counting /\ ~Unrecorded /\ ~Counting' /\ ~Unrecorded'
      BY <3>1, <3>2, Places DEF Selling
    <3> QED BY <3>1, <3>3, RecordsKept
  <2> QED BY <1>1, <2>1, <2>2, TakeTicketLedger, RecordRequestLedger, RecordUserLedger
          DEF BuyStep
<1>2. ASSUME NEW t \in Threads, NEW r \in Reqs, NEW u \in Users, Arrive(t, r, u) PROVE Ledger'
  <2>1. pc[t] = "idle" /\ pc' = [pc EXCEPT ![t] = "waiting"] /\ UNCHANGED state
    BY <1>2 DEF Arrive, Goto
  <2>2. (Counting' <=> Counting) /\ (Unrecorded' <=> Unrecorded)
    BY <2>1 DEF IInv, TypeOK, Counting, Unrecorded
  <2> QED BY <2>1, <2>2, RecordsKept
<1>3. CASE Reset
  BY <1>3, ResetLedger
<1>4. CASE UNCHANGED vars \/ Finished
  <2>1. UNCHANGED state /\ pc' = pc
    BY <1>4 DEF Finished, vars
  <2> QED BY <2>1, RecordsKept DEF Counting, Unrecorded
<1> QED BY <1>1, <1>2, <1>3, <1>4 DEF Next

LEMMA LedgerHolds == Spec => []Ledger
  BY InvariantHolds, InitLedger, NextLedger, PTL DEF Spec

\* When nobody is inside the lock both records hold exactly 1 .. sold_count.
LEMMA LedgerIsBookkeeping == IInv /\ Ledger => BookkeepingConsistent
<1> SUFFICES ASSUME IInv, Ledger, buy_lock = NoThread
             PROVE  /\ {processed_requests[r] : r \in Processed} = 1 .. sold_count
                    /\ \A r1, r2 \in Processed :
                           processed_requests[r1] = processed_requests[r2] => r1 = r2
                    /\ UNION {Range(user_tickets[u]) : u \in Users} = 1 .. sold_count
                    /\ \A u1, u2 \in Users :
                           \A i \in DOMAIN user_tickets[u1], j \in DOMAIN user_tickets[u2] :
                               user_tickets[u1][i] = user_tickets[u2][j] => u1 = u2 /\ i = j
  BY DEF BookkeepingConsistent
<1>1. RequestsHold(sold_count) /\ ListsHold(sold_count)
  BY NothingMissing DEF Ledger, OnRecord, InLists
<1>2. {processed_requests[r] : r \in Processed} = 1 .. sold_count
  <2>1. sold_count \in Nat /\ \A r \in Reqs : processed_requests[r] \in Nat
    BY DEF IInv, TypeOK
  <2>2. \A r \in Processed : processed_requests[r] \in 1 .. sold_count
    BY <1>1, <2>1 DEF RequestsHold, Processed
  <2>3. \A k \in 1 .. sold_count : \E r \in Processed : processed_requests[r] = k
    BY <1>1, <2>1 DEF RequestsHold, Processed
  <2> QED BY <2>2, <2>3
<1>3. UNION {Range(user_tickets[u]) : u \in Users} = 1 .. sold_count
  BY <1>1 DEF ListsHold, Range
<1> QED BY <1>1, <1>2, <1>3 DEF RequestsHold, ListsHold

\* INV2 and INV4: when no thread is inside the lock, the tickets on record for
\* req_ids, and the tickets in the users' lists, are exactly 1 .. sold_count.
THEOREM BooksAgree == Spec => []BookkeepingConsistent
  BY InvariantHolds, LedgerHolds, LedgerIsBookkeeping, PTL

-----------------------------------------------------------------------------
(* The seller implements the ticket service                                *)

Sold == IF Unrecorded THEN sold_count - 1 ELSE sold_count
Sales == {s \in [req : Reqs, user : Users, ticket : 1 .. sold_count] :
              /\ processed_requests[s.req] = s.ticket
              /\ s.ticket \in Range(user_tickets[s.user])}

\* Which tickets the records can name.
LEMMA TicketsBounded ==
  ASSUME IInv, Ledger
  PROVE  /\ sold_count \in Nat
         /\ \A r \in Reqs : processed_requests[r] \in Nat /\ processed_requests[r] <= OnRecord
         /\ \A u \in Users : \A n : n \in Range(user_tickets[u]) => n \in 1 .. InLists
  BY DEF IInv, TypeOK, Ledger, RequestsHold, ListsHold, Range

LEMMA TakeTicketRefines ==
  ASSUME IInv, Ledger, NEW t \in Threads, TakeTicket(t)
  PROVE  Sold' = Sold /\ Sales' = Sales /\ buy' = buy /\ answers' = answers
<1>1. /\ pc[t] = "gated" /\ pc' = [pc EXCEPT ![t] = "counted"]
      /\ sold_count' = sold_count + 1
      /\ UNCHANGED <<processed_requests, user_tickets, buy, answers>>
  BY DEF TakeTicket, Goto
<1>2. ~Counting /\ ~Unrecorded /\ Unrecorded'
  BY <1>1, Places DEF Selling
<1>3. Sold' = Sold
  BY <1>1, <1>2, TicketsBounded DEF Sold
<1>4. \A r \in Reqs : processed_requests[r] # sold_count + 1
  BY <1>2, TicketsBounded DEF OnRecord
<1>5. 1 .. (sold_count + 1) = (1 .. sold_count) \cup {sold_count + 1}
  BY TicketsBounded
<1>6. Sales' = Sales
  BY <1>1, <1>4, <1>5 DEF Sales
<1> QED BY <1>1, <1>3, <1>6

LEMMA RecordRequestRefines ==
  ASSUME IInv, Ledger, NEW t \in Threads, RecordRequest(t)
  PROVE  Sold' = Sold /\ Sales' = Sales /\ buy' = buy /\ answers' = answers
<1> DEFINE r == buy[t].req
<1>1. /\ pc[t] = "counted" /\ pc' = [pc EXCEPT ![t] = "recorded"]
      /\ processed_requests' = [processed_requests EXCEPT ![r] = ticket_number[t]]
      /\ UNCHANGED <<sold_count, user_tickets, buy, answers>>
  BY DEF RecordRequest, Goto, locals
<1>2. Unrecorded /\ Unrecorded'
  BY <1>1, Places DEF Selling
<1>3. /\ r \in Reqs /\ ticket_number[t] = sold_count
      /\ processed_requests[r] = 0 /\ processed_requests \in [Reqs -> Nat]
  BY <1>1 DEF IInv, TypeOK, Busy, Buy, NoStaleRead, Selling
<1>4. \A u \in Users : sold_count \notin Range(user_tickets[u])
  BY <1>2, TicketsBounded DEF InLists
<1>5. ASSUME NEW s \in [req : Reqs, user : Users, ticket : 1 .. sold_count],
             s.ticket \in Range(user_tickets[s.user])
      PROVE  processed_requests'[s.req] = s.ticket <=> processed_requests[s.req] = s.ticket
  <2>1. s.ticket # sold_count /\ s.ticket # 0 /\ s.req \in Reqs
    BY <1>4, <1>5, TicketsBounded
  <2> QED BY <1>1, <1>3, <2>1
<1>6. Sales' = Sales
  BY <1>1, <1>5 DEF Sales
<1> QED BY <1>1, <1>2, <1>6 DEF Sold

\* The last write of the block is the sale.
LEMMA RecordUserRefines ==
  ASSUME IInv, Ledger, NEW t \in Threads, RecordUser(t)
  PROVE  Service!Sell(t)
<1> DEFINE b == buy[t]
           new == [req |-> b.req, user |-> b.user, ticket |-> sold_count]
<1>1. /\ pc[t] = "recorded" /\ pc' = [pc EXCEPT ![t] = "idle"]
      /\ user_tickets' = [user_tickets EXCEPT ![b.user] =
                              Append(user_tickets[b.user], ticket_number[t])]
      /\ Respond(t, "success", ticket_number[t], Total - sold_count)
      /\ UNCHANGED <<sold_count, processed_requests>>
  BY DEF RecordUser, Goto
<1>2. Unrecorded /\ ~Unrecorded'
  <2>1. /\ pc[t] \notin {"idle", "waiting"} /\ pc[t] \in Selling
        /\ pc' = [pc EXCEPT ![t] = "idle"]
    BY <1>1 DEF Selling
  <2>2. (Unrecorded <=> pc[t] \in Selling) /\ (Unrecorded' <=> "idle" \in Selling)
    BY <2>1, Places
  <2> QED BY <2>1, <2>2 DEF Selling
<1>3. /\ b \in Buy /\ b.req \in Reqs /\ b.user \in Users /\ b # NoBuy
      /\ ticket_number[t] = sold_count /\ sold_count \in Nat /\ sold_count > 0
      /\ sold_count <= Total /\ processed_requests[b.req] = sold_count
      /\ user_tickets \in [Users -> Seq(Nat)]
  BY <1>1 DEF IInv, TypeOK, Busy, Buy, NoStaleRead, NoOverselling, Selling
<1>4. Sold = sold_count - 1 /\ Sold' = sold_count
  BY <1>1, <1>2 DEF Sold
<1>5. \A u \in Users : \A n : n \in Range(user_tickets[u]) => n \in 1 .. (sold_count - 1)
  BY <1>2, TicketsBounded DEF InLists
<1>6. \A s \in Sales : s.req # b.req
  BY <1>3, <1>5 DEF Sales
<1>7. Range(user_tickets'[b.user]) = Range(user_tickets[b.user]) \cup {sold_count}
  <2> DEFINE list == user_tickets[b.user]
  <2>1. list \in Seq(Nat) /\ user_tickets'[b.user] = Append(list, sold_count)
    BY <1>1, <1>3
  <2> HIDE DEF list
  <2>2. /\ DOMAIN Append(list, sold_count) = 1 .. (Len(list) + 1)
        /\ DOMAIN list = 1 .. Len(list) /\ Len(list) \in Nat
        /\ \A i \in 1 .. Len(list) : Append(list, sold_count)[i] = list[i]
        /\ Append(list, sold_count)[Len(list) + 1] = sold_count
    BY <2>1, <1>3
  <2>3. 1 .. (Len(list) + 1) = (1 .. Len(list)) \cup {Len(list) + 1}
    BY <2>2
  <2>4. Range(Append(list, sold_count)) = Range(list) \cup {sold_count}
    BY <2>2, <2>3 DEF Range
  <2> QED BY <2>1, <2>4 DEF list
<1>8. \A u \in Users : u # b.user => user_tickets'[u] = user_tickets[u]
  BY <1>1, <1>3
<1>9. Sales' = Sales \cup {new}
  <2>1. new \in Sales'
    BY <1>1, <1>3, <1>7 DEF Sales
  <2>2. ASSUME NEW s \in Sales PROVE s \in Sales'
    BY <1>1, <1>7, <1>8 DEF Sales
  <2>3. ASSUME NEW s \in Sales', s \notin Sales PROVE s = new
    <3>1. /\ s \in [req : Reqs, user : Users, ticket : 1 .. sold_count]
          /\ processed_requests[s.req] = s.ticket
          /\ s.ticket \in Range(user_tickets'[s.user])
          /\ s.ticket \notin Range(user_tickets[s.user])
      BY <1>1, <2>3 DEF Sales
    <3>2. s.user = b.user /\ s.ticket = sold_count
      BY <1>7, <1>8, <3>1
    <3>3. s.req = b.req
      <4>1. s.req \in Processed /\ b.req \in Processed
        BY <1>3, <3>1, <3>2 DEF Processed
      <4> QED BY <1>3, <3>1, <3>2, <4>1 DEF Ledger, RequestsHold
    <3> QED BY <3>1, <3>2, <3>3
  <2> QED BY <2>1, <2>2, <2>3
<1>10. Service!Record(t)
  BY <1>3, <1>4, <1>6, <1>9, TotalAssumption DEF Service!Record, Sold, Sales
<1>11. Service!Reply(t, "success", Sold + 1, Total - (Sold + 1))
  <2>1. Sold + 1 = sold_count
    BY <1>3, <1>4
  <2> QED BY <1>1, <1>3, <2>1 DEF Respond, Service!Reply, Service!MakeAnswer
<1> QED BY <1>3, <1>10, <1>11 DEF Service!Sell, Sold

LEMMA AnswerReplayRefines ==
  ASSUME IInv, Ledger, NEW t \in Threads, AnswerReplay(t)
  PROVE  Service!Replay(t)
<1>1. /\ pc[t] = "checked" /\ pc' = [pc EXCEPT ![t] = "idle"] /\ seen[t] # 0
      /\ Respond(t, "already_processed", seen[t], Total - sold_count)
      /\ UNCHANGED <<sold_count, processed_requests, user_tickets>>
  BY DEF AnswerReplay, Goto, state
<1>2. ~Counting /\ ~Unrecorded /\ ~Unrecorded'
  <2>1. /\ pc[t] \notin {"idle", "waiting"} /\ pc[t] # "counted" /\ pc[t] \notin Selling
        /\ pc' = [pc EXCEPT ![t] = "idle"]
    BY <1>1 DEF Selling
  <2>2. /\ Counting <=> pc[t] = "counted"
        /\ Unrecorded <=> pc[t] \in Selling
        /\ Unrecorded' <=> "idle" \in Selling
    BY <2>1, Places
  <2> QED BY <2>1, <2>2 DEF Selling
<1>3. /\ buy[t] \in Buy /\ buy[t] # NoBuy /\ buy[t].req \in Reqs
      /\ seen[t] = processed_requests[buy[t].req]
  BY <1>1 DEF IInv, Busy, Buy, NoStaleRead
<1>4. seen[t] \in 1 .. sold_count
  BY <1>1, <1>2, <1>3, TicketsBounded DEF OnRecord
<1>5. PICK u \in Users : seen[t] \in Range(user_tickets[u])
  BY <1>2, <1>4 DEF Ledger, ListsHold, InLists, Range
<1> DEFINE s == [req |-> buy[t].req, user |-> u, ticket |-> seen[t]]
<1>6. s \in Sales /\ s.req = buy[t].req /\ s.ticket = seen[t]
  BY <1>3, <1>4, <1>5 DEF Sales
<1>7. Sold = sold_count /\ Sold' = Sold /\ Sales' = Sales
  BY <1>1, <1>2 DEF Sold, Sales
<1>8. Service!Reply(t, "already_processed", s.ticket, Total - Sold)
  BY <1>1, <1>6, <1>7 DEF Respond, Service!Reply, Service!MakeAnswer
<1> QED BY <1>3, <1>6, <1>7, <1>8 DEF Service!Replay, Sold, Sales

LEMMA AnswerSoldOutRefines ==
  ASSUME IInv, Ledger, NEW t \in Threads, AnswerSoldOut(t)
  PROVE  Service!SoldOut(t)
<1>1. /\ pc[t] = "gated" /\ pc' = [pc EXCEPT ![t] = "idle"] /\ sold_out[t]
      /\ Respond(t, "sold_out", 0, 0)
      /\ UNCHANGED <<sold_count, processed_requests, user_tickets>>
  BY DEF AnswerSoldOut, Goto, state
<1>2. ~Unrecorded /\ ~Unrecorded'
  <2>1. /\ pc[t] \notin {"idle", "waiting"} /\ pc[t] \notin Selling
        /\ pc' = [pc EXCEPT ![t] = "idle"]
    BY <1>1 DEF Selling
  <2>2. (Unrecorded <=> pc[t] \in Selling) /\ (Unrecorded' <=> "idle" \in Selling)
    BY <2>1, Places
  <2> QED BY <2>1, <2>2 DEF Selling
<1>3. /\ buy[t] # NoBuy /\ processed_requests[buy[t].req] = 0 /\ sold_count >= Total
  BY <1>1 DEF IInv, Busy, NoStaleRead
<1>4. \A s \in Sales : s.req # buy[t].req
  BY <1>3 DEF Sales
<1>5. Sold = sold_count /\ Sold' = Sold /\ Sales' = Sales
  BY <1>1, <1>2 DEF Sold, Sales
<1>6. Service!Reply(t, "sold_out", 0, 0)
  BY <1>1 DEF Respond, Service!Reply, Service!MakeAnswer
<1> QED BY <1>3, <1>4, <1>5, <1>6 DEF Service!SoldOut, Service!NoTicket, Sold, Sales

LEMMA ResetRefines ==
  ASSUME IInv, Reset PROVE Service!Reset
<1>1. /\ sold_count' = 0 /\ buy_lock = NoThread /\ answers' = {}
      /\ pc' = pc /\ buy' = buy
  BY DEF Reset, Wipe, locals
<1>2. ~Unrecorded'
  BY <1>1, NothingMissing DEF Unrecorded
<1>3. Sold' = 0 /\ Sales' = {}
  BY <1>1, <1>2 DEF Sold, Sales
<1> QED BY <1>1, <1>3 DEF Service!Reset, Sold, Sales

\* A step before the block has decided anything changes nothing of the service.
LEMMA QuietRefines ==
  ASSUME UNCHANGED state, Unrecorded' <=> Unrecorded
  PROVE  Sold' = Sold /\ Sales' = Sales
  BY DEF Sold, Sales, state

LEMMA NextRefines == IInv /\ Ledger /\ [Next]_vars => [Service!Next]_Service!vars
<1> SUFFICES ASSUME IInv, Ledger, [Next]_vars PROVE Service!Next \/ UNCHANGED Service!vars
  OBVIOUS
<1>1. ASSUME Sold' = Sold, Sales' = Sales, buy' = buy, answers' = answers
      PROVE  UNCHANGED Service!vars
  BY <1>1 DEF Service!vars, Sold, Sales
<1>2. ASSUME NEW t \in Threads, BuyStep(t) PROVE Service!Next \/ UNCHANGED Service!vars
  <2>1. CASE CheckRequest(t)
    <3>1. /\ pc[t] = "waiting" /\ pc' = [pc EXCEPT ![t] = "checked"]
          /\ UNCHANGED <<state, buy, answers>>
      BY <2>1 DEF CheckRequest, ReadRequest, Goto
    <3>2. Unrecorded' <=> Unrecorded
      BY <3>1 DEF IInv, TypeOK, Unrecorded
    <3> QED BY <1>1, <3>1, <3>2, QuietRefines
  <2>2. CASE CheckStock(t)
    <3>1. /\ pc[t] = "checked" /\ pc' = [pc EXCEPT ![t] = "gated"]
          /\ UNCHANGED <<state, buy, answers>>
      BY <2>2 DEF CheckStock, Goto
    <3>2. Unrecorded' <=> Unrecorded
      BY <3>1 DEF IInv, TypeOK, Unrecorded
    <3> QED BY <1>1, <3>1, <3>2, QuietRefines
  <2>3. CASE TakeTicket(t) \/ RecordRequest(t)
    BY <1>1, <2>3, TakeTicketRefines, RecordRequestRefines
  <2>4. CASE AnswerReplay(t) \/ AnswerSoldOut(t) \/ RecordUser(t)
    BY <2>4, AnswerReplayRefines, AnswerSoldOutRefines, RecordUserRefines DEF Service!Next
  <2> QED BY <1>2, <2>1, <2>2, <2>3, <2>4 DEF BuyStep
<1>3. ASSUME NEW t \in Threads, NEW r \in Reqs, NEW u \in Users, Arrive(t, r, u)
      PROVE  Service!Next
  <2> DEFINE b == [req |-> r, user |-> u]
  <2>1. /\ pc[t] = "idle" /\ pc' = [pc EXCEPT ![t] = "waiting"]
        /\ buy' = [buy EXCEPT ![t] = b] /\ UNCHANGED <<state, answers>>
    BY <1>3 DEF Arrive, Goto
  <2>2. Unrecorded' <=> Unrecorded
    BY <2>1 DEF IInv, TypeOK, Unrecorded
  <2>3. b \in Service!Buy /\ buy[t] = NoBuy
    BY <2>1 DEF IInv, Busy, Service!Buy
  <2>4. Service!Submit(t, b)
    BY <2>1, <2>2, <2>3, QuietRefines DEF Service!Submit, Sold, Sales
  <2> QED BY <2>3, <2>4 DEF Service!Next
<1>4. CASE Reset
  BY <1>4, ResetRefines DEF Service!Next
<1>5. CASE UNCHANGED vars \/ Finished
  <2>1. UNCHANGED <<state, buy, answers, pc>>
    BY <1>5 DEF vars, locals, Finished
  <2>2. Unrecorded' <=> Unrecorded
    BY <2>1 DEF Unrecorded
  <2> QED BY <1>1, <2>1, <2>2, QuietRefines
<1> QED BY <1>2, <1>3, <1>4, <1>5 DEF Next

LEMMA InitRefines == Init => Service!Init
  BY DEF Init, Service!Init, Unrecorded, Range

\* Linearizability: however threads interleave, buy() and reset() of
\* seller/main.py behave as one atomic, idempotent counter.
THEOREM Refines == Spec => ImplementsService
<1>1. Spec => [][IInv /\ Ledger /\ [Next]_vars]_vars
  BY InvariantHolds, LedgerHolds, PTL DEF Spec
<1> QED BY <1>1, InitRefines, NextRefines, InvariantHolds, LedgerHolds, PTL
        DEF Spec, ImplementsService, Service!Spec

-----------------------------------------------------------------------------
(* GET /status (SellerStatus)                                              *)

Response == [count : Nat, issued : SUBSET Nat, requests : SUBSET (Reqs \X Nat), held : SUBSET Nat]
OldDicts == [bound : {FALSE}, requests : [Reqs -> Nat], lists : [Users -> Seq(Nat)]]

StatusTypeOK ==
    /\ stage \in [Pollers -> {"idle", "requests", "users", "done"}]
    /\ body \in [Pollers -> Response]
    /\ todo \in [Pollers -> SUBSET Users]
    /\ dicts \in [Pollers -> {Live} \cup OldDicts]

\* The numbers read under the lock are 1 .. count, and each of them is in either
\* dictionary: already encoded, or still to be read from it.
CountCovered ==
    \A p \in Pollers : stage[p] # "idle" =>
        /\ body[p].issued = 1 .. body[p].count /\ body[p].count <= Total
        /\ stage[p] = "requests" =>
              \A k \in body[p].issued : \E r \in Reqs : Requests(p)[r] = k
        /\ stage[p] # "requests" => body[p].issued \subseteq Reported(p)
        /\ \A k \in body[p].issued :
              k \in body[p].held \/ \E u \in todo[p] : k \in Range(Lists(p)[u])
        /\ stage[p] = "done" => todo[p] = {}

StatusIInv == IInv /\ Ledger /\ StatusTypeOK /\ CountCovered

LEMMA StatusStutters == [StatusNext]_<<vars, statusVars>> => [Next]_vars
  BY DEF StatusNext, Next, Finished

\* Buys add to both dictionaries and never change what is there.
LEMMA BuysOnlyAdd ==
  ASSUME IInv, NEW t \in Threads, BuyStep(t) \/ \E r \in Reqs, u \in Users : Arrive(t, r, u)
  PROVE  /\ \A r \in Reqs : processed_requests[r] # 0 =>
               processed_requests'[r] = processed_requests[r]
         /\ \A u \in Users : Range(user_tickets[u]) \subseteq Range(user_tickets'[u])
<1>1. /\ processed_requests \in [Reqs -> Nat] /\ user_tickets \in [Users -> Seq(Nat)]
      /\ ticket_number[t] \in Nat
  BY DEF IInv, TypeOK
<1>2. CASE RecordRequest(t)
  <2>1. /\ pc[t] = "counted" /\ UNCHANGED user_tickets
        /\ processed_requests' =
              [processed_requests EXCEPT ![buy[t].req] = ticket_number[t]]
    BY <1>2 DEF RecordRequest, Goto
  <2>2. processed_requests[buy[t].req] = 0
    BY <2>1 DEF IInv, NoStaleRead, NoTicket
  <2> QED BY <1>1, <2>1, <2>2
<1>3. CASE RecordUser(t)
  <2> DEFINE u == buy[t].user
             list == user_tickets[u]
  <2>1. /\ user_tickets' = [user_tickets EXCEPT ![u] = Append(list, ticket_number[t])]
        /\ UNCHANGED processed_requests /\ pc[t] = "recorded"
    BY <1>3 DEF RecordUser, Goto
  <2>2. u \in Users
    BY <2>1 DEF IInv, Busy, Buy
  <2>3. list \in Seq(Nat)
    BY <1>1, <2>2
  <2> HIDE DEF u, list
  <2>4. /\ DOMAIN list \subseteq DOMAIN Append(list, ticket_number[t])
        /\ \A i \in DOMAIN list : Append(list, ticket_number[t])[i] = list[i]
    BY <1>1, <2>3
  <2>5. Range(list) \subseteq Range(Append(list, ticket_number[t]))
    BY <2>4 DEF Range
  <2>6. \A v \in Users : v # u => user_tickets'[v] = user_tickets[v]
    BY <1>1, <2>1
  <2>7. user_tickets'[u] = Append(list, ticket_number[t]) /\ user_tickets[u] = list
    BY <1>1, <2>1, <2>2 DEF list
  <2> QED BY <2>1, <2>5, <2>6, <2>7
<1>4. CASE UNCHANGED <<processed_requests, user_tickets>>
  BY <1>4
<1> QED BY <1>2, <1>3, <1>4
        DEF BuyStep, CheckRequest, ReadRequest, AnswerReplay, CheckStock, AnswerSoldOut,
            TakeTicket, Arrive, state

\* A step that leaves the pollers alone and only adds to the dictionaries.
LEMMA BuyBesideStatus ==
  ASSUME StatusIInv, IInv', Ledger', UNCHANGED statusVars,
         \A r \in Reqs : processed_requests[r] # 0 =>
             processed_requests'[r] = processed_requests[r],
         \A u \in Users : Range(user_tickets[u]) \subseteq Range(user_tickets'[u])
  PROVE  StatusIInv'
<1>1. StatusTypeOK'
  BY DEF StatusIInv, StatusTypeOK, statusVars
<1>2. CountCovered'
  <2> SUFFICES ASSUME NEW p \in Pollers, stage[p] # "idle"
               PROVE  /\ stage[p] = "requests" =>
                            \A k \in body[p].issued : \E r \in Reqs : Requests(p)'[r] = k
                      /\ \A k \in body[p].issued :
                            k \in body[p].held \/ \E u \in todo[p] : k \in Range(Lists(p)'[u])
    BY DEF StatusIInv, CountCovered, statusVars, Reported
  <2>1. /\ body[p].issued = 1 .. body[p].count
        /\ stage[p] = "requests" =>
              \A k \in body[p].issued : \E r \in Reqs : Requests(p)[r] = k
        /\ \A k \in body[p].issued :
              k \in body[p].held \/ \E u \in todo[p] : k \in Range(Lists(p)[u])
    BY DEF StatusIInv, CountCovered
  <2>2. todo[p] \subseteq Users /\ body[p].count \in Nat
    BY DEF StatusIInv, StatusTypeOK, Response
  <2>3. Bound(p)' <=> Bound(p)
    BY DEF Bound, statusVars
  <2>4. CASE Bound(p)
    <3>1. /\ Requests(p) = processed_requests /\ Requests(p)' = processed_requests'
          /\ Lists(p) = user_tickets /\ Lists(p)' = user_tickets'
      BY <2>3, <2>4 DEF Requests, Lists
    <3>2. \A k \in body[p].issued : k # 0
      BY <2>1, <2>2
    <3> QED BY <2>1, <2>2, <3>1, <3>2
  <2>5. CASE ~Bound(p)
    <3>1. Requests(p)' = Requests(p) /\ Lists(p)' = Lists(p)
      BY <2>3, <2>5 DEF Requests, Lists, statusVars
    <3> QED BY <2>1, <3>1
  <2> QED BY <2>4, <2>5
<1> QED BY <1>1, <1>2 DEF StatusIInv

\* reset() binds new dictionaries; an encoder keeps the ones it has.
LEMMA ResetBesideStatus ==
  ASSUME StatusIInv, IInv', Ledger', Reset, KeepOldDicts PROVE StatusIInv'
<1>1. /\ processed_requests \in [Reqs -> Nat] /\ user_tickets \in [Users -> Seq(Nat)]
      /\ UNCHANGED <<stage, body, todo>>
  BY DEF StatusIInv, IInv, TypeOK, KeepOldDicts
<1>2. \A p \in Pollers : dicts'[p] =
            IF Bound(p) /\ stage[p] # "idle"
            THEN [bound |-> FALSE, requests |-> processed_requests, lists |-> user_tickets]
            ELSE dicts[p]
  BY DEF KeepOldDicts
<1>3. [bound |-> FALSE, requests |-> processed_requests, lists |-> user_tickets] \in OldDicts
  BY <1>1 DEF OldDicts
<1>4. StatusTypeOK'
  <2>1. dicts' \in [Pollers -> {Live} \cup OldDicts]
    BY <1>3 DEF KeepOldDicts, StatusIInv, StatusTypeOK
  <2> QED BY <1>1, <2>1 DEF StatusIInv, StatusTypeOK
<1>5. ASSUME NEW p \in Pollers, stage[p] # "idle"
      PROVE  Requests(p)' = Requests(p) /\ Lists(p)' = Lists(p)
  <2>1. CASE Bound(p)
    <3> DEFINE old == [bound |-> FALSE, requests |-> processed_requests, lists |-> user_tickets]
    <3>1. dicts'[p] = old
      BY <1>2, <1>5, <2>1
    <3>2. old.bound = FALSE /\ Live.bound = TRUE
      BY DEF Live
    <3>3. old.requests = processed_requests /\ old.lists = user_tickets
      OBVIOUS
    <3> HIDE DEF old
    <3>4. old # Live
      BY <3>2
    <3>5. ~Bound(p)'
      BY <3>1, <3>4 DEF Bound, Live
    <3> QED BY <2>1, <3>1, <3>3, <3>5 DEF Requests, Lists
  <2>2. CASE ~Bound(p)
    <3>1. dicts'[p] = dicts[p]
      BY <1>2, <2>2
    <3>2. ~Bound(p)'
      BY <2>2, <3>1 DEF Bound, Live
    <3> QED BY <2>2, <3>1, <3>2 DEF Requests, Lists
  <2> QED BY <2>1, <2>2
<1>6. CountCovered'
  BY <1>1, <1>5 DEF StatusIInv, CountCovered, Reported
<1> QED BY <1>4, <1>6 DEF StatusIInv

\* What a step of poller p sets; the others keep theirs.
LEMMA StatusStepTypes ==
  ASSUME StatusIInv, NEW p \in Pollers, StatusStep(p), UNCHANGED vars
  PROVE  /\ StatusTypeOK'
         /\ \A q \in Pollers : q # p =>
               /\ stage'[q] = stage[q] /\ body'[q] = body[q] /\ todo'[q] = todo[q]
               /\ dicts'[q] = dicts[q]
<1>1. /\ stage \in [Pollers -> {"idle", "requests", "users", "done"}]
      /\ body \in [Pollers -> Response] /\ todo \in [Pollers -> SUBSET Users]
      /\ dicts \in [Pollers -> {Live} \cup OldDicts]
  BY DEF StatusIInv, StatusTypeOK
<1>2. /\ sold_count \in Nat /\ \A r \in Reqs : processed_requests[r] \in Nat
      /\ \A u \in Users : Range(user_tickets[u]) \subseteq Nat
  BY DEF StatusIInv, IInv, TypeOK, Range
<1>3. /\ \A r \in Reqs : Requests(p)[r] \in Nat
      /\ \A u \in Users : Range(Lists(p)[u]) \subseteq Nat
  <2>1. CASE Bound(p)
    BY <1>2, <2>1 DEF Requests, Lists
  <2>2. CASE ~Bound(p)
    <3>1. dicts[p] \in OldDicts
      BY <1>1, <2>2 DEF Bound
    <3>2. dicts[p].requests \in [Reqs -> Nat] /\ dicts[p].lists \in [Users -> Seq(Nat)]
      BY <3>1 DEF OldDicts
    <3>3. Requests(p) = dicts[p].requests /\ Lists(p) = dicts[p].lists
      BY <2>2 DEF Requests, Lists
    <3>4. \A u \in Users : dicts[p].lists[u] \in Seq(Nat)
      BY <3>2
    <3> QED BY <3>2, <3>3, <3>4 DEF Range
  <2> QED BY <2>1, <2>2
<1>4. /\ body[p] \in Response
      /\ EmptyBody \in Response
  BY <1>1 DEF EmptyBody, Response
<1>5. CASE ReadStatus(p)
  <2> DEFINE copied == {processed_requests[r] : r \in Processed}
             new == [[EmptyBody EXCEPT !.count = sold_count] EXCEPT !.issued = copied]
  <2>1. /\ stage' = [stage EXCEPT ![p] = "requests"] /\ body' = [body EXCEPT ![p] = new]
        /\ todo' = [todo EXCEPT ![p] = Users] /\ dicts' = [dicts EXCEPT ![p] = Live]
    BY <1>5 DEF ReadStatus, CopyState, Advance
  <2>2. copied \in SUBSET Nat
    BY <1>2 DEF Processed
  <2> HIDE DEF copied
  <2>3. new \in Response
    BY <1>2, <1>4, <2>2 DEF Response
  <2> HIDE DEF new
  <2> QED BY <1>1, <2>1, <2>3 DEF StatusTypeOK
<1>6. CASE EncodeRequests(p)
  <2> DEFINE read == {<<r, Requests(p)[r]>> : r \in {q \in Reqs : Requests(p)[q] # NoTicket}}
             old == body[p]
             new == [old EXCEPT !.requests = read]
  <2>1. /\ stage' = [stage EXCEPT ![p] = "users"] /\ body' = [body EXCEPT ![p] = new]
        /\ UNCHANGED <<todo, dicts>>
    BY <1>1, <1>6 DEF EncodeRequests, Advance
  <2>2. read \in SUBSET (Reqs \X Nat)
    BY <1>3
  <2> HIDE DEF read, old
  <2>3. new \in Response
    BY <1>4, <2>2 DEF Response, old
  <2> HIDE DEF new
  <2> QED BY <1>1, <2>1, <2>3 DEF StatusTypeOK
<1>7. CASE EncodeFails(p) \/ Deliver(p)
  <2>1. stage' = [stage EXCEPT ![p] = "idle"] /\ UNCHANGED <<body, todo, dicts>>
    BY <1>7 DEF EncodeFails, Deliver, Advance
  <2> QED BY <1>1, <2>1 DEF StatusTypeOK
<1>8. ASSUME NEW u \in Users, EncodeUser(p, u)
      PROVE  /\ StatusTypeOK'
             /\ \A q \in Pollers : q # p =>
                   /\ stage'[q] = stage[q] /\ body'[q] = body[q] /\ todo'[q] = todo[q]
                   /\ dicts'[q] = dicts[q]
  <2> DEFINE old == body[p]
             read == old.held \cup Range(Lists(p)[u])
             new == [old EXCEPT !.held = read]
  <2>1. /\ stage' = [stage EXCEPT ![p] = IF todo[p] = {u} THEN "done" ELSE "users"]
        /\ todo' = [todo EXCEPT ![p] = @ \ {u}] /\ dicts' = dicts
        /\ body' = [body EXCEPT ![p] = new]
    BY <1>1, <1>8 DEF EncodeUser, Advance
  <2>2. read \in SUBSET Nat
    BY <1>3, <1>4 DEF Response
  <2> HIDE DEF read, old
  <2>3. new \in Response
    BY <1>4, <2>2 DEF Response, old
  <2> HIDE DEF new
  <2> QED BY <1>1, <2>1, <2>3 DEF StatusTypeOK
<1> QED BY <1>5, <1>6, <1>7, <1>8 DEF StatusStep

LEMMA StatusStepCovered ==
  ASSUME StatusIInv, NEW p \in Pollers, StatusStep(p), UNCHANGED vars
  PROVE  StatusIInv'
<1>1. /\ StatusTypeOK'
      /\ \A q \in Pollers : q # p =>
            /\ stage'[q] = stage[q] /\ body'[q] = body[q] /\ todo'[q] = todo[q]
            /\ dicts'[q] = dicts[q]
  BY StatusStepTypes
<1>2. /\ stage \in [Pollers -> {"idle", "requests", "users", "done"}]
      /\ body \in [Pollers -> Response] /\ todo \in [Pollers -> SUBSET Users]
      /\ dicts \in [Pollers -> {Live} \cup OldDicts] /\ body[p] \in Response
  BY DEF StatusIInv, StatusTypeOK
<1>3. UNCHANGED <<processed_requests, user_tickets>>
  BY DEF vars, state
<1>4. IInv' /\ Ledger'
  BY NextIInv, NextLedger DEF StatusIInv
<1>5. ASSUME stage'[p] # "idle"
      PROVE  /\ body'[p].issued = 1 .. body'[p].count /\ body'[p].count <= Total
             /\ stage'[p] = "requests" =>
                   \A k \in body'[p].issued : \E r \in Reqs : Requests(p)'[r] = k
             /\ stage'[p] # "requests" => body'[p].issued \subseteq Reported(p)'
             /\ \A k \in body'[p].issued :
                   k \in body'[p].held \/ \E u \in todo'[p] : k \in Range(Lists(p)'[u])
             /\ stage'[p] = "done" => todo'[p] = {}
  <2>1. CASE ReadStatus(p)
    <3> DEFINE copied == {processed_requests[r] : r \in Processed}
               new == [[EmptyBody EXCEPT !.count = sold_count] EXCEPT !.issued = copied]
    <3>1. /\ stage'[p] = "requests" /\ body'[p] = new
          /\ todo'[p] = Users /\ dicts'[p] = Live /\ buy_lock = NoThread
      BY <1>2, <2>1 DEF ReadStatus, CopyState, Advance
    <3>2. /\ copied = 1 .. sold_count
          /\ UNION {Range(user_tickets[u]) : u \in Users} = 1 .. sold_count
      BY <3>1, LedgerIsBookkeeping DEF StatusIInv, BookkeepingConsistent
    <3>3. sold_count \in Nat /\ sold_count <= Total
      BY DEF StatusIInv, IInv, TypeOK, NoOverselling
    <3>4. Requests(p)' = processed_requests /\ Lists(p)' = user_tickets
      BY <1>3, <3>1 DEF Requests, Lists, Bound, Live
    <3>5. \A k \in copied : \E r \in Reqs : processed_requests[r] = k
      BY DEF Processed
    <3>6. EmptyBody \in Response
      BY DEF EmptyBody, Response
    <3> HIDE DEF copied
    <3>7. new.count = sold_count /\ new.issued = copied
      BY <3>6 DEF Response
    <3> QED BY <3>1, <3>2, <3>3, <3>4, <3>5, <3>7
  <2>2. CASE EncodeRequests(p)
    <3> DEFINE held == {r \in Reqs : Requests(p)[r] # NoTicket}
               read == {<<r, Requests(p)[r]>> : r \in held}
               old == body[p]
               new == [old EXCEPT !.requests = read]
    <3>1. /\ stage[p] = "requests" /\ stage'[p] = "users" /\ body'[p] = new
          /\ todo'[p] = todo[p] /\ dicts'[p] = dicts[p]
      BY <1>2, <2>2 DEF EncodeRequests, Advance
    <3>2. Lists(p)' = Lists(p)
      BY <1>3, <3>1 DEF Lists, Bound, Live
    <3>3. \A k \in old.issued : \E r \in Reqs : Requests(p)[r] = k
      BY <3>1 DEF StatusIInv, CountCovered
    <3>4. old.issued = 1 .. old.count /\ old.count <= Total
      BY <3>1 DEF StatusIInv, CountCovered
    <3>5. \A k \in old.issued : k # NoTicket
      BY <1>2, <3>4 DEF Response, NoTicket
    <3>6. \A k \in old.issued : \E x \in read : x[2] = k
      <4> TAKE k \in old.issued
      <4>1. PICK r \in Reqs : Requests(p)[r] = k
        BY <3>3
      <4>2. r \in held
        BY <3>5, <4>1
      <4>3. <<r, k>> \in read
        BY <4>1, <4>2
      <4> QED BY <4>3
    <3>7. old \in Response
      BY <1>2
    <3>8. \A k \in old.issued : k \in old.held \/ \E u \in todo[p] : k \in Range(Lists(p)[u])
      BY <3>1 DEF StatusIInv, CountCovered
    <3> HIDE DEF read, old
    <3>9. /\ new.count = old.count /\ new.issued = old.issued /\ new.requests = read
          /\ new.held = old.held
      BY <3>7 DEF Response
    <3>10. old.issued \subseteq {x[2] : x \in read}
      BY <3>6
    <3> QED BY <3>1, <3>2, <3>4, <3>8, <3>9, <3>10 DEF Reported
  <2>3. CASE EncodeFails(p) \/ Deliver(p)
    BY <1>2, <1>5, <2>3 DEF EncodeFails, Deliver, Advance
  <2>4. ASSUME NEW u \in Users, EncodeUser(p, u)
        PROVE  /\ body'[p].issued = 1 .. body'[p].count /\ body'[p].count <= Total
               /\ stage'[p] # "requests" /\ body'[p].issued \subseteq Reported(p)'
               /\ \A k \in body'[p].issued :
                     k \in body'[p].held \/ \E v \in todo'[p] : k \in Range(Lists(p)'[v])
               /\ stage'[p] = "done" => todo'[p] = {}
    <3> DEFINE old == body[p]
               read == old.held \cup Range(Lists(p)[u])
               new == [old EXCEPT !.held = read]
    <3>1. /\ stage[p] = "users" /\ u \in todo[p]
          /\ stage'[p] = IF todo[p] = {u} THEN "done" ELSE "users"
          /\ body'[p] = new
          /\ todo'[p] = todo[p] \ {u} /\ dicts'[p] = dicts[p]
      BY <1>2, <2>4 DEF EncodeUser, Advance
    <3>2. Lists(p)' = Lists(p)
      BY <1>3, <3>1 DEF Lists, Bound, Live
    <3>3. /\ old.issued = 1 .. old.count /\ old.count <= Total
          /\ old.issued \subseteq {x[2] : x \in old.requests}
          /\ \A k \in old.issued :
                k \in old.held \/ \E v \in todo[p] : k \in Range(Lists(p)[v])
      BY <3>1 DEF StatusIInv, CountCovered, Reported
    <3>4. \A k \in old.issued :
             k \in read \/ \E v \in todo[p] \ {u} : k \in Range(Lists(p)[v])
      BY <3>3
    <3>5. old \in Response
      BY <1>2
    <3> HIDE DEF read, old
    <3>6. /\ new.count = old.count /\ new.issued = old.issued /\ new.held = read
          /\ new.requests = old.requests
      BY <3>5 DEF Response
    <3>7. stage'[p] = "done" => todo'[p] = {}
      BY <3>1
    <3>8. stage'[p] # "requests"
      BY <3>1
    <3> QED BY <3>1, <3>2, <3>3, <3>4, <3>6, <3>7, <3>8 DEF Reported
  <2> QED BY <2>1, <2>2, <2>3, <2>4 DEF StatusStep
<1>6. ASSUME NEW q \in Pollers, q # p
      PROVE  Requests(q)' = Requests(q) /\ Lists(q)' = Lists(q)
  BY <1>1, <1>3, <1>6 DEF Requests, Lists, Bound, Live
<1>7. CountCovered'
  <2> SUFFICES ASSUME NEW q \in Pollers, q # p, stage'[q] # "idle"
               PROVE  /\ body'[q].issued = 1 .. body'[q].count /\ body'[q].count <= Total
                      /\ stage'[q] = "requests" =>
                            \A k \in body'[q].issued : \E r \in Reqs : Requests(q)'[r] = k
                      /\ stage'[q] # "requests" => body'[q].issued \subseteq Reported(q)'
                      /\ \A k \in body'[q].issued :
                            k \in body'[q].held \/ \E u \in todo'[q] : k \in Range(Lists(q)'[u])
                      /\ stage'[q] = "done" => todo'[q] = {}
    BY <1>5 DEF CountCovered
  <2> QED BY <1>1, <1>6 DEF StatusIInv, CountCovered, Reported
<1> QED BY <1>1, <1>4, <1>7 DEF StatusIInv

LEMMA StatusNextIInv == StatusIInv /\ [StatusNext]_<<vars, statusVars>> => StatusIInv'
<1> SUFFICES ASSUME StatusIInv, [StatusNext]_<<vars, statusVars>> PROVE StatusIInv'
  OBVIOUS
<1>1. IInv' /\ Ledger'
  BY StatusStutters, NextIInv, NextLedger DEF StatusIInv
<1>2. ASSUME NEW t \in Threads, BuyStep(t) \/ \E r \in Reqs, u \in Users : Arrive(t, r, u),
             UNCHANGED statusVars
      PROVE  StatusIInv'
  BY <1>1, <1>2, BuysOnlyAdd, BuyBesideStatus DEF StatusIInv
<1>3. CASE Reset /\ KeepOldDicts
  BY <1>1, <1>3, ResetBesideStatus
<1>4. CASE (\E p \in Pollers : StatusStep(p)) /\ UNCHANGED vars
  BY <1>4, StatusStepCovered
<1>5. CASE UNCHANGED vars /\ UNCHANGED statusVars
  <2>1. /\ \A r \in Reqs : processed_requests'[r] = processed_requests[r]
        /\ \A u \in Users : Range(user_tickets[u]) \subseteq Range(user_tickets'[u])
    BY <1>5 DEF vars, state
  <2> QED BY <1>1, <1>5, <2>1, BuyBesideStatus
<1> QED BY <1>2, <1>3, <1>4, <1>5 DEF StatusNext, Finished

LEMMA StatusInitIInv == Init /\ StatusInit => StatusIInv
<1> SUFFICES ASSUME Init, StatusInit PROVE StatusIInv
  OBVIOUS
<1>1. IInv /\ Ledger
  BY InitIInv, InitLedger
<1>2. StatusTypeOK
  <2>1. EmptyBody \in Response
    BY DEF EmptyBody, Response
  <2> QED BY <2>1 DEF StatusInit, StatusTypeOK
<1>3. CountCovered
  BY DEF StatusInit, CountCovered
<1> QED BY <1>1, <1>2, <1>3 DEF StatusIInv

LEMMA StatusInvariantHolds == StatusSpec => []StatusIInv
  BY StatusInitIInv, StatusNextIInv, PTL DEF StatusSpec

\* A response of GET /status names every ticket it counts, in both dictionaries,
\* although they are encoded after the lock is released.
THEOREM StatusIsComplete == StatusSpec => []StatusNeverMissesASale
<1>1. StatusIInv => StatusNeverMissesASale
  BY DEF StatusIInv, CountCovered, StatusNeverMissesASale, Done, Reported
<1> QED BY <1>1, StatusInvariantHolds, PTL
==============================================================================

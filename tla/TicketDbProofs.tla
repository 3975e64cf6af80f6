---------------------------- MODULE TicketDbProofs ----------------------------
(***************************************************************************)
(* Proofs about TicketDb, for every set of tasks, pools, req_ids and       *)
(* users, every number of tickets and any number of resets and faults.     *)
(***************************************************************************)
EXTENDS TicketDb, TLAPS

\* Steps of a transaction that has locked the tickets_state row.
InBuy == {"locked", "checked", "updated", "inserted"}
InTransaction == InBuy \cup {"zeroed", "deleted"}

\* The calls that take a step.
OpFits(step, call) ==
    /\ step = "idle" => call = NoOp
    /\ step \in {"checked", "updated", "inserted"} => call \in Buy
    /\ step \in {"zeroed", "deleted"} => call = ResetOp
    /\ step \in {"counted", "reported"} => call = StatusOp

OpKnown == \A t \in Tasks : OpFits(pc[t], op[t])

\* The row lock is held by the one open transaction, if any.
Locked == \A t \in Tasks : pc[t] \in InTransaction <=> row_lock = t

\* What a transaction has read is still what is committed.
NoStaleRead ==
    \A t \in Tasks :
        /\ pc[t] \in InBuy => count[t] = sold_count
        /\ pc[t] = "checked" =>
               TicketsOf(op[t].req) = IF existing[t] = NoTicket THEN {} ELSE {existing[t]}
        /\ pc[t] \in {"updated", "inserted"} =>
               TicketsOf(op[t].req) = {} /\ count[t] < Total

IInv ==
    /\ TypeOK
    /\ OpKnown
    /\ Locked
    /\ NoStaleRead
    /\ LedgerMatchesCount
    /\ OutcomesOnRecord

USE TotalAssumption, NoTaskAssumption, OpAssumption DEF NoTicket

LEMMA InitIInv == Init => IInv
<1> SUFFICES ASSUME Init PROVE IInv
  OBVIOUS
<1>1. TypeOK
  <2>1. budget \in [buys : [Reqs -> Nat], resets : Nat, polls : Nat, faults : Nat]
    BY BoundsAssumption DEF Init
  <2> QED BY <2>1 DEF Init, TypeOK
<1>2. OpKnown /\ Locked /\ NoStaleRead
  BY DEF Init, OpKnown, OpFits, Locked, NoStaleRead, InTransaction, InBuy
<1>3. LedgerMatchesCount /\ OutcomesOnRecord
  BY DEF Init, LedgerMatchesCount, OutcomesOnRecord
<1> QED BY <1>1, <1>2, <1>3 DEF IInv

-----------------------------------------------------------------------------
(* Lemmas about the tables                                                 *)

\* The lock excludes every other transaction.
LEMMA OneTransaction ==
  ASSUME IInv, NEW t \in Tasks, row_lock \in {t, NoTask}
  PROVE  \A s \in Tasks : s # t => pc[s] \notin InTransaction
  BY DEF IInv, Locked

\* A step that leaves the tables alone, moves only task t, and moves it to a
\* step that claims nothing about what it has read, keeps the invariant if it
\* keeps the types and the lock.
LEMMA QuietStep ==
  ASSUME IInv, NEW t \in Tasks, NEW step, pc' = [pc EXCEPT ![t] = step],
         step \notin InBuy, OpFits(step, op'[t]),
         UNCHANGED <<sold_count, sold_tickets>>,
         \A s \in Tasks : s # t => /\ op'[s] = op[s] /\ count'[s] = count[s]
                                   /\ existing'[s] = existing[s],
         TypeOK', Locked', OutcomesOnRecord'
  PROVE  IInv'
<1> USE DEF IInv
<1>1. \A s \in Tasks : s # t => pc'[s] = pc[s]
  BY DEF TypeOK
<1>2. pc'[t] = step
  BY DEF TypeOK
<1>3. OpKnown'
  BY <1>1, <1>2 DEF OpKnown
<1>4. NoStaleRead'
  BY <1>1, <1>2 DEF NoStaleRead, InBuy, TicketsOf
<1>5. LedgerMatchesCount'
  BY DEF LedgerMatchesCount
<1> QED BY <1>3, <1>4, <1>5

\* The same for a step of t to a step of a transaction of its own, about which
\* what NoStaleRead and OpKnown say is shown.
LEMMA TransactionStep ==
  ASSUME IInv, NEW t \in Tasks, NEW step, pc' = [pc EXCEPT ![t] = step],
         UNCHANGED <<sold_count, sold_tickets, answers>>,
         \A s \in Tasks : s # t => /\ op'[s] = op[s] /\ count'[s] = count[s]
                                   /\ existing'[s] = existing[s],
         TypeOK', row_lock' = t, step \in InTransaction,
         row_lock \in {t, NoTask},
         step \in InBuy => count'[t] = sold_count,
         OpFits(step, op'[t]),
         step = "checked" =>
            TicketsOf(op'[t].req) = IF existing'[t] = NoTicket THEN {} ELSE {existing'[t]},
         step \in {"updated", "inserted"} => TicketsOf(op'[t].req) = {} /\ sold_count < Total
  PROVE  IInv'
<1> USE DEF IInv
<1>1. \A s \in Tasks : s # t => pc'[s] = pc[s] /\ pc[s] \notin InTransaction
  BY OneTransaction DEF TypeOK
<1>2. pc'[t] = step
  BY DEF TypeOK
<1>3. OpKnown'
  BY <1>1, <1>2 DEF OpKnown
<1>4. Locked'
  BY <1>1, <1>2 DEF Locked
<1>5. NoStaleRead'
  <2>1. ASSUME NEW s \in Tasks, s # t PROVE pc'[s] \notin InBuy
    BY <1>1, <2>1 DEF InTransaction
  <2>2. step \in InBuy => count'[t] = sold_count'
    OBVIOUS
  <2>3. step \in {"updated", "inserted"} => count'[t] < Total
    BY <2>2 DEF InBuy
  <2> QED BY <1>2, <2>1, <2>2, <2>3 DEF NoStaleRead, InBuy, TicketsOf
<1>6. LedgerMatchesCount' /\ OutcomesOnRecord'
  BY DEF LedgerMatchesCount, OutcomesOnRecord, TicketsOf
<1> QED BY <1>3, <1>4, <1>5, <1>6

-----------------------------------------------------------------------------
(* Calls, and the steps that wait for a connection or return               *)

LEMMA CallStep == ASSUME IInv, NEW t \in Tasks, Call(t) PROVE IInv'
<1> USE DEF IInv
<1>1. /\ pc[t] = "idle" /\ pc' = [pc EXCEPT ![t] = "acquiring"]
      /\ UNCHANGED <<sold_count, sold_tickets, row_lock, count, existing, rows, answers>>
  BY DEF Call, CallBuy, CallReset, CallStatus, Begin, Goto, tables, locals
<1>2. \E call \in Buy \cup {NoOp, ResetOp, StatusOp} : op' = [op EXCEPT ![t] = call]
  BY DEF Call, CallBuy, CallReset, CallStatus, Begin, Buy
<1>3. budget' \in [buys : [Reqs -> Nat], resets : Nat, polls : Nat, faults : Nat]
  <2>1. ASSUME NEW r \in Reqs, NEW u \in Users, CallBuy(t, r, u)
        PROVE  budget' \in [buys : [Reqs -> Nat], resets : Nat, polls : Nat, faults : Nat]
    <3>1. budget' = [budget EXCEPT !.buys[r] = budget.buys[r] - 1] /\ budget.buys[r] > 0
      BY <2>1 DEF CallBuy
    <3>2. budget.buys \in [Reqs -> Nat] /\ budget.buys[r] - 1 \in Nat
      BY <3>1 DEF TypeOK
    <3>3. [budget.buys EXCEPT ![r] = budget.buys[r] - 1] \in [Reqs -> Nat]
      BY <3>2
    <3> QED BY <3>1, <3>3 DEF TypeOK
  <2>2. ASSUME CallReset(t) \/ CallStatus(t)
        PROVE  budget' \in [buys : [Reqs -> Nat], resets : Nat, polls : Nat, faults : Nat]
    BY <2>2 DEF CallReset, CallStatus, TypeOK
  <2> QED BY <2>1, <2>2 DEF Call
<1>4. TypeOK'
  BY <1>1, <1>2, <1>3 DEF TypeOK
<1>5. Locked'
  BY <1>1 DEF TypeOK, Locked, InTransaction, InBuy
<1>6. OutcomesOnRecord'
  BY <1>1 DEF OutcomesOnRecord, TicketsOf
<1>7. \A s \in Tasks : s # t => op'[s] = op[s]
  BY <1>2 DEF TypeOK
<1>8. OpFits("acquiring", op'[t])
  BY DEF OpFits
<1> QED BY <1>1, <1>4, <1>5, <1>6, <1>7, <1>8, QuietStep DEF InBuy

\* Acquire, StatusCount, StatusRows and Return take no lock and give none back.
LEMMA AsideStep ==
  ASSUME IInv, NEW t \in Tasks,
         Acquire(t) \/ StatusCount(t) \/ StatusRows(t) \/ Return(t) \/ ReturnStatus(t)
  PROVE  IInv'
<1> USE DEF IInv
<1> DEFINE Asides == {"idle", "acquiring", "connected", "counted", "reported", "committed"}
<1>1. PICK step \in Asides : pc' = [pc EXCEPT ![t] = step]
  BY DEF Acquire, StatusCount, StatusRows, Return, ReturnStatus, Goto
<1>2. pc[t] \in Asides
  BY DEF Acquire, StatusCount, StatusRows, Return, ReturnStatus, Goto
<1>3. UNCHANGED <<sold_count, sold_tickets, answers, budget>>
  BY DEF Acquire, StatusCount, StatusRows, Return, ReturnStatus, tables
<1>4. row_lock' = row_lock
  <2>1. row_lock # t
    BY <1>2 DEF Locked, InTransaction, InBuy
  <2> QED BY <2>1 DEF Acquire, StatusCount, StatusRows, Return, ReturnStatus, EndTransaction
<1>5. op' = op \/ op' = [op EXCEPT ![t] = NoOp]
  BY DEF Acquire, StatusCount, StatusRows, Return, ReturnStatus, Finish
<1>6. /\ \E n \in Nat : count' = [count EXCEPT ![t] = n]
      /\ \E n \in Nat : existing' = [existing EXCEPT ![t] = n]
      /\ \E R \in SUBSET Row : rows' = [rows EXCEPT ![t] = R]
  <2>1. /\ count = [count EXCEPT ![t] = count[t]] /\ count[t] \in Nat
        /\ existing = [existing EXCEPT ![t] = existing[t]] /\ existing[t] \in Nat
        /\ rows = [rows EXCEPT ![t] = rows[t]] /\ rows[t] \in SUBSET Row
        /\ sold_count \in Nat /\ sold_tickets \in SUBSET Row
    BY DEF TypeOK
  <2>2. CASE Acquire(t) \/ Return(t)
    BY <2>1, <2>2 DEF Acquire, Return, locals
  <2>3. CASE StatusCount(t)
    BY <2>1, <2>3 DEF StatusCount
  <2>4. CASE StatusRows(t)
    BY <2>1, <2>4 DEF StatusRows
  <2>5. CASE ReturnStatus(t)
    BY <2>1, <2>5 DEF ReturnStatus, EndTransaction
  <2> QED BY <2>2, <2>3, <2>4, <2>5
<1>7. TypeOK'
  BY <1>1, <1>3, <1>4, <1>5, <1>6 DEF TypeOK
<1>8. Locked'
  BY <1>1, <1>2, <1>4 DEF TypeOK, Locked, InTransaction, InBuy
<1>9. OutcomesOnRecord'
  BY <1>3 DEF OutcomesOnRecord, TicketsOf
<1>10. \A s \in Tasks : s # t => /\ op'[s] = op[s] /\ count'[s] = count[s]
                                 /\ existing'[s] = existing[s]
  BY <1>5, <1>6 DEF TypeOK
<1>11. step \notin InBuy
  BY DEF InBuy
<1>12. OpFits(step, op'[t])
  <2>1. pc'[t] = step
    BY <1>1 DEF TypeOK
  <2>2. CASE Acquire(t)
    BY <2>1, <2>2 DEF Acquire, Goto, OpFits, TypeOK
  <2>3. CASE StatusCount(t) \/ StatusRows(t)
    BY <2>1, <2>3 DEF StatusCount, StatusRows, Goto, OpFits, OpKnown, TypeOK
  <2>4. CASE Return(t) \/ ReturnStatus(t)
    BY <2>1, <2>4 DEF Return, ReturnStatus, Finish, Goto, OpFits, TypeOK
  <2> QED BY <2>2, <2>3, <2>4
<1> QED BY <1>1, <1>3, <1>7, <1>8, <1>9, <1>10, <1>11, <1>12, QuietStep

-----------------------------------------------------------------------------
(* Steps inside a transaction                                              *)

LEMMA SelectForUpdateStep ==
  ASSUME IInv, NEW t \in Tasks, SelectForUpdate(t) PROVE IInv'
<1> USE DEF IInv
<1>1. /\ pc' = [pc EXCEPT ![t] = "locked"]
      /\ count' = [count EXCEPT ![t] = sold_count]
      /\ row_lock = NoTask /\ row_lock' = t
      /\ UNCHANGED <<sold_count, sold_tickets, op, existing, rows, answers, budget>>
  BY DEF SelectForUpdate, ReadCount, Goto, tables
<1>2. TypeOK'
  BY <1>1 DEF TypeOK
<1>3. count'[t] = sold_count /\ \A s \in Tasks : s # t => count'[s] = count[s]
  BY <1>1 DEF TypeOK
<1> QED BY <1>1, <1>2, <1>3, TransactionStep DEF InTransaction, InBuy, OpFits

LEMMA CheckExistingStep ==
  ASSUME IInv, NEW t \in Tasks, CheckExisting(t) PROVE IInv'
<1> USE DEF IInv
<1> DEFINE T == TicketsOf(op[t].req)
           n == IF T = {} THEN 0 ELSE CHOOSE m \in T : TRUE
<1>1. /\ pc[t] = "locked" /\ pc' = [pc EXCEPT ![t] = "checked"]
      /\ op[t] \in Buy
      /\ existing' = [existing EXCEPT ![t] = n]
      /\ UNCHANGED <<sold_count, sold_tickets, row_lock, op, count, rows, answers, budget>>
  BY DEF CheckExisting, Goto, tables
<1>2. \A m \in T : m \in 1 .. sold_count
  BY DEF LedgerMatchesCount, TicketsOf
<1>3. \A m1, m2 \in T : m1 = m2
  BY DEF LedgerMatchesCount, TicketsOf
<1>4. n \in Nat /\ T = IF n = 0 THEN {} ELSE {n}
  <2>1. CASE T = {}
    BY <2>1
  <2>2. CASE T # {}
    <3>1. n \in T
      BY <2>2
    <3>2. T = {n}
      BY <3>1, <1>3
    <3>3. n \in Nat /\ n # 0
      BY <3>1, <1>2 DEF TypeOK
    <3> QED BY <3>2, <3>3
  <2> QED BY <2>1, <2>2
<1>5. TypeOK'
  <2> HIDE DEF n
  <2> QED BY <1>1, <1>4 DEF TypeOK
<1>6. row_lock = t /\ row_lock' = t
  BY <1>1 DEF Locked, InTransaction, InBuy
<1>7. /\ existing'[t] = n /\ \A s \in Tasks : s # t => existing'[s] = existing[s]
      /\ count'[t] = sold_count
  <2> HIDE DEF n
  <2> QED BY <1>1 DEF TypeOK, NoStaleRead, InBuy
<1>8. TicketsOf(op'[t].req) = IF existing'[t] = NoTicket THEN {} ELSE {existing'[t]}
  BY <1>1, <1>4, <1>7
<1> HIDE DEF n, T
<1>9. OpFits("checked", op'[t])
  BY <1>1 DEF OpFits
<1> QED BY <1>1, <1>5, <1>6, <1>7, <1>8, <1>9, TransactionStep DEF InTransaction, InBuy

LEMMA UpdateCountStep ==
  ASSUME IInv, NEW t \in Tasks, UpdateCount(t) PROVE IInv'
<1> USE DEF IInv
<1>1. /\ pc[t] = "checked" /\ pc' = [pc EXCEPT ![t] = "updated"]
      /\ existing[t] = 0 /\ count[t] < Total
      /\ row_lock \in {t, NoTask} /\ row_lock' = t
      /\ UNCHANGED <<sold_count, sold_tickets, op, count, existing, rows, answers, budget>>
  BY DEF UpdateCount, Goto, tables, locals
<1>2. TypeOK'
  BY <1>1 DEF TypeOK
<1>3. op'[t] \in Buy /\ count'[t] = sold_count /\ TicketsOf(op'[t].req) = {}
  BY <1>1 DEF OpKnown, OpFits, NoStaleRead, InBuy
<1>4. OpFits("updated", op'[t])
  BY <1>3 DEF OpFits
<1> QED BY <1>1, <1>2, <1>3, <1>4, TransactionStep DEF InTransaction, InBuy

\* reset_state's statements.
LEMMA ResetStatementStep ==
  ASSUME IInv, NEW t \in Tasks, ResetCount(t) \/ DeleteTickets(t) PROVE IInv'
<1> USE DEF IInv
<1>1. PICK step \in {"zeroed", "deleted"} : pc' = [pc EXCEPT ![t] = step]
  BY DEF ResetCount, DeleteTickets, Goto
<1>2. /\ pc[t] \in InTransaction
      /\ UNCHANGED <<sold_count, sold_tickets, row_lock, op, count, existing, rows,
                     answers, budget>>
  BY DEF ResetCount, DeleteTickets, Goto, tables, locals, InTransaction, InBuy
<1>3. TypeOK'
  BY <1>1, <1>2 DEF TypeOK
<1>4. row_lock = t
  BY <1>2 DEF Locked
<1>5. OpFits(step, op'[t])
  BY <1>1, <1>2 DEF ResetCount, DeleteTickets, Goto, OpKnown, OpFits
<1> QED BY <1>1, <1>2, <1>3, <1>4, <1>5, TransactionStep DEF InTransaction, InBuy

-----------------------------------------------------------------------------
(* Steps that end a transaction                                            *)

\* What the end of a transaction does to the lock and to the locals.
LEMMA EndFrame ==
  ASSUME IInv, NEW t \in Tasks, EndTransaction(t),
         NEW step \in {"idle", "committed"}, pc' = [pc EXCEPT ![t] = step],
         op' = op \/ op' = [op EXCEPT ![t] = NoOp]
  PROVE  /\ count' \in [Tasks -> Nat] /\ existing' \in [Tasks -> Nat]
         /\ rows' \in [Tasks -> SUBSET Row]
         /\ row_lock' \in Tasks \cup {NoTask}
         /\ pc' \in [Tasks -> {"idle", "acquiring", "connected", "locked", "checked",
                         "updated", "inserted", "zeroed", "deleted", "committed",
                         "counted", "reported"}]
         /\ op' \in [Tasks -> Buy \cup {NoOp, ResetOp, StatusOp}]
         /\ \A s \in Tasks : s # t => /\ count'[s] = count[s] /\ op'[s] = op[s]
                                      /\ existing'[s] = existing[s] /\ pc'[s] = pc[s]
         /\ pc'[t] = step
         /\ Locked'
<1> USE DEF IInv
<1>1. /\ row_lock' = IF row_lock = t THEN NoTask ELSE row_lock
      /\ count' = [count EXCEPT ![t] = 0]
      /\ existing' = [existing EXCEPT ![t] = 0]
      /\ rows' = [rows EXCEPT ![t] = {}]
  BY DEF EndTransaction
<1>2. Locked'
  BY <1>1 DEF TypeOK, Locked, InTransaction, InBuy
<1> QED BY <1>1, <1>2 DEF TypeOK

\* An outcome that says nothing false of the tables may be given at any time.
LEMMA OutcomeStep ==
  ASSUME IInv, NEW t \in Tasks, op[t] \in Buy,
         UNCHANGED <<sold_count, sold_tickets>>,
         NEW status \in {"already_processed", "sold_out", "error"},
         NEW ticket \in Nat, NEW remaining \in Int, Outcome(t, status, ticket, remaining),
         \/ status = "already_processed" /\ TicketsOf(op[t].req) = {ticket}
         \/ status = "sold_out" /\ TicketsOf(op[t].req) = {} /\ sold_count = Total
         \/ status = "error"
  PROVE  /\ OutcomesOnRecord'
         /\ answers' \subseteq [req : Reqs, user : Users, ticket : Nat, remaining : Int,
                     status : {"success", "already_processed", "sold_out", "error"}]
<1> USE DEF IInv
<1> DEFINE new == [req |-> op[t].req, user |-> op[t].user, status |-> status,
                   ticket |-> ticket, remaining |-> remaining]
<1>1. answers' = answers \cup {new}
  BY DEF Outcome
<1>2. new \in [req : Reqs, user : Users, ticket : Nat, remaining : Int,
                status : {"success", "already_processed", "sold_out", "error"}]
  BY DEF Buy
<1>3. OutcomesOnRecord'
  BY <1>1, SMTT(20) DEF OutcomesOnRecord, TicketsOf
<1> QED BY <1>1, <1>2, <1>3 DEF TypeOK

LEMMA AnswerReplayStep ==
  ASSUME IInv, NEW t \in Tasks, AnswerReplay(t) PROVE IInv'
<1> USE DEF IInv
<1>1. /\ pc[t] = "checked" /\ pc' = [pc EXCEPT ![t] = "idle"] /\ existing[t] # 0
      /\ Outcome(t, "already_processed", existing[t], Total - count[t])
      /\ EndTransaction(t) /\ op' = [op EXCEPT ![t] = NoOp]
      /\ UNCHANGED <<sold_count, sold_tickets, budget>>
  BY DEF AnswerReplay, Goto, Finish, tables
<1>2. /\ op[t] \in Buy /\ TicketsOf(op[t].req) = {existing[t]}
      /\ existing[t] \in Nat /\ Total - count[t] \in Int
  <2>1. op[t] \in Buy
    BY <1>1 DEF OpKnown, OpFits
  <2>2. TicketsOf(op[t].req) = IF existing[t] = 0 THEN {} ELSE {existing[t]}
    BY <1>1 DEF NoStaleRead
  <2>3. existing[t] \in Nat /\ Total - count[t] \in Int
    BY DEF TypeOK
  <2> QED BY <1>1, <2>1, <2>2, <2>3
<1>3. /\ OutcomesOnRecord'
      /\ answers' \subseteq [req : Reqs, user : Users, ticket : Nat, remaining : Int,
                  status : {"success", "already_processed", "sold_out", "error"}]
  BY <1>1, <1>2, OutcomeStep
<1>4. TypeOK' /\ Locked'
  BY <1>1, <1>3, EndFrame DEF TypeOK
<1>5. \A s \in Tasks : s # t => /\ op'[s] = op[s] /\ count'[s] = count[s]
                                /\ existing'[s] = existing[s]
  BY <1>1, EndFrame
<1>9. OpFits("idle", op'[t])
  BY <1>1 DEF OpFits, TypeOK
<1> QED BY <1>9, <1>1, <1>3, <1>4, <1>5, QuietStep DEF InBuy

LEMMA AnswerSoldOutStep ==
  ASSUME IInv, NEW t \in Tasks, AnswerSoldOut(t) PROVE IInv'
<1> USE DEF IInv
<1>1. /\ pc[t] = "checked" /\ pc' = [pc EXCEPT ![t] = "idle"]
      /\ existing[t] = 0 /\ count[t] >= Total
      /\ Outcome(t, "sold_out", 0, 0)
      /\ EndTransaction(t) /\ op' = [op EXCEPT ![t] = NoOp]
      /\ UNCHANGED <<sold_count, sold_tickets, budget>>
  BY DEF AnswerSoldOut, Goto, Finish, tables
<1>2. op[t] \in Buy /\ TicketsOf(op[t].req) = {} /\ count[t] = sold_count
  <2>1. op[t] \in Buy /\ count[t] = sold_count
    BY <1>1 DEF OpKnown, OpFits, NoStaleRead, InBuy
  <2>2. TicketsOf(op[t].req) = IF existing[t] = 0 THEN {} ELSE {existing[t]}
    BY <1>1 DEF NoStaleRead
  <2> QED BY <1>1, <2>1, <2>2
<1>3. sold_count = Total
  BY <1>1, <1>2 DEF LedgerMatchesCount, TypeOK
<1>4. /\ OutcomesOnRecord'
      /\ answers' \subseteq [req : Reqs, user : Users, ticket : Nat, remaining : Int,
                  status : {"success", "already_processed", "sold_out", "error"}]
  BY <1>1, <1>2, <1>3, OutcomeStep
<1>5. TypeOK' /\ Locked'
  BY <1>1, <1>4, EndFrame DEF TypeOK
<1>6. \A s \in Tasks : s # t => /\ op'[s] = op[s] /\ count'[s] = count[s]
                                /\ existing'[s] = existing[s]
  BY <1>1, EndFrame
<1>9. OpFits("idle", op'[t])
  BY <1>1 DEF OpFits, TypeOK
<1> QED BY <1>9, <1>1, <1>4, <1>5, <1>6, QuietStep DEF InBuy

LEMMA RollbackStep ==
  ASSUME IInv, NEW t \in Tasks, Rollback(t),
         budget' \in [buys : [Reqs -> Nat], resets : Nat, polls : Nat, faults : Nat]
  PROVE  IInv'
<1> USE DEF IInv
<1>1. /\ pc' = [pc EXCEPT ![t] = "idle"]
      /\ IF op[t] \in Buy THEN Outcome(t, "error", 0, 0) ELSE UNCHANGED answers
      /\ EndTransaction(t) /\ op' = [op EXCEPT ![t] = NoOp]
      /\ UNCHANGED <<sold_count, sold_tickets>>
  BY DEF Rollback, Finish, tables
<1>2. /\ OutcomesOnRecord'
      /\ answers' \subseteq [req : Reqs, user : Users, ticket : Nat, remaining : Int,
                  status : {"success", "already_processed", "sold_out", "error"}]
  <2>1. CASE op[t] \in Buy
    <3>1. 0 \in Nat /\ 0 \in Int
      OBVIOUS
    <3> QED BY <1>1, <2>1, <3>1, OutcomeStep
  <2>2. CASE op[t] \notin Buy
    BY <1>1, <2>2 DEF OutcomesOnRecord, TicketsOf, TypeOK
  <2> QED BY <2>1, <2>2
<1>3. TypeOK' /\ Locked'
  BY <1>1, <1>2, EndFrame DEF TypeOK
<1>4. \A s \in Tasks : s # t => /\ op'[s] = op[s] /\ count'[s] = count[s]
                                /\ existing'[s] = existing[s]
  BY <1>1, EndFrame
<1>9. OpFits("idle", op'[t])
  BY <1>1 DEF OpFits, TypeOK
<1> QED BY <1>9, <1>1, <1>2, <1>3, <1>4, QuietStep DEF InBuy

\* The tables with one more row, sold under the lock.
LEMMA SellLedger ==
  ASSUME IInv, NEW t \in Tasks, pc[t] = "inserted", Sell(t)
  PROVE  /\ op[t] \in Buy
         /\ sold_count' = sold_count + 1 /\ sold_count' \in Nat
         /\ sold_tickets' \subseteq Row
         /\ LedgerMatchesCount'
         /\ \A r : r = op[t].req => TicketsOf(r)' = {sold_count + 1}
         /\ \A a \in answers :
               /\ a.status \in {"success", "already_processed"} =>
                      TicketsOf(a.req)' = {a.ticket}
               /\ a.status # "sold_out"
<1> USE DEF IInv
<1> DEFINE b == op[t]
           new == [req |-> b.req, user |-> b.user, ticket |-> sold_count + 1]
<1>1. /\ b \in Buy /\ count[t] = sold_count /\ sold_count < Total
      /\ TicketsOf(b.req) = {} /\ sold_count \in Nat
  BY DEF OpKnown, OpFits, NoStaleRead, InBuy, TypeOK
<1>2. sold_count' = sold_count + 1 /\ sold_tickets' = sold_tickets \cup {new}
  BY <1>1 DEF Sell
<1>3. /\ new \in Row /\ new.req = b.req /\ new.ticket = sold_count + 1
      /\ sold_tickets' \subseteq Row
  BY <1>1, <1>2 DEF Row, Buy, TypeOK
<1> HIDE DEF new
<1>4. \A s \in sold_tickets : s.ticket # new.ticket /\ s.req # new.req
  <2> TAKE s \in sold_tickets
  <2>1. s.ticket \in 1 .. sold_count
    BY DEF LedgerMatchesCount
  <2>2. s.req # b.req
    BY <1>1 DEF TicketsOf
  <2> QED BY <2>1, <2>2, <1>1, <1>3
<1>5. LedgerMatchesCount'
  <2>1. {s.ticket : s \in sold_tickets \cup {new}} =
            {s.ticket : s \in sold_tickets} \cup {new.ticket}
    OBVIOUS
  <2>2. 1 .. (sold_count + 1) = (1 .. sold_count) \cup {sold_count + 1}
    BY <1>1
  <2>3. {s.ticket : s \in sold_tickets'} = 1 .. sold_count'
    BY <1>2, <1>3, <2>1, <2>2 DEF LedgerMatchesCount
  <2>4. ASSUME NEW s1 \in sold_tickets', NEW s2 \in sold_tickets',
               s1.ticket = s2.ticket \/ s1.req = s2.req
        PROVE  s1 = s2
    BY <1>2, <1>4, <2>4 DEF LedgerMatchesCount
  <2>5. sold_count' <= Total
    BY <1>1, <1>2
  <2> QED BY <2>3, <2>4, <2>5 DEF LedgerMatchesCount
<1>6. \A r : TicketsOf(r)' = IF r = b.req THEN TicketsOf(r) \cup {sold_count + 1}
                                        ELSE TicketsOf(r)
  <2>1. ASSUME NEW r
        PROVE  {s.ticket : s \in {q \in sold_tickets \cup {new} : q.req = r}} =
                 IF r = b.req
                 THEN {s.ticket : s \in {q \in sold_tickets : q.req = r}} \cup {new.ticket}
                 ELSE {s.ticket : s \in {q \in sold_tickets : q.req = r}}
    BY <1>3
  <2> QED BY <2>1, <1>2, <1>3 DEF TicketsOf
<1>7. ASSUME NEW a \in answers
      PROVE  /\ a.status \in {"success", "already_processed"} =>
                    TicketsOf(a.req)' = {a.ticket}
             /\ a.status # "sold_out"
  <2>1. a.status # "sold_out"
    BY <1>1 DEF OutcomesOnRecord, TypeOK
  <2>2. a.status \in {"success", "already_processed"} => a.req # b.req
    BY <1>1 DEF OutcomesOnRecord
  <2> QED BY <1>6, <2>1, <2>2 DEF OutcomesOnRecord
<1>8. \A r : r = b.req => TicketsOf(r)' = {sold_count + 1}
  BY <1>1, <1>6
<1> QED BY <1>1, <1>2, <1>3, <1>5, <1>7, <1>8

\* The sale is committed, and its outcome is the ticket or, when the
\* acknowledgement is lost, an error.
LEMMA SaleStep ==
  ASSUME IInv, NEW t \in Tasks, CommitSale(t) \/ LoseSaleAck(t) PROVE IInv'
<1> USE DEF IInv
<1>1. /\ pc[t] = "inserted" /\ Sell(t) /\ EndTransaction(t)
      /\ op' = op \/ op' = [op EXCEPT ![t] = NoOp]
  BY DEF CommitSale, LoseSaleAck, Goto, Sell, Finish
<1>2. PICK step \in {"idle", "committed"} :
          /\ pc' = [pc EXCEPT ![t] = step]
          /\ step = "idle" => op'[t] = NoOp
  BY DEF CommitSale, LoseSaleAck, Goto, Finish, TypeOK
<1>3. budget' \in [buys : [Reqs -> Nat], resets : Nat, polls : Nat, faults : Nat]
  BY DEF CommitSale, LoseSaleAck, Fault, TypeOK
<1>4. PICK a : /\ answers' = answers \cup {a}
               /\ a \in [req : Reqs, user : Users, ticket : Nat, remaining : Int,
                     status : {"success", "already_processed", "sold_out", "error"}]
               /\ a.req = op[t].req
               /\ \/ a.status = "success" /\ a.ticket = sold_count + 1
                  \/ a.status = "error"
  <2>1. op[t] \in Buy /\ count[t] = sold_count /\ sold_count \in Nat
    BY <1>1 DEF OpKnown, OpFits, NoStaleRead, InBuy, TypeOK
  <2>2. CASE CommitSale(t)
    <3> DEFINE a == [req |-> op[t].req, user |-> op[t].user, status |-> "success",
                     ticket |-> count[t] + 1, remaining |-> Total - (count[t] + 1)]
    <3>1. answers' = answers \cup {a}
      BY <2>2 DEF CommitSale, Outcome
    <3>2. a \in [req : Reqs, user : Users, ticket : Nat, remaining : Int,
                  status : {"success", "already_processed", "sold_out", "error"}]
      BY <2>1 DEF Buy
    <3>3. a.req = op[t].req /\ a.status = "success" /\ a.ticket = sold_count + 1
      BY <2>1
    <3> HIDE DEF a
    <3> QED BY <3>1, <3>2, <3>3
  <2>3. CASE LoseSaleAck(t)
    <3> DEFINE a == [req |-> op[t].req, user |-> op[t].user, status |-> "error",
                     ticket |-> 0, remaining |-> 0]
    <3>1. answers' = answers \cup {a}
      BY <2>3 DEF LoseSaleAck, Outcome
    <3>2. a \in [req : Reqs, user : Users, ticket : Nat, remaining : Int,
                  status : {"success", "already_processed", "sold_out", "error"}]
      BY <2>1 DEF Buy
    <3> QED BY <2>1, <3>1, <3>2
  <2> QED BY <2>2, <2>3
<1>5. /\ sold_count' = sold_count + 1 /\ sold_count' \in Nat
      /\ sold_tickets' \subseteq Row /\ LedgerMatchesCount'
      /\ \A r : r = op[t].req => TicketsOf(r)' = {sold_count + 1}
      /\ \A x \in answers :
            /\ x.status \in {"success", "already_processed"} =>
                   TicketsOf(x.req)' = {x.ticket}
            /\ x.status # "sold_out"
  BY <1>1, SellLedger
<1>6. OutcomesOnRecord'
  <2>1. ASSUME NEW x \in answers'
        PROVE  /\ x.status \in {"success", "already_processed"} =>
                      TicketsOf(x.req)' = {x.ticket}
               /\ x.status # "sold_out"
    BY <1>4, <1>5
  <2>2. OutcomesOnRecord' =
            \A x \in answers' :
               /\ x.status \in {"success", "already_processed"} =>
                      TicketsOf(x.req)' = {x.ticket}
               /\ x.status = "sold_out" => TicketsOf(x.req)' = {} /\ sold_count' = Total
    BY DEF OutcomesOnRecord
  <2> QED BY <2>1, <2>2
<1>7. /\ TypeOK' /\ Locked' /\ pc'[t] = step
      /\ \A s \in Tasks : s # t => pc'[s] = pc[s] /\ op'[s] = op[s]
  <2>1. answers' \subseteq [req : Reqs, user : Users, ticket : Nat, remaining : Int,
                  status : {"success", "already_processed", "sold_out", "error"}]
    BY <1>4 DEF TypeOK
  <2> QED BY <1>1, <1>2, <1>3, <1>5, <2>1, EndFrame DEF TypeOK
<1>8. \A s \in Tasks : pc'[s] \notin InTransaction
  BY <1>1, <1>7, OneTransaction DEF Locked, InTransaction, InBuy
<1>9. NoStaleRead'
  BY <1>8 DEF NoStaleRead, InTransaction, InBuy
<1>10. OpKnown'
  BY <1>2, <1>7 DEF OpKnown, OpFits
<1> QED BY <1>5, <1>6, <1>7, <1>9, <1>10

LEMMA ResetStep ==
  ASSUME IInv, NEW t \in Tasks, CommitReset(t) \/ LoseResetAck(t) PROVE IInv'
<1> USE DEF IInv
<1>1. /\ pc[t] = "deleted" /\ EndTransaction(t)
      /\ sold_count' = 0 /\ sold_tickets' = {} /\ answers' = {}
      /\ op' = op \/ op' = [op EXCEPT ![t] = NoOp]
  BY DEF CommitReset, LoseResetAck, Goto, Wipe, Finish
<1>2. PICK step \in {"idle", "committed"} :
          /\ pc' = [pc EXCEPT ![t] = step]
          /\ step = "idle" => op'[t] = NoOp
  BY DEF CommitReset, LoseResetAck, Goto, Finish, TypeOK
<1>3. budget' \in [buys : [Reqs -> Nat], resets : Nat, polls : Nat, faults : Nat]
  BY DEF CommitReset, LoseResetAck, Fault, TypeOK
<1>4. /\ TypeOK' /\ Locked' /\ pc'[t] = step
      /\ \A s \in Tasks : s # t => pc'[s] = pc[s] /\ op'[s] = op[s]
  BY <1>1, <1>2, <1>3, EndFrame DEF TypeOK
<1>5. \A s \in Tasks : pc'[s] \notin InTransaction
  BY <1>1, <1>4, OneTransaction DEF Locked, InTransaction, InBuy
<1>6. NoStaleRead' /\ OpKnown'
  BY <1>2, <1>4, <1>5 DEF OpKnown, OpFits, NoStaleRead, InTransaction, InBuy
<1>7. LedgerMatchesCount' /\ OutcomesOnRecord'
  BY <1>1 DEF LedgerMatchesCount, OutcomesOnRecord
<1> QED BY <1>4, <1>6, <1>7

LEMMA InsertRowStep ==
  ASSUME IInv, NEW t \in Tasks, InsertRow(t) PROVE IInv'
<1> USE DEF IInv
<1>1. pc[t] = "updated" /\ budget' = budget
  BY DEF InsertRow
<1>2. CASE UniqueViolation(t)
  BY <1>1, <1>2, RollbackStep DEF InsertRow, TypeOK
<1>3. CASE ~UniqueViolation(t)
  <2>1. /\ pc' = [pc EXCEPT ![t] = "inserted"]
        /\ UNCHANGED <<sold_count, sold_tickets, row_lock, op, count, existing, rows,
                       answers, budget>>
    BY <1>1, <1>3 DEF InsertRow, Goto, tables, locals
  <2>2. TypeOK'
    BY <2>1 DEF TypeOK
  <2>3. row_lock = t
    BY <1>1 DEF Locked, InTransaction, InBuy
  <2>4. /\ op'[t] \in Buy /\ count'[t] = sold_count
        /\ TicketsOf(op'[t].req) = {} /\ sold_count < Total
    BY <1>1, <2>1 DEF OpKnown, OpFits, NoStaleRead, InBuy
  <2>5. OpFits("inserted", op'[t])
    BY <2>4 DEF OpFits
  <2> QED BY <2>1, <2>2, <2>3, <2>4, <2>5, TransactionStep DEF InTransaction, InBuy
<1> QED BY <1>2, <1>3

LEMMA LoseConnectionStep ==
  ASSUME IInv, NEW t \in Tasks, LoseConnection(t) PROVE IInv'
<1>1. Rollback(t)
  BY DEF LoseConnection
<1>2. budget' \in [buys : [Reqs -> Nat], resets : Nat, polls : Nat, faults : Nat]
  BY DEF LoseConnection, Fault, IInv, TypeOK
<1> QED BY <1>1, <1>2, RollbackStep

-----------------------------------------------------------------------------

LEMMA StutterStep == ASSUME IInv, UNCHANGED vars PROVE IInv'
<1>1. UNCHANGED <<sold_count, sold_tickets, row_lock, pc, op, count, existing, rows,
                  answers, budget>>
  BY DEF vars, tables, locals
<1>2. TypeOK' /\ OpKnown' /\ Locked'
  BY <1>1 DEF IInv, TypeOK, OpKnown, Locked
<1>3. NoStaleRead'
  BY <1>1 DEF IInv, NoStaleRead, TicketsOf
<1>4. LedgerMatchesCount' /\ OutcomesOnRecord'
  BY <1>1 DEF IInv, LedgerMatchesCount, OutcomesOnRecord, TicketsOf
<1> QED BY <1>2, <1>3, <1>4 DEF IInv

LEMMA NextIInv == IInv /\ [Next]_vars => IInv'
<1> SUFFICES ASSUME IInv, [Next]_vars PROVE IInv'
  OBVIOUS
<1>1. ASSUME NEW t \in Tasks, Call(t) PROVE IInv'
  BY <1>1, CallStep
<1>2. ASSUME NEW t \in Tasks, Step(t) PROVE IInv'
  BY <1>2, AsideStep, SelectForUpdateStep, CheckExistingStep, AnswerReplayStep,
     AnswerSoldOutStep, UpdateCountStep, InsertRowStep, SaleStep, ResetStatementStep,
     ResetStep DEF Step
<1>3. ASSUME NEW t \in Tasks, Lose(t) PROVE IInv'
  BY <1>3, LoseConnectionStep, SaleStep, ResetStep DEF Lose
<1>4. CASE UNCHANGED vars \/ Finished
  BY <1>4, StutterStep DEF Finished
<1> QED BY <1>1, <1>2, <1>3, <1>4 DEF Next

\* The inductive invariant holds in every reachable state; the theorems below are
\* its parts.
THEOREM InvariantHolds == Spec => []IInv
  BY InitIInv, NextIInv, PTL DEF Spec

\* Every reachable state is well typed.
THEOREM TypeCorrect == Spec => []TypeOK
  BY InvariantHolds, PTL DEF IInv

\* Whatever interleavings, resets and lost connections, the committed tables of
\* db.py hold the tickets 1 .. sold_count, each sold once, to different req_ids.
THEOREM TablesConsistent == Spec => []LedgerMatchesCount
  BY InvariantHolds, PTL DEF IInv

\* No outcome of atomic_buy is contradicted by the tables before a reset.
THEOREM OutcomesHold == Spec => []OutcomesOnRecord
  BY InvariantHolds, PTL DEF IInv

\* The row lock makes the UniqueViolationError branch of atomic_buy unreachable,
\* as its comment says.
THEOREM BackstopNeverNeeded == Spec => []UniqueViolationUnreachable
<1>1. IInv => UniqueViolationUnreachable
  <2> SUFFICES ASSUME IInv, NEW t \in Tasks, pc[t] = "updated", UniqueViolation(t)
               PROVE  FALSE
    BY DEF UniqueViolationUnreachable
  <2>1. TicketsOf(op[t].req) = {} /\ count[t] = sold_count /\ sold_count \in Nat
    BY DEF IInv, NoStaleRead, InBuy, TypeOK
  <2>2. PICK s \in sold_tickets : s.req = op[t].req \/ s.ticket = count[t] + 1
    BY DEF UniqueViolation
  <2>3. s.req # op[t].req
    BY <2>1 DEF TicketsOf
  <2>4. s.ticket \in 1 .. sold_count
    BY DEF IInv, LedgerMatchesCount
  <2> QED BY <2>1, <2>2, <2>3, <2>4
<1> QED BY <1>1, InvariantHolds, PTL

-----------------------------------------------------------------------------
(* get_status                                                              *)

\* Until the first reset the count only grows: one that get_status has read is
\* behind the tables, and so are the rows it reads after it.
CountFirst ==
    budget.resets = MaxResets =>
        \A t \in Tasks :
            /\ op[t] # ResetOp
            /\ pc[t] = "counted" => count[t] <= sold_count
            /\ pc[t] = "reported" => 1 .. count[t] \subseteq {s.ticket : s \in rows[t]}

ResetsBounded == budget.resets \in 0 .. MaxResets

StatusIInv == IInv /\ ResetsBounded /\ CountFirst

\* A step of task t that sells at most: it begins no reset, and is not one of
\* get_status.
SellsAtMost(t) ==
    /\ pc' = [pc EXCEPT ![t] = pc'[t]] /\ pc'[t] \notin {"counted", "reported"}
    /\ op' = [op EXCEPT ![t] = op'[t]]
    /\ op'[t] # ResetOp \/ op[t] = ResetOp
    /\ \A s \in Tasks : s # t => count'[s] = count[s] /\ rows'[s] = rows[s]
    /\ sold_count' \in Nat /\ sold_count' >= sold_count
    /\ budget'.resets = budget.resets

\* Such a step leaves the responses of get_status as they are.
LEMMA BesideStatus ==
  ASSUME StatusIInv, NEW t \in Tasks, SellsAtMost(t)
  PROVE  ResetsBounded' /\ CountFirst'
<1>1. /\ \A s \in Tasks : s # t => pc'[s] = pc[s] /\ op'[s] = op[s]
      /\ sold_count \in Nat /\ \A s \in Tasks : count[s] \in Nat
  BY DEF StatusIInv, IInv, TypeOK, SellsAtMost
<1>2. ResetsBounded'
  BY DEF StatusIInv, ResetsBounded, SellsAtMost
<1>3. CountFirst'
  BY <1>1 DEF StatusIInv, CountFirst, SellsAtMost
<1> QED BY <1>2, <1>3

LEMMA CallBesideStatus ==
  ASSUME StatusIInv, NEW t \in Tasks, Call(t) PROVE ResetsBounded' /\ CountFirst'
<1>1. /\ op \in [Tasks -> Buy \cup {NoOp, ResetOp, StatusOp}]
      /\ pc = [s \in Tasks |-> pc[s]]
      /\ budget \in [buys : [Reqs -> Nat], resets : Nat, polls : Nat, faults : Nat]
      /\ sold_count \in Nat
  BY DEF StatusIInv, IInv, TypeOK
<1>2. ASSUME NEW call, Begin(t, call)
      PROVE  /\ pc' = [pc EXCEPT ![t] = "acquiring"] /\ op' = [op EXCEPT ![t] = call]
             /\ op'[t] = call
             /\ call # ResetOp /\ budget'.resets = budget.resets => SellsAtMost(t)
  BY <1>1, <1>2 DEF Begin, Goto, tables, locals, SellsAtMost
<1>3. ASSUME NEW r \in Reqs, NEW u \in Users, CallBuy(t, r, u)
      PROVE  ResetsBounded' /\ CountFirst'
  <2> DEFINE call == [req |-> r, user |-> u]
  <2>1. Begin(t, call) /\ budget'.resets = budget.resets
    BY <1>1, <1>3 DEF CallBuy
  <2>2. call # ResetOp
    BY DEF Buy
  <2> HIDE DEF call
  <2> QED BY <1>1, <1>2, <2>1, <2>2, BesideStatus
<1>4. CASE CallStatus(t)
  <2>1. Begin(t, StatusOp) /\ budget'.resets = budget.resets
    BY <1>1, <1>4 DEF CallStatus
  <2> QED BY <1>1, <1>2, <2>1, BesideStatus
<1>5. CASE CallReset(t)
  <2>1. budget.resets > 0 /\ budget'.resets = budget.resets - 1
    BY <1>1, <1>5 DEF CallReset
  <2> QED BY <2>1, BoundsAssumption DEF StatusIInv, ResetsBounded, CountFirst
<1> QED BY <1>3, <1>4, <1>5 DEF Call

\* What the steps below need of the types.
LEMMA StatusTypes ==
  ASSUME StatusIInv
  PROVE  /\ pc = [s \in Tasks |-> pc[s]] /\ op = [s \in Tasks |-> op[s]]
         /\ count = [s \in Tasks |-> count[s]] /\ rows = [s \in Tasks |-> rows[s]]
         /\ \A f : [budget EXCEPT !.faults = f].resets = budget.resets
         /\ sold_count \in Nat
  BY DEF StatusIInv, IInv, TypeOK

LEMMA StepBesideStatus ==
  ASSUME StatusIInv, NEW t \in Tasks, Step(t) PROVE ResetsBounded' /\ CountFirst'
<1>1. CASE Acquire(t) \/ UpdateCount(t) \/ ResetCount(t) \/ DeleteTickets(t)
  <2>1. PICK step \in {"connected", "updated", "zeroed", "deleted"} :
            pc' = [pc EXCEPT ![t] = step]
    BY <1>1 DEF Acquire, UpdateCount, ResetCount, DeleteTickets, Goto
  <2>2. UNCHANGED <<sold_count, count, rows, op, budget>>
    BY <1>1 DEF Acquire, UpdateCount, ResetCount, DeleteTickets, tables, locals
  <2>3. SellsAtMost(t)
    BY <2>1, <2>2, StatusTypes, OpAssumption
     DEF SellsAtMost, EndTransaction, Finish, Fault
  <2> QED BY <2>1, <2>3, BesideStatus
<1>2. CASE SelectForUpdate(t) \/ CheckExisting(t)
  <2>1. PICK step \in {"locked", "checked"} : pc' = [pc EXCEPT ![t] = step]
    BY <1>2 DEF SelectForUpdate, ReadCount, CheckExisting, Goto
  <2>2. /\ UNCHANGED <<sold_count, rows, op, budget>>
        /\ \A s \in Tasks : s # t => count'[s] = count[s]
    BY <1>2 DEF SelectForUpdate, ReadCount, CheckExisting, tables, StatusIInv, IInv, TypeOK
  <2>3. SellsAtMost(t)
    BY <2>1, <2>2, StatusTypes, OpAssumption
     DEF SellsAtMost, EndTransaction, Finish, Fault
  <2> QED BY <2>1, <2>3, BesideStatus
<1>3. CASE AnswerReplay(t) \/ AnswerSoldOut(t) \/ ReturnStatus(t)
  <2>1. /\ pc' = [pc EXCEPT ![t] = "idle"] /\ EndTransaction(t) /\ Finish(t)
        /\ UNCHANGED <<sold_count, budget>>
    BY <1>3 DEF AnswerReplay, AnswerSoldOut, ReturnStatus, Goto, tables
  <2>2. SellsAtMost(t)
    BY <2>1, StatusTypes, OpAssumption
     DEF SellsAtMost, EndTransaction, Finish, Fault
  <2> QED BY <2>1, <2>2, BesideStatus
<1>4. CASE Return(t)
  <2>1. /\ pc' = [pc EXCEPT ![t] = "idle"] /\ Finish(t)
        /\ UNCHANGED <<sold_count, count, rows, budget>>
    BY <1>4 DEF Return, Goto, tables, locals
  <2>2. SellsAtMost(t)
    BY <2>1, StatusTypes, OpAssumption
     DEF SellsAtMost, EndTransaction, Finish, Fault
  <2> QED BY <2>1, <2>2, BesideStatus
<1>5. CASE InsertRow(t)
  <2>1. CASE UniqueViolation(t)
    <3>1. /\ pc' = [pc EXCEPT ![t] = "idle"] /\ EndTransaction(t) /\ Finish(t)
          /\ UNCHANGED <<sold_count, budget>>
      BY <1>5, <2>1 DEF InsertRow, Rollback, tables
    <3>2. SellsAtMost(t)
      BY <3>1, StatusTypes, OpAssumption
     DEF SellsAtMost, EndTransaction, Finish, Fault
    <3> QED BY <3>1, <3>2, BesideStatus
  <2>2. CASE ~UniqueViolation(t)
    <3>1. /\ pc' = [pc EXCEPT ![t] = "inserted"]
          /\ UNCHANGED <<sold_count, count, rows, op, budget>>
      BY <1>5, <2>2 DEF InsertRow, Goto, tables, locals
    <3>2. SellsAtMost(t)
      BY <3>1, StatusTypes, OpAssumption
     DEF SellsAtMost, EndTransaction, Finish, Fault
    <3> QED BY <3>1, <3>2, BesideStatus
  <2> QED BY <2>1, <2>2
<1>6. CASE CommitSale(t)
  <2>1. /\ pc[t] = "inserted" /\ pc' = [pc EXCEPT ![t] = "committed"] /\ EndTransaction(t)
        /\ UNCHANGED <<op, budget>> /\ sold_count' = count[t] + 1
    BY <1>6 DEF CommitSale, Goto, Sell
  <2>2. count[t] = sold_count
    BY <2>1 DEF StatusIInv, IInv, NoStaleRead, InBuy
  <2>3. SellsAtMost(t)
    BY <2>1, <2>2, StatusTypes, OpAssumption
     DEF SellsAtMost, EndTransaction, Finish, Fault
  <2> QED BY <2>1, <2>3, BesideStatus
<1>7. CASE CommitReset(t)
  <2>1. pc[t] = "deleted" /\ UNCHANGED budget
    BY <1>7 DEF CommitReset, Goto
  <2>2. op[t] = ResetOp
    BY <2>1 DEF StatusIInv, IInv, OpKnown, OpFits
  <2> QED BY <2>1, <2>2 DEF StatusIInv, ResetsBounded, CountFirst
<1>8. CASE StatusCount(t)
  <2>1. /\ pc' = [pc EXCEPT ![t] = "counted"] /\ count' = [count EXCEPT ![t] = sold_count]
        /\ UNCHANGED <<sold_count, rows, op, budget>>
    BY <1>8 DEF StatusCount, Goto, tables
  <2> QED BY <2>1 DEF StatusIInv, IInv, TypeOK, ResetsBounded, CountFirst
<1>9. CASE StatusRows(t)
  <2>1. /\ pc[t] = "counted" /\ pc' = [pc EXCEPT ![t] = "reported"]
        /\ rows' = [rows EXCEPT ![t] = sold_tickets]
        /\ UNCHANGED <<sold_count, count, op, budget>>
    BY <1>9 DEF StatusRows, Goto, tables
  <2>2. /\ pc'[t] = "reported" /\ rows'[t] = sold_tickets
        /\ \A s \in Tasks : s # t => pc'[s] = pc[s] /\ rows'[s] = rows[s]
        /\ count[t] \in Nat /\ sold_count \in Nat
    BY <2>1 DEF StatusIInv, IInv, TypeOK
  <2>3. {s.ticket : s \in sold_tickets} = 1 .. sold_count
    BY DEF StatusIInv, IInv, LedgerMatchesCount
  <2>4. budget.resets = MaxResets => 1 .. count[t] \subseteq {s.ticket : s \in rows'[t]}
    BY <2>1, <2>2, <2>3 DEF StatusIInv, CountFirst
  <2> QED BY <2>1, <2>2, <2>4 DEF StatusIInv, ResetsBounded, CountFirst
<1> QED BY <1>1, <1>2, <1>3, <1>4, <1>5, <1>6, <1>7, <1>8, <1>9 DEF Step

LEMMA LoseBesideStatus ==
  ASSUME StatusIInv, NEW t \in Tasks, Lose(t) PROVE ResetsBounded' /\ CountFirst'
<1>1. CASE LoseConnection(t)
  <2>1. /\ pc' = [pc EXCEPT ![t] = "idle"] /\ EndTransaction(t) /\ Finish(t) /\ Fault
        /\ UNCHANGED sold_count
    BY <1>1 DEF LoseConnection, Rollback, tables
  <2>2. SellsAtMost(t)
    BY <2>1, StatusTypes, OpAssumption
     DEF SellsAtMost, EndTransaction, Finish, Fault
  <2> QED BY <2>1, <2>2, BesideStatus
<1>2. CASE LoseSaleAck(t)
  <2>1. /\ pc[t] = "inserted" /\ pc' = [pc EXCEPT ![t] = "idle"] /\ EndTransaction(t)
        /\ Finish(t) /\ Fault /\ sold_count' = count[t] + 1
    BY <1>2 DEF LoseSaleAck, Goto, Sell
  <2>2. count[t] = sold_count
    BY <2>1 DEF StatusIInv, IInv, NoStaleRead, InBuy
  <2>3. SellsAtMost(t)
    BY <2>1, <2>2, StatusTypes, OpAssumption
     DEF SellsAtMost, EndTransaction, Finish, Fault
  <2> QED BY <2>1, <2>3, BesideStatus
<1>3. CASE LoseResetAck(t)
  <2>1. pc[t] = "deleted" /\ Fault
    BY <1>3 DEF LoseResetAck, Goto
  <2>2. op[t] = ResetOp /\ budget'.resets = budget.resets
    BY <2>1, StatusTypes DEF StatusIInv, IInv, OpKnown, OpFits, Fault
  <2> QED BY <2>1, <2>2 DEF StatusIInv, ResetsBounded, CountFirst
<1> QED BY <1>1, <1>2, <1>3 DEF Lose

LEMMA NextStatusIInv == StatusIInv /\ [Next]_vars => StatusIInv'
<1> SUFFICES ASSUME StatusIInv, [Next]_vars PROVE StatusIInv'
  OBVIOUS
<1>1. IInv'
  BY NextIInv DEF StatusIInv
<1>2. ASSUME NEW t \in Tasks, Call(t) \/ Step(t) \/ Lose(t) PROVE ResetsBounded' /\ CountFirst'
  BY <1>2, CallBesideStatus, StepBesideStatus, LoseBesideStatus
<1>3. CASE UNCHANGED vars \/ Finished
  <2>1. UNCHANGED <<sold_count, pc, op, count, rows, budget>>
    BY <1>3 DEF vars, tables, locals, Finished
  <2>2. ResetsBounded'
    BY <2>1 DEF StatusIInv, ResetsBounded
  <2>3. CountFirst'
    BY <2>1 DEF StatusIInv, CountFirst
  <2> QED BY <1>1, <2>2, <2>3 DEF StatusIInv
<1> QED BY <1>1, <1>2, <1>3 DEF Next, StatusIInv

\* A response of get_status names every ticket it counts: it reads the count
\* before the rows, and until a reset no row is ever deleted.
THEOREM StatusIsComplete == Spec => []StatusNeverMissesASale
<1>1. Init => StatusIInv
  BY InitIInv, BoundsAssumption DEF Init, StatusIInv, ResetsBounded, CountFirst
<1>2. StatusIInv => StatusNeverMissesASale
  BY DEF StatusIInv, CountFirst, StatusNeverMissesASale
<1> QED BY <1>1, <1>2, NextStatusIInv, PTL DEF Spec

-----------------------------------------------------------------------------
(* The transactions implement the ticket service                           *)

Pending == [t \in Tasks |-> IF InProgress(t) THEN op[t] ELSE NoOp]

\* Task t ends a buy: it is no longer pending, and nobody else's buy is touched.
LEMMA BuyEnds ==
  ASSUME IInv, NEW t \in Tasks, op[t] \in Buy, pc[t] # "committed",
         NEW step \in {"idle", "committed"}, pc' = [pc EXCEPT ![t] = step],
         op' = [op EXCEPT ![t] = NoOp] \/ (step = "committed" /\ op' = op)
  PROVE  /\ Pending[t] = op[t] /\ Pending[t] # NoOp
         /\ Pending' = [Pending EXCEPT ![t] = NoOp]
<1>1. Pending[t] = op[t] /\ op[t] # NoOp
  BY DEF Pending, InProgress
<1>2. ASSUME NEW s \in Tasks
      PROVE  (IF InProgress(s)' THEN op'[s] ELSE NoOp) =
             IF s = t THEN NoOp ELSE IF InProgress(s) THEN op[s] ELSE NoOp
  BY DEF IInv, TypeOK, InProgress
<1> QED BY <1>1, <1>2 DEF Pending

\* Task t takes a step of which the service sees nothing.
LEMMA PendingKept ==
  ASSUME IInv, NEW t \in Tasks, NEW step, pc' = [pc EXCEPT ![t] = step],
         \/ op' = op /\ ((pc[t] # "committed" /\ step # "committed") \/ op[t] \notin Buy)
         \/ op' = [op EXCEPT ![t] = NoOp] /\ (pc[t] = "committed" \/ op[t] \notin Buy)
  PROVE  Pending' = Pending
<1>1. ASSUME NEW s \in Tasks
      PROVE  (IF InProgress(s)' THEN op'[s] ELSE NoOp) =
             IF InProgress(s) THEN op[s] ELSE NoOp
  BY DEF IInv, TypeOK, InProgress
<1> QED BY <1>1 DEF Pending

LEMMA CallRefines ==
  ASSUME IInv, NEW t \in Tasks, Call(t)
  PROVE  Service!Next \/ UNCHANGED Service!vars
<1>1. /\ pc[t] = "idle" /\ pc' = [pc EXCEPT ![t] = "acquiring"]
      /\ UNCHANGED <<sold_count, sold_tickets, answers>>
  BY DEF Call, CallBuy, CallReset, CallStatus, Begin, Goto, tables
<1>2. op[t] = NoOp
  BY <1>1 DEF IInv, OpKnown, OpFits
<1>3. ASSUME NEW r \in Reqs, NEW u \in Users, CallBuy(t, r, u)
      PROVE  Service!Next
  <2> DEFINE b == [req |-> r, user |-> u]
  <2>1. op' = [op EXCEPT ![t] = b] /\ b \in Buy
    BY <1>3 DEF CallBuy, Begin, Buy
  <2>2. Pending[t] = NoOp
    BY <1>2 DEF Pending, InProgress
  <2>3. ASSUME NEW s \in Tasks
        PROVE  (IF InProgress(s)' THEN op'[s] ELSE NoOp) =
               IF s = t THEN b ELSE IF InProgress(s) THEN op[s] ELSE NoOp
    <3> HIDE DEF b
    <3> QED BY <1>1, <2>1 DEF IInv, TypeOK, InProgress
  <2>4. Pending' = [Pending EXCEPT ![t] = b]
    <3> HIDE DEF b
    <3> QED BY <2>3 DEF Pending
  <2>5. Service!Submit(t, b)
    BY <1>1, <2>2, <2>4 DEF Service!Submit, Pending
  <2> QED BY <2>1, <2>5 DEF Service!Next, Service!Buy, Buy
<1>4. ASSUME CallReset(t) \/ CallStatus(t)
      PROVE  UNCHANGED Service!vars
  <2>1. op' = [op EXCEPT ![t] = ResetOp] \/ op' = [op EXCEPT ![t] = StatusOp]
    BY <1>4 DEF CallReset, CallStatus, Begin
  <2>2. ASSUME NEW s \in Tasks
        PROVE  (IF InProgress(s)' THEN op'[s] ELSE NoOp) =
               IF InProgress(s) THEN op[s] ELSE NoOp
    BY <1>1, <1>2, <2>1 DEF IInv, TypeOK, InProgress
  <2> QED BY <1>1, <2>2 DEF Service!vars
<1> QED BY <1>3, <1>4 DEF Call

\* The steps that end neither a buy nor a reset.
LEMMA QuietRefines ==
  ASSUME IInv, NEW t \in Tasks,
         \/ Acquire(t) \/ SelectForUpdate(t) \/ CheckExisting(t) \/ UpdateCount(t)
         \/ (InsertRow(t) /\ ~UniqueViolation(t)) \/ ResetCount(t) \/ DeleteTickets(t)
         \/ Return(t) \/ StatusCount(t) \/ StatusRows(t) \/ ReturnStatus(t)
  PROVE  UNCHANGED Service!vars
<1> USE DEF Goto, Finish, tables, locals
<1>1. UNCHANGED <<sold_count, sold_tickets, answers>>
  BY DEF Acquire, SelectForUpdate, ReadCount, CheckExisting, UpdateCount, InsertRow,
     ResetCount, DeleteTickets, Return, StatusCount, StatusRows, ReturnStatus
<1>2. Pending' = Pending
  <2>1. CASE \/ Acquire(t) \/ SelectForUpdate(t) \/ CheckExisting(t) \/ UpdateCount(t)
             \/ (InsertRow(t) /\ ~UniqueViolation(t)) \/ ResetCount(t) \/ DeleteTickets(t)
             \/ StatusCount(t) \/ StatusRows(t)
    <3>1. PICK step : /\ pc' = [pc EXCEPT ![t] = step] /\ step # "committed"
                      /\ pc[t] # "committed" /\ op' = op
      BY <2>1 DEF Acquire, SelectForUpdate, ReadCount, CheckExisting, UpdateCount,
         InsertRow, ResetCount, DeleteTickets, StatusCount, StatusRows
    <3> QED BY <3>1, PendingKept
  <2>2. CASE Return(t)
    BY <2>2, PendingKept DEF Return
  <2>3. CASE ReturnStatus(t)
    <3>1. op[t] \notin Buy
      BY <2>3 DEF ReturnStatus, IInv, OpKnown, OpFits
    <3> QED BY <2>3, <3>1, PendingKept DEF ReturnStatus
  <2> QED BY <2>1, <2>2, <2>3
<1> QED BY <1>1, <1>2 DEF Service!vars, Pending

\* What Reply of the service is here.
LEMMA ReplyRefines ==
  ASSUME IInv, NEW t \in Tasks, op[t] \in Buy, pc[t] # "committed",
         NEW step \in {"idle", "committed"}, pc' = [pc EXCEPT ![t] = step],
         op' = [op EXCEPT ![t] = NoOp] \/ (step = "committed" /\ op' = op),
         NEW status, NEW ticket, NEW remaining, Outcome(t, status, ticket, remaining)
  PROVE  /\ Service!Reply(t, status, ticket, remaining)
         /\ Pending[t] = op[t] /\ Pending[t] # NoOp
<1>1. /\ Pending[t] = op[t] /\ Pending[t] # NoOp
      /\ Pending' = [Pending EXCEPT ![t] = NoOp]
  BY BuyEnds
<1>2. answers' = answers \cup {Service!MakeAnswer(Pending[t], status, ticket, remaining)}
  BY <1>1 DEF Outcome, Service!MakeAnswer
<1> QED BY <1>1, <1>2 DEF Service!Reply, Pending

LEMMA ReplayRefines ==
  ASSUME IInv, NEW t \in Tasks, AnswerReplay(t) PROVE Service!Replay(t)
<1>1. /\ pc[t] = "checked" /\ pc' = [pc EXCEPT ![t] = "idle"] /\ existing[t] # 0
      /\ Outcome(t, "already_processed", existing[t], Total - count[t])
      /\ op' = [op EXCEPT ![t] = NoOp]
      /\ UNCHANGED <<sold_count, sold_tickets>>
  BY DEF AnswerReplay, Goto, Finish, tables
<1>2. op[t] \in Buy /\ count[t] = sold_count
  BY <1>1 DEF IInv, OpKnown, OpFits, NoStaleRead, InBuy
<1>3. /\ Pending[t] = op[t] /\ Pending[t] # NoOp
      /\ Pending' = [Pending EXCEPT ![t] = NoOp]
  BY <1>1, <1>2, BuyEnds
<1>4. TicketsOf(op[t].req) = IF existing[t] = 0 THEN {} ELSE {existing[t]}
  BY <1>1 DEF IInv, NoStaleRead
<1>5. PICK s \in sold_tickets : s.req = op[t].req /\ s.ticket = existing[t]
  BY <1>1, <1>4 DEF TicketsOf
<1>6. Service!Reply(t, "already_processed", s.ticket, Total - sold_count)
  BY <1>1, <1>2, <1>3, <1>5 DEF Outcome, Service!Reply, Service!MakeAnswer, Pending
<1> QED BY <1>1, <1>3, <1>5, <1>6 DEF Service!Replay, Pending

LEMMA SoldOutRefines ==
  ASSUME IInv, NEW t \in Tasks, AnswerSoldOut(t) PROVE Service!SoldOut(t)
<1>1. /\ pc[t] = "checked" /\ pc' = [pc EXCEPT ![t] = "idle"]
      /\ existing[t] = 0 /\ count[t] >= Total
      /\ Outcome(t, "sold_out", 0, 0)
      /\ op' = [op EXCEPT ![t] = NoOp]
      /\ UNCHANGED <<sold_count, sold_tickets>>
  BY DEF AnswerSoldOut, Goto, Finish, tables
<1>2. op[t] \in Buy /\ count[t] = sold_count
  BY <1>1 DEF IInv, OpKnown, OpFits, NoStaleRead, InBuy
<1>3. /\ Service!Reply(t, "sold_out", 0, 0)
      /\ Pending[t] = op[t] /\ Pending[t] # NoOp
  BY <1>1, <1>2, ReplyRefines
<1>4. TicketsOf(op[t].req) = IF existing[t] = 0 THEN {} ELSE {existing[t]}
  BY <1>1 DEF IInv, NoStaleRead
<1>5. \A s \in sold_tickets : s.req # op[t].req
  BY <1>1, <1>4 DEF TicketsOf
<1> QED BY <1>1, <1>2, <1>3, <1>5 DEF Service!SoldOut, Service!NoTicket, Pending

\* A committed sale is recorded by the service.
LEMMA SellRecords ==
  ASSUME IInv, NEW t \in Tasks, pc[t] = "inserted", Sell(t), Pending[t] = op[t]
  PROVE  Service!Record(t) /\ count[t] = sold_count
<1>1. /\ count[t] = sold_count /\ count[t] < Total /\ TicketsOf(op[t].req) = {}
  BY DEF IInv, NoStaleRead, InBuy
<1>2. \A s \in sold_tickets : s.req # op[t].req
  BY <1>1 DEF TicketsOf
<1> QED BY <1>1, <1>2 DEF Sell, Service!Record, Pending

LEMMA SaleRefines ==
  ASSUME IInv, NEW t \in Tasks, CommitSale(t) \/ LoseSaleAck(t)
  PROVE  Service!Sell(t) \/ Service!Fail(t)
<1>1. pc[t] = "inserted" /\ Sell(t) /\ op[t] \in Buy
  BY DEF CommitSale, LoseSaleAck, Goto, IInv, OpKnown, OpFits
<1>2. CASE CommitSale(t)
  <2>1. /\ Outcome(t, "success", count[t] + 1, Total - (count[t] + 1))
        /\ pc' = [pc EXCEPT ![t] = "committed"] /\ op' = op
    BY <1>2 DEF CommitSale, Goto
  <2>2. /\ Pending[t] = op[t] /\ Pending[t] # NoOp
        /\ Pending' = [Pending EXCEPT ![t] = NoOp]
    BY <1>1, <2>1, BuyEnds
  <2>3. Service!Record(t) /\ count[t] = sold_count
    BY <1>1, <2>2, SellRecords
  <2>4. Service!Reply(t, "success", sold_count + 1, Total - (sold_count + 1))
    BY <2>1, <2>2, <2>3 DEF Outcome, Service!Reply, Service!MakeAnswer, Pending
  <2> QED BY <2>2, <2>3, <2>4 DEF Service!Sell, Pending
<1>3. CASE LoseSaleAck(t)
  <2>1. /\ Service!Reply(t, "error", 0, 0)
        /\ Pending[t] = op[t] /\ Pending[t] # NoOp
    BY <1>1, <1>3, ReplyRefines DEF LoseSaleAck, Goto, Finish
  <2> QED BY <1>1, <2>1, SellRecords DEF Service!Fail, Service!NoTicket, Pending
<1> QED BY <1>2, <1>3

LEMMA RollbackRefines ==
  ASSUME IInv, NEW t \in Tasks, Rollback(t), pc[t] # "committed"
  PROVE  Service!Fail(t) \/ UNCHANGED Service!vars
<1>1. /\ pc' = [pc EXCEPT ![t] = "idle"] /\ op' = [op EXCEPT ![t] = NoOp]
      /\ IF op[t] \in Buy THEN Outcome(t, "error", 0, 0) ELSE UNCHANGED answers
      /\ UNCHANGED <<sold_count, sold_tickets>>
  BY DEF Rollback, Finish, tables
<1>2. CASE op[t] \in Buy
  <2>1. /\ Service!Reply(t, "error", 0, 0)
        /\ Pending[t] = op[t] /\ Pending[t] # NoOp
    BY <1>1, <1>2, ReplyRefines
  <2> QED BY <1>1, <2>1 DEF Service!Fail, Service!NoTicket, Pending
<1>3. CASE op[t] \notin Buy
  <2>1. Pending' = Pending
    BY <1>1, <1>3, PendingKept
  <2> QED BY <1>1, <1>3, <2>1 DEF Service!vars, Pending
<1> QED BY <1>2, <1>3

LEMMA ResetRefines ==
  ASSUME IInv, NEW t \in Tasks, CommitReset(t) \/ LoseResetAck(t) PROVE Service!Reset
<1>1. /\ sold_count' = 0 /\ sold_tickets' = {} /\ answers' = {}
      /\ pc[t] = "deleted"
      /\ op' = op \/ op' = [op EXCEPT ![t] = NoOp]
  BY DEF CommitReset, LoseResetAck, Goto, Wipe, Finish
<1>2. PICK step : pc' = [pc EXCEPT ![t] = step]
  BY DEF CommitReset, LoseResetAck, Goto
<1>3. op[t] \notin Buy
  BY <1>1 DEF IInv, OpKnown, OpFits
<1>4. Pending' = Pending
  BY <1>1, <1>2, <1>3, PendingKept
<1> QED BY <1>1, <1>4 DEF Service!Reset, Pending

LEMMA NextRefines == IInv /\ [Next]_vars => [Service!Next]_Service!vars
<1> SUFFICES ASSUME IInv, [Next]_vars PROVE Service!Next \/ UNCHANGED Service!vars
  OBVIOUS
<1>1. ASSUME NEW t \in Tasks, Call(t) PROVE Service!Next \/ UNCHANGED Service!vars
  BY <1>1, CallRefines
<1>2. ASSUME NEW t \in Tasks, Step(t) PROVE Service!Next \/ UNCHANGED Service!vars
  <2>1. CASE AnswerReplay(t) \/ AnswerSoldOut(t) \/ CommitSale(t)
    BY <2>1, ReplayRefines, SoldOutRefines, SaleRefines DEF Service!Next
  <2>2. CASE CommitReset(t)
    BY <2>2, ResetRefines DEF Service!Next
  <2>3. CASE InsertRow(t) /\ UniqueViolation(t)
    <3>1. Rollback(t) /\ pc[t] # "committed"
      BY <2>3 DEF InsertRow
    <3> QED BY <3>1, RollbackRefines DEF Service!Next
  <2> QED BY <1>2, <2>1, <2>2, <2>3, QuietRefines DEF Step
<1>3. ASSUME NEW t \in Tasks, Lose(t) PROVE Service!Next \/ UNCHANGED Service!vars
  <2>1. CASE LoseConnection(t)
    <3>1. Rollback(t) /\ pc[t] # "committed"
      BY <2>1 DEF LoseConnection, Connected
    <3> QED BY <3>1, RollbackRefines DEF Service!Next
  <2>2. CASE LoseSaleAck(t)
    BY <2>2, SaleRefines DEF Service!Next
  <2>3. CASE LoseResetAck(t)
    BY <2>3, ResetRefines DEF Service!Next
  <2> QED BY <1>3, <2>1, <2>2, <2>3 DEF Lose
<1>4. CASE UNCHANGED vars \/ Finished
  BY <1>4 DEF vars, tables, Finished, Service!vars, InProgress
<1> QED BY <1>1, <1>2, <1>3, <1>4 DEF Next

LEMMA InitRefines == Init => Service!Init
  BY DEF Init, Service!Init, InProgress

\* Refinement: whatever interleavings, resets and lost connections, atomic_buy
\* and reset_state behave as one atomic, idempotent counter.
THEOREM Refines == Spec => ImplementsService
<1>1. Spec => [][IInv /\ [Next]_vars]_vars
  BY InvariantHolds, PTL DEF Spec
<1> QED BY <1>1, InitRefines, NextRefines, InvariantHolds, PTL
        DEF Spec, ImplementsService, Service!Spec
===============================================================================

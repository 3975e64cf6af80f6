------------------------------- MODULE TicketDb -------------------------------
(***************************************************************************)
(* Stage 3, distributed/app/db.py: atomic_buy(), reset_state() and         *)
(* get_status() as transactions on the tables of init_db.sql.  Every SQL   *)
(* statement is a step, and any other task, in this process or another     *)
(* one, may run between two of them.                                       *)
(*                                                                         *)
(* Postgres is external and modelled by what the code uses of it, at its   *)
(* default level READ COMMITTED: a statement sees what was committed when  *)
(* it starts; SELECT ... FOR UPDATE and UPDATE take the row lock of the    *)
(* one row of tickets_state and keep it to the end of the transaction; an  *)
(* open transaction's writes are seen by nobody else, so they stay in the  *)
(* task's locals until it commits.  A connection may be lost at any        *)
(* statement, which rolls the transaction back, or at COMMIT, when it may  *)
(* have been applied already.  The caller is told of the error when its    *)
(* transaction ends; told earlier, it could only retry, and the retry      *)
(* would wait for the row lock.                                            *)
(*                                                                         *)
(* init_db.sql and every /reset set total_tickets to the same number in    *)
(* the deployment of docker-compose.yml, so it is the constant Total.  The *)
(* call that invalidates the status cache changes no table: it is the step *)
(* Return.                                                                 *)
(***************************************************************************)
EXTENDS Integers, FiniteSets

CONSTANTS
    Tasks,          \* concurrent executions of atomic_buy, reset_state, get_status
    Pools,          \* processes, each with a connection pool of its own
    PoolOf,         \* the process a task runs in
    PoolSize,       \* max_size of create_pool
    Reqs, Users,    \* req_ids and user_ids
    Total,          \* total_tickets
    NoTask,         \* the owner of a free row lock
    NoOp, ResetOp, StatusOp,
    Copies,         \* how often a req_id is bought (retries, redeliveries)
    MaxResets, MaxPolls, MaxFaults  \* bounds on the other calls and on faults

Buy == [req : Reqs, user : Users]

ASSUME TotalAssumption == Total \in Nat
ASSUME PoolAssumption == PoolOf \in [Tasks -> Pools] /\ PoolSize \in Nat \ {0}
ASSUME BoundsAssumption ==
    Copies \in Nat /\ MaxResets \in Nat /\ MaxPolls \in Nat /\ MaxFaults \in Nat
ASSUME NoTaskAssumption == NoTask \notin Tasks
ASSUME OpAssumption ==
    /\ {NoOp, ResetOp, StatusOp} \cap Buy = {}
    /\ NoOp # ResetOp /\ NoOp # StatusOp /\ ResetOp # StatusOp

VARIABLES
    sold_count,     \* tickets_state.sold_count, committed
    sold_tickets,   \* the rows of sold_tickets, committed
    row_lock,       \* the task whose transaction locks the tickets_state row
    pc,             \* the step each task has reached
    op,             \* the call each task executes
    count,          \* local row["sold_count"]
    existing,       \* local existing["ticket_number"], NoTicket for None
    rows,           \* local ticket_rows of get_status
    answers,        \* history: the outcomes of atomic_buy since the last reset
    budget          \* calls and faults still to come

tables == <<sold_count, sold_tickets>>
locals == <<count, existing, rows>>
vars == <<tables, row_lock, pc, op, locals, answers, budget>>

NoTicket == 0
Row == [req : Reqs, user : Users, ticket : Nat]

Init ==
    /\ sold_count = 0
    /\ sold_tickets = {}
    /\ row_lock = NoTask
    /\ pc = [t \in Tasks |-> "idle"]
    /\ op = [t \in Tasks |-> NoOp]
    /\ count = [t \in Tasks |-> 0]
    /\ existing = [t \in Tasks |-> NoTicket]
    /\ rows = [t \in Tasks |-> {}]
    /\ answers = {}
    /\ budget = [buys |-> [r \in Reqs |-> Copies], resets |-> MaxResets,
                 polls |-> MaxPolls, faults |-> MaxFaults]

Goto(t, from, to) ==
    /\ pc[t] = from
    /\ pc' = [pc EXCEPT ![t] = to]

-----------------------------------------------------------------------------
(* Calls arrive and get a connection of their process.                     *)

Begin(t, call) ==
    /\ Goto(t, "idle", "acquiring")
    /\ op' = [op EXCEPT ![t] = call]
    /\ UNCHANGED <<tables, row_lock, locals, answers>>

CallBuy(t, r, u) ==
    /\ Begin(t, [req |-> r, user |-> u])
    /\ budget.buys[r] > 0
    /\ budget' = [budget EXCEPT !.buys[r] = @ - 1]

CallReset(t) ==
    /\ Begin(t, ResetOp)
    /\ budget.resets > 0
    /\ budget' = [budget EXCEPT !.resets = @ - 1]

CallStatus(t) ==
    /\ Begin(t, StatusOp)
    /\ budget.polls > 0
    /\ budget' = [budget EXCEPT !.polls = @ - 1]

\* Inside `async with pool.acquire() as conn`.
Connected(t) == pc[t] \notin {"idle", "acquiring", "committed", "reported"}

Acquire(t) ==
    /\ Goto(t, "acquiring", "connected")
    /\ Cardinality({u \in Tasks : PoolOf[u] = PoolOf[t] /\ Connected(u)}) < PoolSize
    /\ UNCHANGED <<tables, row_lock, op, locals, answers, budget>>

-----------------------------------------------------------------------------
(* atomic_buy                                                              *)

ReadCount(t) ==
    /\ Goto(t, "connected", "locked")
    /\ op[t] # StatusOp
    /\ count' = [count EXCEPT ![t] = sold_count]
    /\ UNCHANGED <<tables, op, existing, rows, answers, budget>>

\* A bug: the SELECT without FOR UPDATE.
SelectWithoutLock(t) == ReadCount(t) /\ UNCHANGED row_lock

\* SELECT ... FOR UPDATE: waits for the lock, then reads what is committed.
\* reset_state issues it as well and drops the result.
SelectForUpdate(t) ==
    /\ ReadCount(t)
    /\ row_lock = NoTask
    /\ row_lock' = t

TicketsOf(r) == {s.ticket : s \in {q \in sold_tickets : q.req = r}}

\* The idempotency check.
CheckExisting(t) ==
    /\ Goto(t, "locked", "checked")
    /\ op[t] \in Buy
    /\ existing' = [existing EXCEPT ![t] =
            IF TicketsOf(op[t].req) = {} THEN NoTicket
            ELSE CHOOSE n \in TicketsOf(op[t].req) : TRUE]
    /\ UNCHANGED <<tables, row_lock, op, count, rows, answers, budget>>

\* The transaction ends: its lock is free again and its locals are gone.
EndTransaction(t) ==
    /\ row_lock' = IF row_lock = t THEN NoTask ELSE row_lock
    /\ count' = [count EXCEPT ![t] = 0]
    /\ existing' = [existing EXCEPT ![t] = NoTicket]
    /\ rows' = [rows EXCEPT ![t] = {}]

Outcome(t, status, ticket, remaining) ==
    answers' = answers \cup
        {[req |-> op[t].req, user |-> op[t].user, status |-> status,
          ticket |-> ticket, remaining |-> remaining]}

Finish(t) == op' = [op EXCEPT ![t] = NoOp]

AnswerReplay(t) ==
    /\ Goto(t, "checked", "idle")
    /\ existing[t] # NoTicket
    /\ Outcome(t, "already_processed", existing[t], Total - count[t])
    /\ EndTransaction(t)
    /\ Finish(t)
    /\ UNCHANGED <<tables, budget>>

\* A bug: the stock is checked before the idempotency key.
AnswerSoldOutFirst(t) ==
    /\ Goto(t, "checked", "idle")
    /\ count[t] >= Total
    /\ Outcome(t, "sold_out", NoTicket, 0)
    /\ EndTransaction(t)
    /\ Finish(t)
    /\ UNCHANGED <<tables, budget>>

\* A bug: a sold-out buy tries again until a ticket is free.
RetrySoldOut(t) ==
    /\ Goto(t, "checked", "connected")
    /\ existing[t] = NoTicket
    /\ count[t] >= Total
    /\ EndTransaction(t)
    /\ UNCHANGED <<tables, op, answers, budget>>

AnswerSoldOut(t) ==
    /\ Goto(t, "checked", "idle")
    /\ existing[t] = NoTicket
    /\ count[t] >= Total
    /\ Outcome(t, "sold_out", NoTicket, 0)
    /\ EndTransaction(t)
    /\ Finish(t)
    /\ UNCHANGED <<tables, budget>>

\* A bug: the statements run outside a transaction, each committed at once.
UpdateCountAutocommit(t) ==
    /\ Goto(t, "checked", "updated")
    /\ existing[t] = NoTicket
    /\ count[t] < Total
    /\ sold_count' = count[t] + 1
    /\ UNCHANGED <<sold_tickets, row_lock, op, locals, answers, budget>>

\* UPDATE takes the row lock too, should the transaction not have it yet.
UpdateCount(t) ==
    /\ Goto(t, "checked", "updated")
    /\ existing[t] = NoTicket
    /\ count[t] < Total
    /\ row_lock \in {t, NoTask}
    /\ row_lock' = t
    /\ UNCHANGED <<tables, op, locals, answers, budget>>

\* PRIMARY KEY (req_id), UNIQUE (ticket_number).
UniqueViolation(t) ==
    \E s \in sold_tickets : s.req = op[t].req \/ s.ticket = count[t] + 1

\* An exception leaves the transaction block: rollback and an error for the
\* caller.
Rollback(t) ==
    /\ pc' = [pc EXCEPT ![t] = "idle"]
    /\ EndTransaction(t)
    /\ IF op[t] \in Buy THEN Outcome(t, "error", NoTicket, 0) ELSE UNCHANGED answers
    /\ Finish(t)
    /\ UNCHANGED tables

InsertRow(t) ==
    /\ pc[t] = "updated"
    /\ IF UniqueViolation(t)
       THEN Rollback(t)
       ELSE /\ Goto(t, "updated", "inserted")
            /\ UNCHANGED <<tables, row_lock, op, locals, answers>>
    /\ UNCHANGED budget

\* A bug: the arguments of INSERT are in the wrong order.
SellSwapped(t) ==
    /\ sold_count' = count[t] + 1
    /\ sold_tickets' = sold_tickets \cup
            {[req |-> op[t].user, user |-> op[t].req, ticket |-> count[t] + 1]}
    /\ EndTransaction(t)

\* COMMIT makes the new count and the row visible, and frees the lock.
Sell(t) ==
    /\ sold_count' = count[t] + 1
    /\ sold_tickets' = sold_tickets \cup
            {[req |-> op[t].req, user |-> op[t].user, ticket |-> count[t] + 1]}
    /\ EndTransaction(t)

\* A bug: the old count is returned as the ticket.
CommitSaleOldCount(t) ==
    /\ Goto(t, "inserted", "committed")
    /\ Sell(t)
    /\ Outcome(t, "success", count[t], Total - (count[t] + 1))
    /\ UNCHANGED <<op, budget>>

CommitSale(t) ==
    /\ Goto(t, "inserted", "committed")
    /\ Sell(t)
    /\ Outcome(t, "success", count[t] + 1, Total - (count[t] + 1))
    /\ UNCHANGED <<op, budget>>

-----------------------------------------------------------------------------
(* reset_state                                                             *)

ResetCount(t) ==
    /\ Goto(t, "locked", "zeroed")
    /\ op[t] = ResetOp
    /\ UNCHANGED <<tables, row_lock, op, locals, answers, budget>>

DeleteTickets(t) ==
    /\ Goto(t, "zeroed", "deleted")
    /\ UNCHANGED <<tables, row_lock, op, locals, answers, budget>>

Wipe(t) ==
    /\ sold_count' = 0
    /\ sold_tickets' = {}
    /\ answers' = {}
    /\ EndTransaction(t)

CommitReset(t) ==
    /\ Goto(t, "deleted", "committed")
    /\ Wipe(t)
    /\ UNCHANGED <<op, budget>>

\* invalidate_status_cache(), then the return of atomic_buy or reset_state.
Return(t) ==
    /\ Goto(t, "committed", "idle")
    /\ Finish(t)
    /\ UNCHANGED <<tables, row_lock, locals, answers, budget>>

-----------------------------------------------------------------------------
(* get_status: two statements on one connection, in no transaction.        *)

StatusCount(t) ==
    /\ Goto(t, "connected", "counted")
    /\ op[t] = StatusOp
    /\ count' = [count EXCEPT ![t] = sold_count]
    /\ UNCHANGED <<tables, row_lock, op, existing, rows, answers, budget>>

StatusRows(t) ==
    /\ Goto(t, "counted", "reported")
    /\ rows' = [rows EXCEPT ![t] = sold_tickets]
    /\ UNCHANGED <<tables, row_lock, op, count, existing, answers, budget>>

ReturnStatus(t) ==
    /\ Goto(t, "reported", "idle")
    /\ EndTransaction(t)
    /\ Finish(t)
    /\ UNCHANGED <<tables, answers, budget>>

-----------------------------------------------------------------------------
(* Faults: the connection, or the process that holds it, is lost.          *)

Fault ==
    /\ budget.faults > 0
    /\ budget' = [budget EXCEPT !.faults = @ - 1]

LoseConnection(t) ==
    /\ Connected(t) \/ pc[t] = "acquiring"
    /\ Fault
    /\ Rollback(t)

\* COMMIT was applied, but its acknowledgement never arrives.
LoseSaleAck(t) ==
    /\ Goto(t, "inserted", "idle")
    /\ Fault
    /\ Sell(t)
    /\ Outcome(t, "error", NoTicket, 0)
    /\ Finish(t)

LoseResetAck(t) ==
    /\ Goto(t, "deleted", "idle")
    /\ Fault
    /\ Wipe(t)
    /\ Finish(t)

-----------------------------------------------------------------------------

Call(t) ==
    \/ \E r \in Reqs, u \in Users : CallBuy(t, r, u)
    \/ CallReset(t) \/ CallStatus(t)

Step(t) ==
    \/ Acquire(t) \/ SelectForUpdate(t)
    \/ CheckExisting(t) \/ AnswerReplay(t) \/ AnswerSoldOut(t)
    \/ UpdateCount(t) \/ InsertRow(t) \/ CommitSale(t)
    \/ ResetCount(t) \/ DeleteTickets(t) \/ CommitReset(t) \/ Return(t)
    \/ StatusCount(t) \/ StatusRows(t) \/ ReturnStatus(t)

Lose(t) == LoseConnection(t) \/ LoseSaleAck(t) \/ LoseResetAck(t)

\* All calls are made and answered.
Finished ==
    /\ \A r \in Reqs : budget.buys[r] = 0
    /\ budget.resets = 0 /\ budget.polls = 0
    /\ \A t \in Tasks : pc[t] = "idle"
    /\ UNCHANGED vars

Next == (\E t \in Tasks : Call(t) \/ Step(t) \/ Lose(t)) \/ Finished

Spec == Init /\ [][Next]_vars

\* The event loops run every task whose statement Postgres has answered, and
\* Postgres answers every statement that waits for nothing.  Neither the pool
\* nor the row lock is promised to any one task.
Fairness == \A t \in Tasks : WF_vars(Step(t))

FairSpec == Spec /\ Fairness

-----------------------------------------------------------------------------
(* Properties                                                              *)

\* Every variable keeps the type its comment gives it.
TypeOK ==
    /\ sold_count \in Nat
    /\ sold_tickets \subseteq Row
    /\ row_lock \in Tasks \cup {NoTask}
    /\ pc \in [Tasks -> {"idle", "acquiring", "connected", "locked", "checked",
                         "updated", "inserted", "zeroed", "deleted", "committed",
                         "counted", "reported"}]
    /\ op \in [Tasks -> Buy \cup {NoOp, ResetOp, StatusOp}]
    /\ count \in [Tasks -> Nat]
    /\ existing \in [Tasks -> Nat]
    /\ rows \in [Tasks -> SUBSET Row]
    /\ answers \subseteq [req : Reqs, user : Users, ticket : Nat, remaining : Int,
                          status : {"success", "already_processed", "sold_out", "error"}]
    /\ budget \in [buys : [Reqs -> Nat], resets : Nat, polls : Nat, faults : Nat]

\* The ground truth: at every moment the committed rows are the tickets
\* 1 .. sold_count, each sold once, to requests that are all different, and
\* they are no more than Total.
LedgerMatchesCount ==
    /\ sold_count <= Total
    /\ {s.ticket : s \in sold_tickets} = 1 .. sold_count
    /\ \A s1, s2 \in sold_tickets :
           s1.ticket = s2.ticket \/ s1.req = s2.req => s1 = s2

\* The claim of db.py's comments: under the row lock the failure path of the
\* UNIQUE constraints is unreachable.
UniqueViolationUnreachable ==
    \A t \in Tasks : pc[t] = "updated" => ~UniqueViolation(t)

\* A buy that failed may have sold its ticket, and one that was answered has:
\* no outcome is ever contradicted by the tables until the next reset.
OutcomesOnRecord ==
    \A a \in answers :
        /\ a.status \in {"success", "already_processed"} => TicketsOf(a.req) = {a.ticket}
        /\ a.status = "sold_out" => TicketsOf(a.req) = {} /\ sold_count = Total

\* get_status reads the count before the rows: while nobody resets, every
\* ticket its sold_count counts is among its rows.
StatusNeverMissesASale ==
    \A t \in Tasks :
        budget.resets = MaxResets /\ pc[t] = "reported" =>
            1 .. count[t] \subseteq {s.ticket : s \in rows[t]}

\* Every call ends, although tasks wait for connections of a smaller pool
\* while their holders wait for the row lock.
EveryCallEnds == \A t \in Tasks : pc[t] # "idle" ~> pc[t] = "idle"

-----------------------------------------------------------------------------
(* The transactions implement the ticket service: a buy takes effect and   *)
(* its outcome is settled when its transaction ends.                       *)

InProgress(t) == op[t] \in Buy /\ pc[t] # "committed"

Service == INSTANCE TicketService WITH
    Callers <- Tasks,
    NoBuy   <- NoOp,
    Faulty  <- TRUE,
    sold    <- sold_count,
    sales   <- sold_tickets,
    pending <- [t \in Tasks |-> IF InProgress(t) THEN op[t] ELSE NoOp]

\* The ground truth is one atomic counter, whatever fails.
ImplementsService == Service!Spec
=============================================================================

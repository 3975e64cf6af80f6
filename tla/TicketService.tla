---------------------------- MODULE TicketService ----------------------------
(***************************************************************************)
(* What every stage of the ticket seller promises its buyers: one atomic,  *)
(* idempotent counter.  A buy takes effect in a single step somewhere      *)
(* between its arrival and its answer; the ticket numbers handed out are   *)
(* 1, 2, 3, ... up to Total; one req_id gets at most one ticket, and every *)
(* answer that names a ticket names the one on record for its req_id.      *)
(*                                                                         *)
(* The lock-protected in-memory seller (LockedSeller) and the Postgres     *)
(* transactions of the distributed stage (TicketDb) are both shown to      *)
(* implement this module.                                                  *)
(***************************************************************************)
EXTENDS Integers

CONSTANTS
    Callers,    \* concurrent executions of POST /buy
    Reqs,       \* req_ids
    Users,      \* user_ids
    NoBuy,      \* "no buy in progress"
    Total,      \* TOTAL_TICKETS
    Faulty      \* TRUE when an execution may fail after or before its effect

ASSUME TotalAssumption == Total \in Nat
ASSUME FaultyAssumption == Faulty \in BOOLEAN

Buy == [req : Reqs, user : Users]

ASSUME NoBuyAssumption == NoBuy \notin Buy

VARIABLES
    sold,       \* number of tickets sold since the last reset
    sales,      \* the sales on record
    pending,    \* the buy each caller has in progress, or NoBuy
    answers     \* the answers given since the last reset

vars == <<sold, sales, pending, answers>>

NoTicket == 0
Sale == [req : Reqs, user : Users, ticket : Nat]
Answer == [req : Reqs, user : Users, ticket : Nat, remaining : Int,
           status : {"success", "already_processed", "sold_out", "error"}]

MakeAnswer(b, status, ticket, remaining) ==
    [req |-> b.req, user |-> b.user, ticket |-> ticket,
     remaining |-> remaining, status |-> status]

Init ==
    /\ sold = 0
    /\ sales = {}
    /\ pending = [c \in Callers |-> NoBuy]
    /\ answers = {}

-----------------------------------------------------------------------------

Submit(c, b) ==
    /\ pending[c] = NoBuy
    /\ pending' = [pending EXCEPT ![c] = b]
    /\ UNCHANGED <<sold, sales, answers>>

\* Caller c is answered and becomes idle.
Reply(c, status, ticket, remaining) ==
    /\ pending' = [pending EXCEPT ![c] = NoBuy]
    /\ answers' = answers \cup {MakeAnswer(pending[c], status, ticket, remaining)}

\* A bug: the idempotency key is not checked.
RecordAgain(c) ==
    /\ sold < Total
    /\ sold' = sold + 1
    /\ sales' = sales \cup {[req |-> pending[c].req, user |-> pending[c].user,
                             ticket |-> sold + 1]}

\* The sale of the next ticket to the buy in progress at c.
Record(c) ==
    /\ sold < Total
    /\ \A s \in sales : s.req # pending[c].req
    /\ sold' = sold + 1
    /\ sales' = sales \cup {[req |-> pending[c].req, user |-> pending[c].user,
                             ticket |-> sold + 1]}

Sell(c) ==
    /\ pending[c] # NoBuy
    /\ Record(c)
    /\ Reply(c, "success", sold + 1, Total - (sold + 1))

\* A bug: the newest ticket is named instead of the one on record.
ReplayNewest(c) ==
    /\ pending[c] # NoBuy
    /\ \E s \in sales :
        /\ s.req = pending[c].req
        /\ Reply(c, "already_processed", sold, Total - sold)
    /\ UNCHANGED <<sold, sales>>

Replay(c) ==
    /\ pending[c] # NoBuy
    /\ \E s \in sales :
        /\ s.req = pending[c].req
        /\ Reply(c, "already_processed", s.ticket, Total - sold)
    /\ UNCHANGED <<sold, sales>>

SoldOut(c) ==
    /\ pending[c] # NoBuy
    /\ sold >= Total
    /\ \A s \in sales : s.req # pending[c].req
    /\ Reply(c, "sold_out", NoTicket, 0)
    /\ UNCHANGED <<sold, sales>>

\* A fault is reported to the caller; the sale may or may not have happened.
Fail(c) ==
    /\ Faulty
    /\ pending[c] # NoBuy
    /\ Record(c) \/ UNCHANGED <<sold, sales>>
    /\ Reply(c, "error", NoTicket, 0)

\* A bug: the sales survive the reset.
ResetCountOnly ==
    /\ sold' = 0
    /\ answers' = {}
    /\ UNCHANGED <<sales, pending>>

Reset ==
    /\ sold' = 0
    /\ sales' = {}
    /\ answers' = {}
    /\ UNCHANGED pending

Next ==
    \/ \E c \in Callers :
        \/ \E b \in Buy : Submit(c, b)
        \/ Sell(c) \/ Replay(c) \/ SoldOut(c) \/ Fail(c)
    \/ Reset

Spec == Init /\ [][Next]_vars

-----------------------------------------------------------------------------

\* Every variable keeps its type, and no more than Total tickets are sold.
TypeOK ==
    /\ sold \in 0 .. Total
    /\ sales \subseteq Sale
    /\ pending \in [Callers -> Buy \cup {NoBuy}]
    /\ answers \subseteq Answer

\* The tickets on record are exactly 1 .. sold, each sold once, and no req_id
\* holds two of them.
GaplessLedger ==
    /\ {s.ticket : s \in sales} = 1 .. sold
    /\ \A s1, s2 \in sales : s1.ticket = s2.ticket \/ s1.req = s2.req => s1 = s2

\* An answer that names a ticket names the one on record for its req_id, a
\* req_id that was told "sold_out" holds none, and success goes to the user
\* the ticket is recorded for.
AnswersTruthful ==
    \A a \in answers :
        /\ a.status \in {"success", "already_processed"} =>
            \E s \in sales :
                /\ s.req = a.req /\ s.ticket = a.ticket
                /\ a.status = "success" => s.user = a.user
        /\ a.status = "sold_out" => \A s \in sales : s.req # a.req

==============================================================================

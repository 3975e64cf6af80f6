-------------------------- MODULE TicketServiceProofs --------------------------
(***************************************************************************)
(* Proofs about TicketService: the ledger has no gap and no duplicate, and *)
(* no answer is contradicted by it, for all callers, req_ids and users and *)
(* every number of tickets.                                                *)
(***************************************************************************)
EXTENDS TicketService, TLAPS

\* Once "sold_out" has been answered there is nothing left to sell until the
\* next reset, which forgets the answer.
SoldOutIsFinal == \A a \in answers : a.status = "sold_out" => sold = Total

IInv == TypeOK /\ GaplessLedger /\ AnswersTruthful /\ SoldOutIsFinal

LEMMA InitIInv == Init => IInv
  BY TotalAssumption DEF Init, IInv, TypeOK, GaplessLedger, AnswersTruthful, SoldOutIsFinal

\* Recording a sale keeps the ledger gapless and no earlier answer is
\* contradicted by it.
LEMMA RecordKeepsLedger ==
  ASSUME IInv, NEW c \in Callers, pending[c] # NoBuy, Record(c)
  PROVE  /\ sold' \in 0 .. Total
         /\ sales' \subseteq Sale
         /\ GaplessLedger'
         /\ \A a \in answers :
              /\ a.status \in {"success", "already_processed"} =>
                    \E s \in sales' : /\ s.req = a.req /\ s.ticket = a.ticket
                                      /\ a.status = "success" => s.user = a.user
              /\ a.status # "sold_out"
<1> DEFINE b == pending[c]
           new == [req |-> b.req, user |-> b.user, ticket |-> sold + 1]
<1>1. b \in Buy
  BY DEF IInv, TypeOK
<1>2. sold' = sold + 1 /\ sales' = sales \cup {new} /\ sold < Total
  BY DEF Record
<1>3. sold \in 0 .. Total /\ sales \subseteq Sale /\ Total \in Nat
  BY TotalAssumption DEF IInv, TypeOK
<1>4. sold' \in 0 .. Total /\ sales' \subseteq Sale
  BY <1>1, <1>2, <1>3 DEF Buy, Sale
<1>5. GaplessLedger'
  <2>1. {s.ticket : s \in sales'} = {s.ticket : s \in sales} \cup {sold + 1}
    <3>1. new.ticket = sold + 1
      OBVIOUS
    <3> HIDE DEF new
    <3>2. {s.ticket : s \in sales \cup {new}} = {s.ticket : s \in sales} \cup {new.ticket}
      OBVIOUS
    <3> QED BY <1>2, <3>1, <3>2
  <2>2. 1 .. (sold + 1) = (1 .. sold) \cup {sold + 1}
    BY <1>3
  <2>3. {s.ticket : s \in sales'} = 1 .. sold'
    BY <2>1, <2>2, <1>2 DEF IInv, GaplessLedger
  <2>4. \A s \in sales : s.ticket # sold + 1 /\ s.req # b.req
    <3> TAKE s \in sales
    <3>1. s.ticket \in 1 .. sold
      BY DEF IInv, GaplessLedger
    <3> QED BY <3>1, <1>3 DEF Record
  <2>5. ASSUME NEW s1 \in sales', NEW s2 \in sales', s1.ticket = s2.ticket \/ s1.req = s2.req
        PROVE  s1 = s2
    BY <2>4, <2>5, <1>2 DEF IInv, GaplessLedger
  <2> QED BY <2>3, <2>5 DEF GaplessLedger
<1>6. ASSUME NEW a \in answers
      PROVE  /\ a.status \in {"success", "already_processed"} =>
                    \E s \in sales' : /\ s.req = a.req /\ s.ticket = a.ticket
                                      /\ a.status = "success" => s.user = a.user
             /\ a.status # "sold_out"
  BY <1>2, <1>3 DEF IInv, AnswersTruthful, SoldOutIsFinal
<1> QED BY <1>4, <1>5, <1>6

\* What Reply adds, with the buy it answers.
LEMMA ReplyType ==
  ASSUME IInv, NEW c \in Callers, pending[c] # NoBuy,
         NEW status \in {"success", "already_processed", "sold_out", "error"},
         NEW ticket \in Nat, NEW remaining \in Int, Reply(c, status, ticket, remaining)
  PROVE  /\ pending[c] \in Buy
         /\ pending' \in [Callers -> Buy \cup {NoBuy}]
         /\ answers' \subseteq Answer
         /\ answers' = answers \cup {MakeAnswer(pending[c], status, ticket, remaining)}
<1>1. pending[c] \in Buy
  BY DEF IInv, TypeOK
<1>2. pending' \in [Callers -> Buy \cup {NoBuy}]
  BY DEF Reply, IInv, TypeOK
<1>3. MakeAnswer(pending[c], status, ticket, remaining) \in Answer
  BY <1>1 DEF MakeAnswer, Answer, Buy
<1> QED BY <1>1, <1>2, <1>3 DEF Reply, IInv, TypeOK

LEMMA SellStep == ASSUME IInv, NEW c \in Callers, Sell(c) PROVE IInv'
<1>0. pending[c] # NoBuy /\ Record(c) /\ Reply(c, "success", sold + 1, Total - (sold + 1))
  BY DEF Sell
<1>1. sold \in Nat /\ sold + 1 \in Nat /\ Total - (sold + 1) \in Int
  BY TotalAssumption DEF IInv, TypeOK
<1>2. /\ pending' \in [Callers -> Buy \cup {NoBuy}]
      /\ answers' \subseteq Answer
      /\ answers' = answers \cup
            {MakeAnswer(pending[c], "success", sold + 1, Total - (sold + 1))}
  BY <1>0, <1>1, ReplyType
<1>3. /\ sold' \in 0 .. Total /\ sales' \subseteq Sale /\ GaplessLedger'
      /\ \A a \in answers :
            /\ a.status \in {"success", "already_processed"} =>
                  \E s \in sales' : /\ s.req = a.req /\ s.ticket = a.ticket
                                    /\ a.status = "success" => s.user = a.user
            /\ a.status # "sold_out"
  BY <1>0, RecordKeepsLedger
<1>4. \E s \in sales' :
          s.req = pending[c].req /\ s.ticket = sold + 1 /\ s.user = pending[c].user
  <2> DEFINE new == [req |-> pending[c].req, user |-> pending[c].user,
                     ticket |-> sold + 1]
  <2>1. new \in sales'
    BY <1>0 DEF Record
  <2>2. new.req = pending[c].req /\ new.ticket = sold + 1 /\ new.user = pending[c].user
    OBVIOUS
  <2> QED BY <2>1, <2>2
<1>5. AnswersTruthful' /\ SoldOutIsFinal'
  BY <1>2, <1>3, <1>4 DEF AnswersTruthful, SoldOutIsFinal, MakeAnswer
<1> QED BY <1>2, <1>3, <1>5 DEF IInv, TypeOK

LEMMA ReplayStep == ASSUME IInv, NEW c \in Callers, Replay(c) PROVE IInv'
<1>1. PICK s \in sales : s.req = pending[c].req
                         /\ Reply(c, "already_processed", s.ticket, Total - sold)
  BY DEF Replay
<1>2. pending[c] # NoBuy /\ sold' = sold /\ sales' = sales
  BY DEF Replay
<1>3. s.ticket \in Nat /\ Total - sold \in Int
  BY TotalAssumption DEF IInv, TypeOK, Sale
<1>4. /\ pending' \in [Callers -> Buy \cup {NoBuy}]
      /\ answers' \subseteq Answer
      /\ answers' = answers \cup
            {MakeAnswer(pending[c], "already_processed", s.ticket, Total - sold)}
  BY <1>1, <1>2, <1>3, ReplyType
<1>5. AnswersTruthful' /\ SoldOutIsFinal'
  BY <1>1, <1>2, <1>4 DEF AnswersTruthful, SoldOutIsFinal, MakeAnswer, IInv
<1> QED BY <1>2, <1>4, <1>5 DEF IInv, TypeOK, GaplessLedger

LEMMA SoldOutStep == ASSUME IInv, NEW c \in Callers, SoldOut(c) PROVE IInv'
<1>1. /\ pending[c] # NoBuy /\ sold' = sold /\ sales' = sales /\ sold >= Total
      /\ \A s \in sales : s.req # pending[c].req
      /\ Reply(c, "sold_out", NoTicket, 0)
  BY DEF SoldOut
<1>2. /\ pending' \in [Callers -> Buy \cup {NoBuy}]
      /\ answers' \subseteq Answer
      /\ answers' = answers \cup {MakeAnswer(pending[c], "sold_out", NoTicket, 0)}
  BY <1>1, ReplyType DEF NoTicket
<1>3. sold = Total
  BY <1>1, TotalAssumption DEF IInv, TypeOK
<1>4. AnswersTruthful' /\ SoldOutIsFinal'
  BY <1>1, <1>2, <1>3 DEF AnswersTruthful, SoldOutIsFinal, MakeAnswer, IInv
<1> QED BY <1>1, <1>2, <1>4 DEF IInv, TypeOK, GaplessLedger

LEMMA FailStep == ASSUME IInv, NEW c \in Callers, Fail(c) PROVE IInv'
<1>1. /\ pending[c] # NoBuy /\ Reply(c, "error", NoTicket, 0)
      /\ Record(c) \/ UNCHANGED <<sold, sales>>
  BY DEF Fail
<1>2. /\ pending' \in [Callers -> Buy \cup {NoBuy}]
      /\ answers' \subseteq Answer
      /\ answers' = answers \cup {MakeAnswer(pending[c], "error", NoTicket, 0)}
  BY <1>1, ReplyType DEF NoTicket
<1>3. CASE Record(c)
  BY <1>1, <1>2, <1>3, RecordKeepsLedger
  DEF IInv, TypeOK, AnswersTruthful, SoldOutIsFinal, MakeAnswer
<1>4. CASE UNCHANGED <<sold, sales>>
  BY <1>2, <1>4
  DEF IInv, TypeOK, GaplessLedger, AnswersTruthful, SoldOutIsFinal, MakeAnswer
<1> QED BY <1>1, <1>3, <1>4

LEMMA NextIInv == IInv /\ [Next]_vars => IInv'
<1> SUFFICES ASSUME IInv, [Next]_vars PROVE IInv'
  OBVIOUS
<1>1. ASSUME NEW c \in Callers, NEW b \in Buy, Submit(c, b) PROVE IInv'
  BY <1>1 DEF Submit, IInv, TypeOK, GaplessLedger, AnswersTruthful, SoldOutIsFinal
<1>2. ASSUME NEW c \in Callers, Sell(c) \/ Replay(c) \/ SoldOut(c) \/ Fail(c) PROVE IInv'
  BY <1>2, SellStep, ReplayStep, SoldOutStep, FailStep
<1>3. CASE Reset
  BY <1>3, TotalAssumption
  DEF Reset, IInv, TypeOK, GaplessLedger, AnswersTruthful, SoldOutIsFinal
<1>4. CASE UNCHANGED vars
  BY <1>4 DEF vars, IInv, TypeOK, GaplessLedger, AnswersTruthful, SoldOutIsFinal
<1> QED BY <1>1, <1>2, <1>3, <1>4 DEF Next

\* The inductive invariant holds in every reachable state; the theorems below are
\* its parts.
THEOREM InvariantHolds == Spec => []IInv
  BY InitIInv, NextIInv, PTL DEF Spec

\* Every reachable state is well typed.
THEOREM TypeCorrect == Spec => []TypeOK
  BY InvariantHolds, PTL DEF IInv

\* The service never oversells, never skips or repeats a ticket, and gives no
\* req_id two of them (the promise buy() makes in every stage).
THEOREM LedgerIsGapless == Spec => []GaplessLedger
  BY InvariantHolds, PTL DEF IInv

\* No answer of buy() is ever contradicted by the ledger before the next reset.
THEOREM AnswersAreTruthful == Spec => []AnswersTruthful
  BY InvariantHolds, PTL DEF IInv
==============================================================================

--------------------------- MODULE LoadClientProofs ---------------------------
(***************************************************************************)
(* Proofs about LoadClient, for every set of slots and executions, every   *)
(* plan, every number of retries and tickets: against a service that keeps *)
(* its contract, the verdict of the client is right.                       *)
(***************************************************************************)
EXTENDS LoadClient, TicketServiceProofs, FiniteSetTheorems

\* A slot that waits for an answer waits for an execution of its own send, and
\* no two slots wait for the same one.
Waiting ==
    /\ \A s \in Slots : job[s] # NoJob /\ job[s].caller # NoCaller =>
            /\ pending[job[s].caller] # NoBuy
            /\ pending[job[s].caller].req = job[s].req
    /\ \A s, t \in Slots :
            /\ job[s] # NoJob /\ job[s].caller # NoCaller
            /\ job[t] # NoJob /\ job[t].caller = job[s].caller
            => s = t

\* Sends are made in the phase "load" only; before it nothing of the plan is
\* sold or under way, and the checker asks when it is over.
Phases ==
    /\ phase = "start" =>
            /\ results = {} /\ left = plan /\ \A s \in Slots : job[s] = NoJob
            /\ \A x \in sales : plan[x.req] = 0
            /\ \A c \in Callers : pending[c] # NoBuy => plan[pending[c].req] = 0
    /\ at[Checker] # "idle" => phase # "start"
    /\ phase = "done" \/ at[Checker] # "idle" =>
            /\ \A r \in Reqs : left[r] = 0
            /\ \A s \in Slots : job[s] = NoJob

\* A result that is neither a failed attempt nor a 429 is an answer of the service.
Answered ==
    \A x \in results : x.status \notin {"transport_error", "rate_limited"} =>
        \E a \in answers : a.req = x.req /\ a.status = x.status /\ a.ticket = x.ticket

\* A planned req_id is to be sent, is being sent, or has a result.
Accounted ==
    \A r \in Reqs : plan[r] > 0 =>
        \/ left[r] > 0
        \/ \E s \in Slots : job[s] # NoJob /\ job[s].req = r
        \/ \E x \in results : x.req = r

\* Only the plan is sent.
Planned ==
    /\ \A x \in results : plan[x.req] > 0
    /\ \A s \in Slots : job[s] # NoJob => plan[job[s].req] > 0

\* What both statements have read, in the cache, in the checker's hands or on the
\* way there.
Statuses ==
    ({cache, report} \cup {got[g] : g \in {h \in Getters : at[h] = "rows"}}) \ {NoStatus}

\* However old a status is: its rows are a gapless ledger, those of the plan are
\* still on record, and it agrees with itself unless something ran between its reads.
Sound(st) ==
    /\ st.count \in 0 .. Total
    /\ \E n \in 0 .. Total : {s.ticket : s \in st.rows} = 1 .. n
    /\ \A s, u \in st.rows : s.ticket = u.ticket => s = u
    /\ \A s \in st.rows : plan[s.req] > 0 => s \in sales
    /\ ~st.busy => st.count = Cardinality(st.rows)

StatusesSound == \A st \in Statuses : Sound(st)

\* Between the reads: undisturbed, the count is still the one of the tables.
Counting ==
    \A g \in Getters : at[g] = "count" =>
        /\ got[g].count \in 0 .. Total
        /\ ~got[g].busy => /\ got[g].count = sold
                           /\ \A c \in Callers : pending[c] = NoBuy

ClientIInv ==
    /\ IInv /\ ClientTypeOK /\ left \in [Reqs -> Nat]
    /\ Waiting /\ Phases /\ Answered /\ Accounted /\ Planned
    /\ StatusesSound /\ Counting

-----------------------------------------------------------------------------
(* Gapless ledgers                                                         *)

\* A set of sales whose tickets are 1 .. n, each sold once, has n members.
LEMMA GaplessCardinality ==
  ASSUME NEW S, NEW n \in Nat, {s.ticket : s \in S} = 1 .. n,
         \A s, t \in S : s.ticket = t.ticket => s = t
  PROVE  Cardinality(S) = n /\ Cardinality({s.ticket : s \in S}) = n
<1> DEFINE f == [s \in S |-> s.ticket]
<1>1. IsFiniteSet(1 .. n) /\ Cardinality(1 .. n) = n
  BY FS_Interval
<1>2. f \in Injection(S, 1 .. n) /\ f \in Surjection(S, 1 .. n)
  BY DEF Injection, Surjection, IsInjective
<1>3. IsFiniteSet(S) /\ Cardinality(S) = Cardinality(1 .. n)
  BY <1>1, <1>2, FS_Injection
<1> QED BY <1>1, <1>3

LEMMA LedgerCardinality == IInv => Cardinality(sales) = sold
<1> SUFFICES ASSUME IInv PROVE Cardinality(sales) = sold
  OBVIOUS
<1>1. sold \in Nat /\ {s.ticket : s \in sales} = 1 .. sold
  BY DEF IInv, TypeOK, GaplessLedger
<1>2. \A s, t \in sales : s.ticket = t.ticket => s = t
  BY DEF IInv, GaplessLedger
<1> QED BY <1>1, <1>2, GaplessCardinality

-----------------------------------------------------------------------------
(* The verdict                                                             *)

\* A result that names a ticket names the one on record.
LEMMA NamedOnRecord ==
  ASSUME ClientIInv, NEW x \in Named
  PROVE  \E s \in sales : s.req = x.req /\ s.ticket = x.ticket
<1>1. x \in results /\ x.status \in {"success", "already_processed"}
  BY DEF Named
<1>2. PICK a \in answers : a.req = x.req /\ a.status = x.status /\ a.ticket = x.ticket
  BY <1>1 DEF ClientIInv, Answered
<1> QED BY <1>1, <1>2 DEF ClientIInv, IInv, AnswersTruthful

LEMMA VerdictIsRight ==
  ASSUME ClientIInv
  PROVE  NoFalseAlarm /\ AlarmIsTornRead /\ NoTicketLost
<1>1. ASSUME phase = "done"
      PROVE  INV1 /\ INV2 /\ INV3 /\ (~report.busy => INV4)
  <2>1. Sound(report)
    BY <1>1 DEF ClientIInv, ClientTypeOK, StatusesSound, Statuses
  <2>2. PICK n \in 0 .. Total : {s.ticket : s \in report.rows} = 1 .. n
    BY <2>1 DEF Sound
  <2>3. n \in Nat /\ n <= Total /\ Total \in Nat
    BY TotalAssumption
  <2>4. Cardinality(report.rows) = n /\ Cardinality({s.ticket : s \in report.rows}) = n
    BY <2>1, <2>2, <2>3, GaplessCardinality DEF Sound
  <2>5. INV1 /\ INV2
    BY <2>1, <2>4 DEF INV1, INV2, Sound
  <2>6. INV3
    <3>1. ASSUME NEW x \in Named, NEW y \in Named, x.req = y.req PROVE x.ticket = y.ticket
      BY <3>1, NamedOnRecord DEF ClientIInv, IInv, GaplessLedger
    <3>2. ASSUME NEW x \in Named, NEW s \in report.rows, x.req = s.req
          PROVE  x.ticket = s.ticket
      <4>1. PICK u \in sales : u.req = x.req /\ u.ticket = x.ticket
        BY NamedOnRecord
      <4>2. plan[s.req] > 0
        BY <3>2 DEF Named, ClientIInv, Planned
      <4>3. s \in sales
        BY <2>1, <4>2 DEF Sound
      <4> QED BY <3>2, <4>1, <4>3 DEF ClientIInv, IInv, GaplessLedger
    <3> QED BY <3>1, <3>2 DEF INV3
  <2>7. ~report.busy => INV4
    BY <2>1 DEF INV4, Sound
  <2> QED BY <2>5, <2>6, <2>7
<1>2. ASSUME phase = "done", NEW s \in sales, plan[s.req] > 0
      PROVE  \E x \in results :
               /\ x.req = s.req
               /\ \/ x.ticket = s.ticket
                  \/ x.status \in {"error", "rate_limited", "transport_error"}
  <2>1. s.req \in Reqs
    BY DEF ClientIInv, IInv, TypeOK, Sale
  <2>2. PICK x \in results : x.req = s.req
    BY <1>2, <2>1 DEF ClientIInv, Accounted, Phases
  <2>3. x.status \in {"success", "already_processed", "sold_out", "error", "rate_limited",
                      "transport_error"}
    BY DEF ClientIInv, ClientTypeOK, RequestResult
  <2>4. x.status # "sold_out"
    BY <2>2 DEF ClientIInv, Answered, IInv, AnswersTruthful
  <2>5. x \in Named => x.ticket = s.ticket
    BY <2>2, NamedOnRecord DEF ClientIInv, IInv, GaplessLedger
  <2> QED BY <2>2, <2>3, <2>4, <2>5 DEF Named
<1> QED BY <1>1, <1>2 DEF NoFalseAlarm, AlarmIsTornRead, NoTicketLost

-----------------------------------------------------------------------------
(* Every step                                                              *)

LEMMA PlanType ==
  ASSUME ClientIInv, NEW r \in Reqs
  PROVE  plan[r] \in Nat /\ left[r] \in Nat /\ left[r] <= plan[r]
  BY PlansAssumption, RetriesAssumption DEF ClientIInv, ClientTypeOK

LEMMA JobType ==
  ASSUME ClientIInv, NEW s \in Slots, job[s] # NoJob
  PROVE  job[s] \in Job /\ job[s].req \in Reqs /\ job[s].retries \in 0 .. MaxRetries
         /\ job[s].caller \in Callers \cup {NoCaller}
  BY DEF ClientIInv, ClientTypeOK, Job

LEMMA InitClientIInv == ClientInit => ClientIInv
<1> SUFFICES ASSUME ClientInit PROVE ClientIInv
  OBVIOUS
<1>1. IInv /\ sales = {} /\ \A c \in Callers : pending[c] = NoBuy
  BY InitIInv DEF ClientInit, Init
<1>2. plan \in [Reqs -> {0, 1, ReplayCount}] /\ left = plan /\ \A r \in Reqs : plan[r] \in Nat
  BY PlansAssumption, RetriesAssumption DEF ClientInit
<1>3. StatusTypeOK /\ at[Checker] = "idle" /\ StatusesSound /\ Counting
  BY CheckerAssumption DEF ClientInit, StatusTypeOK, StatusesSound, Statuses, Counting
<1>4. left \in [Reqs -> Nat] /\ ClientTypeOK
  BY <1>1, <1>2, <1>3 DEF ClientInit, ClientTypeOK, IInv
<1>5. Waiting /\ Phases /\ Answered
  BY <1>1, <1>3 DEF ClientInit, Waiting, Phases, Answered
<1>6. Accounted /\ Planned
  BY DEF ClientInit, Accounted, Planned
<1> QED BY <1>1, <1>3, <1>4, <1>5, <1>6 DEF ClientIInv

\* The client is one of the callers the service is made for.
LEMMA ClientIsCaller == ClientIInv /\ [ClientNext]_allVars => [Next]_vars
<1> SUFFICES ASSUME ClientIInv, [ClientNext]_allVars PROVE [Next]_vars
  OBVIOUS
<1>1. ASSUME NEW c \in Callers, NEW r \in Reqs, Submit(c, [req |-> r, user |-> buyer[r]])
      PROVE  Next
  <2>1. [req |-> r, user |-> buyer[r]] \in Buy
    BY DEF ClientIInv, ClientTypeOK, Buy
  <2> QED BY <1>1, <2>1 DEF Next
<1>2. ASSUME NEW c \in Callers, NEW r \in Reqs, Leftover(c, r) PROVE Next
  BY <1>1, <1>2 DEF Leftover
<1>3. CASE Start
  BY <1>3 DEF Start, Next
<1>4. ASSUME NEW s \in Slots, SlotStep(s) PROVE [Next]_vars
  <2>1. ASSUME NEW r \in Reqs, Take(s, r) PROVE [Next]_vars
    BY <2>1 DEF Take
  <2>2. ASSUME NEW c \in Callers, Fire(s, c) PROVE Next
    <3>1. job[s].req \in Reqs
      BY <2>2, JobType DEF Fire
    <3> QED BY <1>1, <2>2, <3>1 DEF Fire
  <2> QED BY <1>4, <2>1, <2>2 DEF SlotStep
<1>5. ASSUME NEW s \in Slots, Reject(s) \/ TimeOut(s) PROVE UNCHANGED vars
  BY <1>5 DEF Reject, TimeOut
<1>6. ASSUME NEW c \in Callers, Serve(c) PROVE Next
  BY <1>6 DEF Serve, Next
<1>7. ASSUME NEW g \in Getters, GetStep(g) PROVE UNCHANGED vars
  BY <1>7 DEF GetStep, Hit, StatusCount, StatusRows, Store
<1>8. CASE DropEntry \/ Finished \/ UNCHANGED allVars
  BY <1>8 DEF DropEntry, Finished, allVars
<1> QED BY <1>2, <1>3, <1>4, <1>5, <1>6, <1>7, <1>8 DEF ClientNext

\* What was read before stays as good as it was while the sales of the plan do.
LEMMA StatusesStay ==
  ASSUME ClientIInv, Statuses' \subseteq Statuses, plan' = plan,
         \A x \in sales : plan[x.req] > 0 => x \in sales'
  PROVE  StatusesSound'
<1>1. ASSUME NEW st \in Statuses' PROVE Sound(st)'
  <2>1. Sound(st)
    BY DEF ClientIInv, StatusesSound
  <2> QED BY <2>1 DEF Sound
<1> QED BY <1>1 DEF StatusesSound

\* Steps that send nothing new and leave the status alone.
LEMMA StatusStays ==
  ASSUME ClientIInv, UNCHANGED <<report, cache, at, got>>, plan' = plan,
         \A x \in sales : plan[x.req] > 0 => x \in sales',
         UNCHANGED <<sold, pending>> \/ \E c \in Callers : pending[c] # NoBuy
  PROVE  StatusTypeOK' /\ StatusesSound' /\ Counting'
<1>1. StatusTypeOK'
  BY DEF ClientIInv, ClientTypeOK, StatusTypeOK
<1>2. Statuses' = Statuses
  BY DEF Statuses
<1>3. Counting'
  BY DEF ClientIInv, Counting
<1> QED BY <1>1, <1>2, <1>3, StatusesStay

\* Steps that mark what they disturb.
LEMMA StatusDisturbed ==
  ASSUME ClientIInv, Disturb, plan' = plan,
         \A x \in sales : plan[x.req] > 0 => x \in sales'
  PROVE  StatusTypeOK' /\ StatusesSound' /\ Counting' /\ UNCHANGED <<report, at>>
<1>1. UNCHANGED <<report, cache, at>>
  BY DEF Disturb
<1>2. ASSUME NEW g \in Getters
      PROVE  /\ at[g] # "count" => got'[g] = got[g]
             /\ at[g] = "count" => /\ got'[g] \in Status /\ got'[g].busy
                                  /\ got'[g].count = got[g].count
  <2> DEFINE old == got[g]
  <2>1. at[g] = "count" => old \in Status
    BY DEF ClientIInv, ClientTypeOK, StatusTypeOK
  <2>2. got'[g] = IF at[g] = "count" THEN [old EXCEPT !.busy = TRUE] ELSE old
    BY DEF Disturb
  <2> HIDE DEF old
  <2>3. at[g] = "count" =>
          /\ [old EXCEPT !.busy = TRUE] \in Status /\ [old EXCEPT !.busy = TRUE].busy
          /\ [old EXCEPT !.busy = TRUE].count = old.count
    BY <2>1 DEF Status
  <2> QED BY <2>2, <2>3 DEF old
<1>3. got' \in [Getters -> Status \cup {NoStatus}]
  <2>1. \A g \in Getters : got'[g] \in Status \cup {NoStatus}
    BY <1>2 DEF ClientIInv, ClientTypeOK, StatusTypeOK
  <2> QED BY <2>1 DEF Disturb
<1>4. StatusTypeOK'
  BY <1>1, <1>2, <1>3, CheckerAssumption DEF ClientIInv, ClientTypeOK, StatusTypeOK
<1>5. Statuses' = Statuses
  BY <1>1, <1>2 DEF Statuses
<1>6. Counting'
  BY <1>1, <1>2 DEF ClientIInv, Counting
<1> QED BY <1>1, <1>4, <1>5, <1>6, StatusesStay

\* What becomes of a slot whose attempt is over.
Freed(s, status, ticket) == Return(s, status, ticket) \/ AttemptFails(s)

LEMMA FreedSlot ==
  ASSUME ClientIInv, NEW s \in Slots, job[s] # NoJob, NEW ticket \in Nat,
         NEW status \in {"success", "already_processed", "sold_out", "error", "rate_limited"},
         Freed(s, status, ticket)
  PROVE  /\ job' \in [Slots -> Job \cup {NoJob}]
         /\ \A t \in Slots : t # s => job'[t] = job[t]
         /\ job'[s] # NoJob => job'[s].req = job[s].req /\ job'[s].caller = NoCaller
         /\ results' \subseteq RequestResult
         /\ results \subseteq results'
         /\ results' \subseteq results \cup
              {[req |-> job[s].req, status |-> status, ticket |-> ticket],
               [req |-> job[s].req, status |-> "transport_error", ticket |-> NoTicket]}
         /\ \/ job'[s] # NoJob
            \/ \E x \in results' : x.req = job[s].req
<1>1. /\ job[s] \in Job /\ job[s].req \in Reqs /\ job[s].retries \in 0 .. MaxRetries
      /\ MaxRetries \in Nat
  BY JobType, RetriesAssumption
<1>2. job \in [Slots -> Job \cup {NoJob}] /\ results \subseteq RequestResult
  BY DEF ClientIInv, ClientTypeOK
<1>3. ASSUME NEW how \in {"success", "already_processed", "sold_out", "error", "rate_limited",
                        "transport_error"},
             NEW n \in Nat, Return(s, how, n)
      PROVE  /\ job' \in [Slots -> Job \cup {NoJob}] /\ job'[s] = NoJob
             /\ \A t \in Slots : t # s => job'[t] = job[t]
             /\ results' = results \cup {[req |-> job[s].req, status |-> how, ticket |-> n]}
             /\ results' \subseteq RequestResult
             /\ \E x \in results' : x.req = job[s].req
  <2> DEFINE new == [req |-> job[s].req, status |-> how, ticket |-> n]
  <2>1. results' = results \cup {new} /\ job' = [job EXCEPT ![s] = NoJob]
    BY <1>3 DEF Return
  <2>2. new \in RequestResult /\ new.req = job[s].req
    BY <1>1 DEF RequestResult
  <2> QED BY <1>2, <2>1, <2>2
<1>4. CASE Return(s, status, ticket)
  BY <1>3, <1>4
<1>5. CASE AttemptFails(s) /\ ~(job[s].retries > 0)
  <2>1. Return(s, "transport_error", NoTicket)
    BY <1>5 DEF AttemptFails
  <2> QED BY <1>3, <2>1 DEF NoTicket
<1>6. CASE AttemptFails(s) /\ job[s].retries > 0
  <2> DEFINE old == job[s]
             fewer == old.retries - 1
             new == [[old EXCEPT !.retries = fewer] EXCEPT !.caller = NoCaller]
  <2>1. job' = [job EXCEPT ![s] = new] /\ results' = results
    BY <1>6 DEF AttemptFails
  <2>2. old \in Job /\ fewer \in 0 .. MaxRetries
    BY <1>1, <1>6
  <2> HIDE DEF old, fewer
  <2>3. new \in Job /\ new.req = old.req /\ new.caller = NoCaller
    BY <2>2 DEF Job
  <2> HIDE DEF new
  <2>4. new # NoJob
    BY <2>3, NoJobAssumption
  <2> QED BY <1>2, <2>1, <2>3, <2>4 DEF old
<1> QED BY <1>4, <1>5, <1>6 DEF Freed

\* What a step of the client does to the records of the service between Start
\* and the end: answers and sales are added, never forgotten.
LEMMA ServiceGrows ==
  ASSUME ClientIInv, NEW c \in Callers, Sell(c) \/ Replay(c) \/ SoldOut(c) \/ Fail(c)
  PROVE  /\ pending[c] # NoBuy /\ pending' = [pending EXCEPT ![c] = NoBuy]
         /\ \A b \in Callers : b # c => pending'[b] = pending[b]
         /\ pending'[c] = NoBuy
         /\ answers \subseteq answers' /\ sales \subseteq sales'
         /\ \A x \in sales' : x \in sales \/ x.req = pending[c].req
<1>1. pending \in [Callers -> Buy \cup {NoBuy}]
  BY DEF ClientIInv, IInv, TypeOK
<1>2. /\ pending[c] # NoBuy /\ pending' = [pending EXCEPT ![c] = NoBuy]
      /\ answers \subseteq answers' /\ sales \subseteq sales'
      /\ \A x \in sales' : x \in sales \/ x.req = pending[c].req
  BY DEF Sell, Replay, SoldOut, Fail, Reply, Record
<1> QED BY <1>1, <1>2

LEMMA ReachStep ==
  ASSUME ClientIInv, IInv', NEW c \in Callers,
         Sell(c) \/ Replay(c) \/ SoldOut(c) \/ Fail(c),
         NEW status \in {"success", "already_processed", "sold_out", "error"},
         NEW ticket \in Nat, Reach(c, status, ticket),
         \E a \in answers' : a.req = pending[c].req /\ a.status = status /\ a.ticket = ticket
  PROVE  ClientIInv'
<1>1. /\ pending[c] # NoBuy /\ pending'[c] = NoBuy
      /\ \A b \in Callers : b # c => pending'[b] = pending[b]
      /\ answers \subseteq answers' /\ sales \subseteq sales'
      /\ \A x \in sales' : x \in sales \/ x.req = pending[c].req
  BY ServiceGrows
<1>2. UNCHANGED <<phase, plan, buyer, left, report, cache, at, got>>
  BY DEF Reach, planVars, statusVars
<1>3. StatusTypeOK' /\ StatusesSound' /\ Counting'
  BY <1>1, <1>2, StatusStays
<1>4. CASE UNCHANGED <<job, results>> /\ \A s \in Slots : ~(job[s] # NoJob /\ job[s].caller = c)
  <2>1. ClientTypeOK' /\ left' \in [Reqs -> Nat]
    BY <1>2, <1>3, <1>4 DEF ClientIInv, ClientTypeOK, IInv
  <2>2. Waiting'
    <3>1. \A s \in Slots : job[s] # NoJob /\ job[s].caller # NoCaller =>
             job[s].caller \in Callers /\ job[s].caller # c
      BY <1>4, JobType
    <3> QED BY <1>1, <1>4, <3>1 DEF ClientIInv, Waiting
  <2>3. Phases' /\ Accounted' /\ Planned'
    BY <1>1, <1>2, <1>4 DEF ClientIInv, Phases, Accounted, Planned
  <2>4. Answered'
    BY <1>1, <1>4 DEF ClientIInv, Answered
  <2> QED BY <1>3, <2>1, <2>2, <2>3, <2>4 DEF ClientIInv
<1>5. CASE \E s \in Slots : job[s] # NoJob /\ job[s].caller = c
  <2>1. PICK s \in Slots : /\ job[s] # NoJob /\ job[s].caller = c
                           /\ Freed(s, status, ticket)
    <3> DEFINE s == CHOOSE t \in Slots : job[t] # NoJob /\ job[t].caller = c
    <3>1. s \in Slots /\ job[s] # NoJob /\ job[s].caller = c
      BY <1>5
    <3>2. Return(s, status, ticket) \/ AttemptFails(s)
      BY <1>5 DEF Reach
    <3> HIDE DEF s
    <3> QED BY <3>1, <3>2 DEF Freed
  <2>2. /\ job' \in [Slots -> Job \cup {NoJob}]
        /\ \A t \in Slots : t # s => job'[t] = job[t]
        /\ job'[s] # NoJob => job'[s].req = job[s].req /\ job'[s].caller = NoCaller
        /\ results' \subseteq RequestResult
        /\ results \subseteq results'
        /\ results' \subseteq results \cup
             {[req |-> job[s].req, status |-> status, ticket |-> ticket],
              [req |-> job[s].req, status |-> "transport_error", ticket |-> NoTicket]}
        /\ \/ job'[s] # NoJob
           \/ \E x \in results' : x.req = job[s].req
    BY <2>1, FreedSlot
  <2>3. c # NoCaller /\ job[s].req = pending[c].req
    BY <2>1, NoJobAssumption DEF ClientIInv, Waiting
  <2>4. ClientTypeOK' /\ left' \in [Reqs -> Nat]
    BY <1>2, <1>3, <2>2 DEF ClientIInv, ClientTypeOK, IInv
  <2>5. Waiting'
    <3>1. \A t \in Slots : t # s /\ job[t] # NoJob /\ job[t].caller # NoCaller =>
             job[t].caller \in Callers /\ job[t].caller # c
      BY <2>1, JobType DEF ClientIInv, Waiting
    <3>2. \A t \in Slots : job'[t] # NoJob /\ job'[t].caller # NoCaller =>
             t # s /\ job'[t] = job[t]
      BY <2>2
    <3> QED BY <1>1, <3>1, <3>2 DEF ClientIInv, Waiting
  <2>6. Phases'
    BY <1>2, <2>1 DEF ClientIInv, Phases
  <2>7. Planned'
    BY <1>2, <2>1, <2>2 DEF ClientIInv, Planned
  <2>8. Answered'
    <3>1. ASSUME NEW x \in results', x.status \notin {"transport_error", "rate_limited"}
          PROVE  \E a \in answers' : a.req = x.req /\ a.status = x.status /\ a.ticket = x.ticket
      <4>1. CASE x \in results
        BY <1>1, <3>1, <4>1 DEF ClientIInv, Answered
      <4>2. CASE x = [req |-> job[s].req, status |-> status, ticket |-> ticket]
        BY <2>3, <4>2
      <4> QED BY <2>2, <3>1, <4>1, <4>2
    <3> QED BY <3>1 DEF Answered
  <2>9. Accounted'
    <3> SUFFICES ASSUME NEW r \in Reqs, plan[r] > 0, ~(left[r] > 0)
                 PROVE  \/ \E t \in Slots : job'[t] # NoJob /\ job'[t].req = r
                        \/ \E x \in results' : x.req = r
      BY <1>2 DEF Accounted
    <3>1. CASE \E x \in results : x.req = r
      BY <2>2, <3>1
    <3>2. CASE \E t \in Slots : job[t] # NoJob /\ job[t].req = r
      BY <2>2, <3>2
    <3> QED BY <3>1, <3>2 DEF ClientIInv, Accounted
  <2> QED BY <1>3, <2>4, <2>5, <2>6, <2>8, <2>9, <2>7 DEF ClientIInv
<1> QED BY <1>4, <1>5 DEF Reach

\* Reply leaves the answer it gave on record.
LEMMA ReplyAnswers ==
  ASSUME NEW c, NEW status, NEW ticket, NEW remaining, Reply(c, status, ticket, remaining)
  PROVE  \E a \in answers' : a.req = pending[c].req /\ a.status = status /\ a.ticket = ticket
<1> DEFINE new == MakeAnswer(pending[c], status, ticket, remaining)
<1>1. new \in answers'
  BY DEF Reply
<1>2. new.req = pending[c].req /\ new.status = status /\ new.ticket = ticket
  BY DEF MakeAnswer
<1> QED BY <1>1, <1>2

LEMMA ServeStep == ASSUME ClientIInv, IInv', NEW c \in Callers, Serve(c) PROVE ClientIInv'
<1>1. sold \in Nat
  BY DEF ClientIInv, IInv, TypeOK
<1>2. CASE Sell(c) /\ Reach(c, "success", sold + 1)
  <2>1. \E a \in answers' : a.req = pending[c].req /\ a.status = "success" /\ a.ticket = sold + 1
    BY <1>2, ReplyAnswers DEF Sell
  <2> QED BY <1>1, <1>2, <2>1, ReachStep
<1>3. ASSUME Replay(c), NEW s \in sales, s.req = pending[c].req,
             Reach(c, "already_processed", s.ticket)
      PROVE  ClientIInv'
  <2>1. PICK t \in sales : t.req = pending[c].req
                           /\ Reply(c, "already_processed", t.ticket, Total - sold)
    BY <1>3 DEF Replay
  <2>2. t = s /\ s.ticket \in Nat
    BY <1>3, <2>1 DEF ClientIInv, IInv, GaplessLedger
  <2>3. \E a \in answers' : /\ a.req = pending[c].req /\ a.status = "already_processed"
                            /\ a.ticket = s.ticket
    BY <2>1, <2>2, ReplyAnswers
  <2> QED BY <1>3, <2>2, <2>3, ReachStep
<1>4. CASE SoldOut(c) /\ Reach(c, "sold_out", NoTicket)
  <2>1. \E a \in answers' : a.req = pending[c].req /\ a.status = "sold_out" /\ a.ticket = NoTicket
    BY <1>4, ReplyAnswers DEF SoldOut
  <2> QED BY <1>4, <2>1, ReachStep DEF NoTicket
<1>5. CASE Fail(c) /\ Reach(c, "error", NoTicket)
  <2>1. \E a \in answers' : a.req = pending[c].req /\ a.status = "error" /\ a.ticket = NoTicket
    BY <1>5, ReplyAnswers DEF Fail
  <2> QED BY <1>5, <2>1, ReachStep DEF NoTicket
<1> QED BY <1>2, <1>3, <1>4, <1>5 DEF Serve

LEMMA LeftoverStep ==
  ASSUME ClientIInv, IInv', NEW c \in Callers, NEW r \in Reqs, Leftover(c, r)
  PROVE  ClientIInv'
<1> DEFINE new == [req |-> r, user |-> buyer[r]]
<1>1. /\ phase = "start" /\ plan[r] = 0 /\ pending[c] = NoBuy
      /\ pending' = [pending EXCEPT ![c] = new] /\ UNCHANGED <<sold, sales, answers>>
      /\ UNCHANGED <<phase, plan, buyer, left, job, results>> /\ Disturb
  BY DEF Leftover, Submit, clientVars
<1>2. new.req = r
  OBVIOUS
<1> HIDE DEF new
<1>3. StatusTypeOK' /\ StatusesSound' /\ Counting' /\ UNCHANGED <<report, at>>
  BY <1>1, StatusDisturbed
<1>4. ClientTypeOK' /\ left' \in [Reqs -> Nat]
  BY <1>1, <1>3 DEF ClientIInv, ClientTypeOK, IInv
<1>5. Waiting' /\ Accounted' /\ Planned'
  BY <1>1 DEF ClientIInv, Waiting, Accounted, Planned
<1>6. Phases'
  BY <1>1, <1>2, <1>3 DEF ClientIInv, Phases
<1>7. Answered'
  BY <1>1 DEF ClientIInv, Answered
<1> QED BY <1>3, <1>4, <1>5, <1>6, <1>7 DEF ClientIInv

LEMMA StartStep == ASSUME ClientIInv, IInv', Start PROVE ClientIInv'
<1>1. /\ phase = "start" /\ phase' = "load" /\ UNCHANGED pending
      /\ UNCHANGED <<plan, buyer, left, job, results>>
      /\ results = {} /\ \A s \in Slots : job[s] = NoJob
      /\ \A x \in sales : plan[x.req] = 0
  BY DEF Start, Reset, planVars, vars, ClientIInv, Phases
<1>2. /\ StatusTypeOK' /\ StatusesSound' /\ Counting' /\ UNCHANGED <<report, at>>
  <2>1. CASE Reset /\ Disturb
    BY <1>1, <2>1, StatusDisturbed
  <2>2. CASE UNCHANGED <<vars, statusVars>>
    BY <1>1, <2>2, StatusStays DEF vars, statusVars
  <2> QED BY <2>1, <2>2 DEF Start
<1>3. ClientTypeOK' /\ left' \in [Reqs -> Nat]
  BY <1>1, <1>2 DEF ClientIInv, ClientTypeOK, IInv
<1>4. Waiting' /\ Answered' /\ Accounted' /\ Planned'
  BY <1>1 DEF ClientIInv, Waiting, Answered, Accounted, Planned
<1>5. Phases'
  BY <1>1, <1>2 DEF ClientIInv, Phases
<1> QED BY <1>2, <1>3, <1>4, <1>5 DEF ClientIInv

LEMMA TakeStep ==
  ASSUME ClientIInv, IInv', NEW s \in Slots, NEW r \in Reqs, Take(s, r) PROVE ClientIInv'
<1> DEFINE new == [req |-> r, retries |-> MaxRetries, caller |-> NoCaller]
<1>1. /\ phase = "load" /\ job[s] = NoJob /\ left[r] > 0
      /\ left' = [left EXCEPT ![r] = @ - 1] /\ job' = [job EXCEPT ![s] = new]
      /\ UNCHANGED <<sold, sales, pending, answers, phase, plan, buyer, results>>
      /\ UNCHANGED <<report, cache, at, got>>
  BY DEF Take, planVars, vars, statusVars
<1>2. new \in Job /\ new # NoJob /\ new.req = r /\ new.caller = NoCaller
  BY RetriesAssumption, NoJobAssumption DEF Job
<1> HIDE DEF new
<1>3. job' \in [Slots -> Job \cup {NoJob}] /\ job'[s] = new
      /\ \A t \in Slots : t # s => job'[t] = job[t]
  BY <1>1, <1>2 DEF ClientIInv, ClientTypeOK
<1>4. /\ left' \in [Reqs -> Nat] /\ \A q \in Reqs : left'[q] \in 0 .. plan[q]
      /\ \A q \in Reqs : q # r => left'[q] = left[q]
      /\ plan[r] > 0
  <2>1. \A q \in Reqs : left[q] \in Nat /\ plan[q] \in Nat /\ left[q] <= plan[q]
    BY PlanType
  <2>2. left \in [Reqs -> Nat]
    BY DEF ClientIInv
  <2> QED BY <1>1, <2>1, <2>2
<1>5. StatusTypeOK' /\ StatusesSound' /\ Counting'
  BY <1>1, StatusStays
<1>6. ClientTypeOK'
  BY <1>1, <1>3, <1>4, <1>5 DEF ClientIInv, ClientTypeOK, IInv
<1>7. Waiting'
  BY <1>1, <1>2 DEF ClientIInv, Waiting
<1>8. Phases' /\ Answered'
  <2> QED BY <1>1 DEF ClientIInv, Phases, Answered
<1>9. Accounted'
  <2>1. ASSUME NEW q \in Reqs, plan[q] > 0
        PROVE  \/ left'[q] > 0
               \/ \E t \in Slots : job'[t] # NoJob /\ job'[t].req = q
               \/ \E x \in results : x.req = q
    <3>1. CASE q = r
      BY <1>2, <1>3, <3>1
    <3>2. CASE q # r
      BY <1>1, <2>1, <3>2 DEF ClientIInv, Accounted
    <3> QED BY <3>1, <3>2
  <2> QED BY <1>1, <2>1 DEF Accounted
<1>10. Planned'
  BY <1>1, <1>2, <1>4 DEF ClientIInv, Planned
<1> QED BY <1>4, <1>5, <1>6, <1>7, <1>8, <1>9, <1>10 DEF ClientIInv

LEMMA FireStep ==
  ASSUME ClientIInv, IInv', NEW s \in Slots, NEW c \in Callers, Fire(s, c) PROVE ClientIInv'
<1> DEFINE old == job[s]
           new == [old EXCEPT !.caller = c]
<1>1. /\ job[s] # NoJob /\ job[s].caller = NoCaller
      /\ Submit(c, [req |-> job[s].req, user |-> buyer[job[s].req]])
      /\ job' = [job EXCEPT ![s] = new] /\ Disturb
      /\ UNCHANGED <<phase, plan, buyer, left, results>>
  BY DEF Fire, planVars
<1>2. old \in Job
  BY <1>1, JobType
<1>3. phase = "load" /\ at[Checker] = "idle"
  BY <1>1 DEF ClientIInv, ClientTypeOK, Phases
<1> HIDE DEF old
<1>4. new \in Job /\ new.req = old.req /\ new.caller = c
  BY <1>2 DEF Job
<1>5. new # NoJob
  BY <1>4, NoJobAssumption
<1> HIDE DEF new
<1>6. job' \in [Slots -> Job \cup {NoJob}] /\ job'[s] = new
      /\ \A t \in Slots : t # s => job'[t] = job[t]
  BY <1>1, <1>4 DEF ClientIInv, ClientTypeOK
<1>7. /\ pending[c] = NoBuy /\ UNCHANGED <<sold, sales, answers>>
      /\ pending'[c] = [req |-> old.req, user |-> buyer[old.req]]
      /\ \A b \in Callers : b # c => pending'[b] = pending[b]
  BY <1>1 DEF IInv, TypeOK, Submit, old
<1>8. StatusTypeOK' /\ StatusesSound' /\ Counting' /\ UNCHANGED <<report, at>>
  BY <1>1, <1>7, StatusDisturbed
<1>9. ClientTypeOK' /\ left' \in [Reqs -> Nat]
  BY <1>1, <1>6, <1>8 DEF ClientIInv, ClientTypeOK, IInv
<1>10. Waiting'
  <2>1. \A t \in Slots : job[t] # NoJob /\ job[t].caller # NoCaller =>
           job[t].caller \in Callers /\ job[t].caller # c
    BY <1>7, JobType DEF ClientIInv, Waiting
  <2>2. pending'[c] # NoBuy /\ pending'[c].req = new.req
    <3>1. old.req \in Reqs /\ buyer[old.req] \in Users
      BY <1>2 DEF Job, ClientIInv, ClientTypeOK
    <3>2. pending'[c] \in Buy /\ pending'[c].req = old.req
      BY <1>7, <3>1 DEF Buy
    <3> QED BY <1>4, <3>2, NoBuyAssumption
  <2>3. \A t \in Slots : job'[t] # NoJob /\ job'[t].caller # NoCaller =>
           /\ pending'[job'[t].caller] # NoBuy
           /\ pending'[job'[t].caller].req = job'[t].req
    BY <1>4, <1>6, <1>7, <2>1, <2>2 DEF ClientIInv, Waiting
  <2>4. \A t, u \in Slots :
           /\ job'[t] # NoJob /\ job'[t].caller # NoCaller
           /\ job'[u] # NoJob /\ job'[u].caller = job'[t].caller
           => t = u
    BY <1>4, <1>6, <2>1 DEF ClientIInv, Waiting
  <2> QED BY <2>3, <2>4 DEF Waiting
<1>11. Phases'
  BY <1>1, <1>3, <1>8 DEF Phases
<1>12. Answered'
  BY <1>1, <1>7 DEF ClientIInv, Answered
<1>13. Accounted'
  BY <1>1, <1>4, <1>5 DEF ClientIInv, Accounted, old
<1>14. Planned'
  BY <1>1, <1>4 DEF ClientIInv, Planned, old
<1> QED BY <1>8, <1>9, <1>10, <1>11, <1>12, <1>13, <1>14 DEF ClientIInv

\* An attempt that is answered 429, or ends without an answer.
LEMMA AttemptStep ==
  ASSUME ClientIInv, IInv', NEW s \in Slots, Reject(s) \/ TimeOut(s) PROVE ClientIInv'
<1>1. /\ job[s] # NoJob /\ Freed(s, "rate_limited", NoTicket)
      /\ UNCHANGED <<sold, sales, pending, answers, phase, plan, buyer, left>>
      /\ UNCHANGED <<report, cache, at, got>>
  BY DEF Reject, TimeOut, Freed, planVars, vars, statusVars
<1>2. /\ job' \in [Slots -> Job \cup {NoJob}]
      /\ \A t \in Slots : t # s => job'[t] = job[t]
      /\ job'[s] # NoJob => job'[s].req = job[s].req /\ job'[s].caller = NoCaller
      /\ results' \subseteq RequestResult
      /\ results \subseteq results'
      /\ \/ job'[s] # NoJob
         \/ \E x \in results' : x.req = job[s].req
      /\ results' \subseteq results \cup
           {[req |-> job[s].req, status |-> "rate_limited", ticket |-> NoTicket],
            [req |-> job[s].req, status |-> "transport_error", ticket |-> NoTicket]}
  BY <1>1, FreedSlot DEF NoTicket
<1>3. StatusTypeOK' /\ StatusesSound' /\ Counting'
  BY <1>1, StatusStays
<1>4. ClientTypeOK' /\ left' \in [Reqs -> Nat]
  BY <1>1, <1>2, <1>3 DEF ClientIInv, ClientTypeOK, IInv
<1>5. Waiting'
  <2>1. \A t \in Slots : job'[t] # NoJob /\ job'[t].caller # NoCaller =>
           t # s /\ job'[t] = job[t]
    BY <1>2
  <2> QED BY <1>1, <2>1 DEF ClientIInv, Waiting
<1>6. Phases'
  <2>1. phase = "load" /\ at[Checker] = "idle"
    BY <1>1 DEF ClientIInv, ClientTypeOK, Phases
  <2> QED BY <1>1, <2>1 DEF Phases
<1>7. Answered' /\ Planned'
  BY <1>1, <1>2 DEF ClientIInv, Answered, Planned
<1>8. Accounted'
  <2> SUFFICES ASSUME NEW r \in Reqs, plan[r] > 0, ~(left[r] > 0)
               PROVE  \/ \E t \in Slots : job'[t] # NoJob /\ job'[t].req = r
                      \/ \E x \in results' : x.req = r
    BY <1>1 DEF Accounted
  <2>1. CASE \E x \in results : x.req = r
    BY <1>2, <2>1
  <2>2. CASE \E t \in Slots : job[t] # NoJob /\ job[t].req = r
    BY <1>2, <2>2
  <2> QED BY <2>1, <2>2 DEF ClientIInv, Accounted
<1> QED BY <1>3, <1>4, <1>5, <1>6, <1>7, <1>8 DEF ClientIInv

\* Steps of GET /status change nothing else, and may end the load.
LEMMA AskingStep ==
  ASSUME ClientIInv, IInv', UNCHANGED vars, UNCHANGED <<plan, buyer, left, job, results>>,
         StatusTypeOK', StatusesSound', Counting', phase' \in {phase, "done"},
         phase' = "done" <=> report' # NoStatus,
         phase' # phase \/ at'[Checker] \notin {"idle", at[Checker]} =>
            /\ phase # "start"
            /\ \A r \in Reqs : left[r] = 0
            /\ \A s \in Slots : job[s] = NoJob
  PROVE  ClientIInv'
<1>1. UNCHANGED <<sold, sales, pending, answers>>
  BY DEF vars
<1>2. ClientTypeOK' /\ left' \in [Reqs -> Nat]
  BY DEF ClientIInv, ClientTypeOK, IInv
<1>3. Waiting' /\ Answered' /\ Accounted' /\ Planned'
  BY <1>1 DEF ClientIInv, Waiting, Answered, Accounted, Planned
<1>4. Phases'
  BY <1>1 DEF ClientIInv, Phases
<1> QED BY <1>2, <1>3, <1>4 DEF ClientIInv

LEMMA HitStep == ASSUME ClientIInv, IInv', NEW g \in Getters, Hit(g) PROVE ClientIInv'
<1>1. /\ Asks(g) /\ cache # NoStatus /\ Deliver(g, cache)
      /\ at' = [at EXCEPT ![g] = "done"]
      /\ UNCHANGED <<vars, plan, buyer, left, job, results, cache, got>>
  BY DEF Hit, planVars
<1>2. /\ at[g] = "idle" /\ at'[g] = "done"
      /\ \A h \in Getters : h # g => at'[h] = at[h]
      /\ report' \in {report, cache}
  BY <1>1 DEF Asks, Deliver, ClientIInv, ClientTypeOK, StatusTypeOK
<1>3. StatusTypeOK'
  BY <1>1, <1>2 DEF ClientIInv, ClientTypeOK, StatusTypeOK
<1>4. StatusesSound'
  <2>1. Statuses' \subseteq Statuses
    BY <1>1, <1>2 DEF Statuses
  <2> QED BY <1>1, <2>1, StatusesStay DEF vars
<1>5. Counting'
  BY <1>1 DEF ClientIInv, Counting, vars
<1>6. /\ phase' \in {phase, "done"}
      /\ phase' = "done" <=> report' # NoStatus
      /\ phase' # phase \/ at'[Checker] \notin {"idle", at[Checker]} =>
            /\ phase # "start"
            /\ \A r \in Reqs : left[r] = 0
            /\ \A s \in Slots : job[s] = NoJob
  BY <1>1 DEF Asks, Deliver, ClientIInv, ClientTypeOK
<1> QED BY <1>1, <1>3, <1>4, <1>5, <1>6, AskingStep

LEMMA CountStep == ASSUME ClientIInv, IInv', NEW g \in Getters, StatusCount(g) PROVE ClientIInv'
<1> DEFINE b == \E c \in Callers : pending[c] # NoBuy
           new == [count |-> sold, rows |-> {}, busy |-> b]
<1>1. /\ Asks(g) /\ at' = [at EXCEPT ![g] = "count"] /\ got' = [got EXCEPT ![g] = new]
      /\ UNCHANGED <<vars, phase, plan, buyer, left, job, results, report, cache>>
  BY DEF StatusCount, clientVars
<1>2. sold \in 0 .. Total /\ sold \in Nat
  BY DEF ClientIInv, IInv, TypeOK
<1>3. b \in BOOLEAN
  OBVIOUS
<1>4. ~b => \A c \in Callers : pending[c] = NoBuy
  OBVIOUS
<1> HIDE DEF b
<1>5. new \in Status /\ new # NoStatus /\ new.count = sold /\ new.busy = b
  <2>1. new \in Status
    BY <1>2, <1>3 DEF Status
  <2> QED BY <2>1, CheckerAssumption
<1> HIDE DEF new
<1>6. /\ at[g] = "idle" /\ at'[g] = "count" /\ got'[g] = new
      /\ \A h \in Getters : h # g => at'[h] = at[h] /\ got'[h] = got[h]
  BY <1>1 DEF Asks, ClientIInv, ClientTypeOK, StatusTypeOK
<1>7. StatusTypeOK'
  BY <1>1, <1>5 DEF ClientIInv, ClientTypeOK, StatusTypeOK
<1>8. StatusesSound'
  <2>1. Statuses' \subseteq Statuses
    BY <1>1, <1>6 DEF Statuses
  <2> QED BY <1>1, <2>1, StatusesStay DEF vars
<1>9. Counting'
  BY <1>1, <1>2, <1>4, <1>5, <1>6 DEF ClientIInv, Counting, vars
<1>10. /\ phase' = "done" <=> report' # NoStatus
       /\ at'[Checker] \notin {"idle", at[Checker]} =>
            /\ phase # "start"
            /\ \A r \in Reqs : left[r] = 0
            /\ \A s \in Slots : job[s] = NoJob
  BY <1>1 DEF Asks, ClientIInv, ClientTypeOK
<1> QED BY <1>1, <1>7, <1>8, <1>9, <1>10, AskingStep

LEMMA RowsStep == ASSUME ClientIInv, IInv', NEW g \in Getters, StatusRows(g) PROVE ClientIInv'
<1> DEFINE old == got[g]
           new == [old EXCEPT !.rows = sales]
<1>1. /\ at[g] = "count" /\ at' = [at EXCEPT ![g] = "rows"] /\ got' = [got EXCEPT ![g] = new]
      /\ UNCHANGED <<vars, phase, plan, buyer, left, job, results, report, cache>>
  BY DEF StatusRows, clientVars
<1>2. /\ sales \subseteq Sale /\ sold \in 0 .. Total /\ {s.ticket : s \in sales} = 1 .. sold
      /\ \A s, u \in sales : s.ticket = u.ticket => s = u
      /\ Cardinality(sales) = sold
  BY LedgerCardinality DEF ClientIInv, IInv, TypeOK, GaplessLedger
<1>3. old \in Status /\ old.count \in 0 .. Total /\ (~old.busy => old.count = sold)
  BY <1>1 DEF ClientIInv, ClientTypeOK, StatusTypeOK, Counting
<1> HIDE DEF old
<1>4. /\ new \in Status /\ new.count = old.count /\ new.busy = old.busy /\ new.rows = sales
      /\ new # NoStatus
  <2>1. new \in Status
    BY <1>2, <1>3 DEF Status
  <2> QED BY <2>1, CheckerAssumption
<1> HIDE DEF new
<1>5. Sound(new)
  BY <1>2, <1>3, <1>4 DEF Sound
<1>6. /\ at'[g] = "rows" /\ got'[g] = new
      /\ \A h \in Getters : h # g => at'[h] = at[h] /\ got'[h] = got[h]
  BY <1>1 DEF ClientIInv, ClientTypeOK, StatusTypeOK
<1>7. StatusTypeOK'
  BY <1>1, <1>4 DEF ClientIInv, ClientTypeOK, StatusTypeOK
<1>8. StatusesSound'
  <2>1. \A st \in Statuses' : st \in Statuses \/ st = new
    BY <1>1, <1>6 DEF Statuses
  <2>2. ASSUME NEW st \in Statuses' PROVE Sound(st)'
    <3>1. Sound(st)
      BY <1>5, <2>1 DEF ClientIInv, StatusesSound
    <3> QED BY <1>1, <3>1 DEF Sound, vars
  <2> QED BY <2>2 DEF StatusesSound
<1>9. Counting'
  BY <1>1, <1>6 DEF ClientIInv, Counting, vars
<1>10. /\ phase' = "done" <=> report' # NoStatus
       /\ at'[Checker] \notin {"idle", at[Checker]} =>
            /\ phase # "start"
            /\ \A r \in Reqs : left[r] = 0
            /\ \A s \in Slots : job[s] = NoJob
  BY <1>1 DEF ClientIInv, ClientTypeOK, Phases
<1> QED BY <1>1, <1>7, <1>8, <1>9, <1>10, AskingStep

LEMMA StoreStep == ASSUME ClientIInv, IInv', NEW g \in Getters, Store(g) PROVE ClientIInv'
<1>1. /\ at[g] = "rows" /\ cache' \in {got[g], cache} /\ Deliver(g, got[g])
      /\ at' = [at EXCEPT ![g] = "done"] /\ got' = [got EXCEPT ![g] = NoStatus]
      /\ UNCHANGED <<vars, plan, buyer, left, job, results>>
  BY DEF Store, planVars
<1>2. /\ at'[g] = "done" /\ got'[g] = NoStatus
      /\ got[g] \in Status /\ got[g] # NoStatus
      /\ \A h \in Getters : h # g => at'[h] = at[h] /\ got'[h] = got[h]
      /\ report' \in {report, got[g]}
  BY <1>1 DEF Deliver, ClientIInv, ClientTypeOK, StatusTypeOK
<1>3. StatusTypeOK'
  BY <1>1, <1>2 DEF ClientIInv, ClientTypeOK, StatusTypeOK
<1>4. StatusesSound'
  <2>1. Statuses' \subseteq Statuses
    BY <1>1, <1>2 DEF Statuses
  <2> QED BY <1>1, <2>1, StatusesStay DEF vars
<1>5. Counting'
  BY <1>1 DEF ClientIInv, Counting, vars
<1>6. /\ phase' \in {phase, "done"}
      /\ phase' = "done" <=> report' # NoStatus
      /\ phase' # phase \/ at'[Checker] \notin {"idle", at[Checker]} =>
            /\ phase # "start"
            /\ \A r \in Reqs : left[r] = 0
            /\ \A s \in Slots : job[s] = NoJob
  BY <1>1, <1>2 DEF Deliver, ClientIInv, ClientTypeOK, Phases
<1> QED BY <1>1, <1>3, <1>4, <1>5, <1>6, AskingStep

LEMMA DropStep == ASSUME ClientIInv, IInv', DropEntry PROVE ClientIInv'
<1>1. /\ cache' = NoStatus
      /\ UNCHANGED <<vars, phase, plan, buyer, left, job, results, report, at, got>>
  BY DEF DropEntry, clientVars
<1>2. StatusTypeOK' /\ Counting'
  BY <1>1 DEF ClientIInv, ClientTypeOK, StatusTypeOK, Counting, vars
<1>3. StatusesSound'
  <2>1. Statuses' \subseteq Statuses
    BY <1>1 DEF Statuses
  <2> QED BY <1>1, <2>1, StatusesStay DEF vars
<1>4. phase' = "done" <=> report' # NoStatus
  BY <1>1 DEF ClientIInv, ClientTypeOK
<1> QED BY <1>1, <1>2, <1>3, <1>4, AskingStep

LEMMA NextClientIInv == ClientIInv /\ [ClientNext]_allVars => ClientIInv'
<1> SUFFICES ASSUME ClientIInv, [ClientNext]_allVars PROVE ClientIInv'
  OBVIOUS
<1>1. IInv'
  BY ClientIsCaller, NextIInv DEF ClientIInv
<1>2. ASSUME NEW c \in Callers, NEW r \in Reqs, Leftover(c, r) PROVE ClientIInv'
  BY <1>1, <1>2, LeftoverStep
<1>3. CASE Start
  BY <1>1, <1>3, StartStep
<1>4. ASSUME NEW s \in Slots, SlotStep(s) \/ Reject(s) \/ TimeOut(s) PROVE ClientIInv'
  BY <1>1, <1>4, TakeStep, FireStep, AttemptStep DEF SlotStep
<1>5. ASSUME NEW c \in Callers, Serve(c) PROVE ClientIInv'
  BY <1>1, <1>5, ServeStep
<1>6. ASSUME NEW g \in Getters, GetStep(g) PROVE ClientIInv'
  BY <1>1, <1>6, HitStep, CountStep, RowsStep, StoreStep DEF GetStep
<1>7. CASE DropEntry
  BY <1>1, <1>7, DropStep
<1>8. CASE Finished \/ UNCHANGED allVars
  <2>1. UNCHANGED vars /\ UNCHANGED <<phase, plan, buyer, left, job, results>>
        /\ UNCHANGED <<report, cache, at, got>>
    BY <1>8 DEF Finished, allVars, clientVars, statusVars
  <2>2. StatusTypeOK' /\ StatusesSound' /\ Counting'
    BY <2>1, StatusStays DEF vars
  <2>3. phase' = "done" <=> report' # NoStatus
    BY <2>1 DEF ClientIInv, ClientTypeOK
  <2> QED BY <1>1, <2>1, <2>2, <2>3, AskingStep
<1> QED BY <1>2, <1>3, <1>4, <1>5, <1>6, <1>7, <1>8 DEF ClientNext

\* The inductive invariant holds in every reachable state; the theorems below are
\* its parts and consequences.
THEOREM ClientInvariantHolds == ClientSpec => []ClientIInv
  BY InitClientIInv, NextClientIInv, PTL DEF ClientSpec

\* Every reachable state of the load clients is well typed; no send of fire_one
\* is tried more than MaxRetries + 1 times.
THEOREM ClientTypeCorrect == ClientSpec => []ClientTypeOK
  BY ClientInvariantHolds, PTL DEF ClientIInv

\* However the clients lose, retry and give up, the service sees nothing but
\* buys and resets: what holds of TicketService holds in front of them.
THEOREM ClientUsesService == ClientSpec => Spec
<1>1. ClientInit => Init
  BY DEF ClientInit
<1> QED BY <1>1, ClientInvariantHolds, ClientIsCaller, PTL DEF ClientSpec, Spec

\* check_invariants raises no alarm about INV1, INV2 or INV3 on a service that
\* keeps its contract.
THEOREM NeverFalseAlarm == ClientSpec => []NoFalseAlarm
  BY ClientInvariantHolds, VerdictIsRight, PTL

\* An alarm about INV4 on such a service comes from a status between whose reads a
\* buy or a reset was running, the checker's own or one it was served from the cache.
THEOREM BookkeepingAlarmExplained == ClientSpec => []AlarmIsTornRead
  BY ClientInvariantHolds, VerdictIsRight, PTL

\* No ticket sold to the plan is unknown to the client, and none of its req_ids
\* on record was ever told "sold_out".
THEOREM TicketsAccountedFor == ClientSpec => []NoTicketLost
  BY ClientInvariantHolds, VerdictIsRight, PTL
==============================================================================

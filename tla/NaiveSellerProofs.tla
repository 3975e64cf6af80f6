-------------------------- MODULE NaiveSellerProofs --------------------------
(***************************************************************************)
(* What the naive seller keeps without a lock, for every number of         *)
(* threads, requests, tickets and resets.  The inductive invariant adds to *)
(* the properties of NaiveSeller what the threads between two steps know:  *)
(* how many of them may still sell, and which numbers were granted.        *)
(***************************************************************************)
EXTENDS NaiveSeller, FiniteSetTheorems, TLAPS

Buy == [req : Reqs, user : Users]

TypeOK ==
    /\ sold_count \in Nat
    /\ processed_requests \in [Reqs -> Nat]
    /\ pc \in [Threads -> {"idle", "start", "member", "checked", "gated", "loaded",
                           "stored", "counted", "recorded",
                           "reset requests", "reset users"}]
    /\ buy \in [Threads -> Buy \cup {NoBuy}]
    /\ already_processed \in [Threads -> BOOLEAN]
    /\ ticket_number \in [Threads -> Nat]
    /\ sold_out \in [Threads -> BOOLEAN]
    /\ resets \in 0 .. MaxResets
    /\ late \in [Threads -> BOOLEAN]
    /\ told \in [Threads -> SUBSET Nat]
    /\ torn \in BOOLEAN
    /\ \A a \in answers : a.ticket \in Nat

InBuy(t) == pc[t] \notin {"idle", "reset requests", "reset users"}

\* A thread that executes buy() has a request.
BuyKnown == \A t \in Threads : InBuy(t) => buy[t] \in Buy

\* The threads that have seen stock and not sold yet.
Armed == {t \in Threads : (pc[t] = "gated" /\ ~sold_out[t]) \/ pc[t] = "loaded"}

\* What is sold and what may be sold without another look at the stock.
ArmedBounded ==
    ~torn => sold_count + Cardinality(Armed) <= Total + Cardinality(Threads) - 1

\* While sold_count only grows it is at least every number answered, and the number
\* that a buy reads back, after its own increment, is above those it arrived after.
NumbersGrow ==
    ~torn /\ resets = MaxResets =>
        /\ \A a \in answers : a.status = "success" => a.ticket <= sold_count
        /\ \A t \in Threads :
            /\ pc[t] \in {"counted", "recorded"} => ticket_number[t] <= sold_count
            /\ \A n \in told[t] :
                /\ n <= sold_count
                /\ pc[t] = "stored" => n < sold_count
                /\ pc[t] \in {"counted", "recorded"} => n < ticket_number[t]

\* Every number that is remembered for a request was granted to it.
GrantsRemembered ==
    /\ \A r \in Reqs :
           processed_requests[r] # NoTicket => <<r, processed_requests[r]>> \in granted
    /\ \A t \in Threads :
           pc[t] = "counted" \/ (pc[t] = "checked" /\ ticket_number[t] # NoTicket) =>
               <<buy[t].req, ticket_number[t]>> \in granted

\* Until the first reset a sale leaves a number greater than 0 behind, in
\* sold_count, in the thread and in processed_requests, ...
SalesRemembered ==
    resets = MaxResets =>
        /\ \A t \in Threads :
            /\ pc[t] \notin {"reset requests", "reset users"}
            /\ pc[t] = "stored" => sold_count > 0
            /\ pc[t] = "counted" => ticket_number[t] > 0
            /\ pc[t] = "recorded" \/ (pc[t] = "start" /\ late[t]) =>
                   processed_requests[buy[t].req] # NoTicket
        \* ... where a request that was answered "success" stays.
        /\ \A a \in answers :
            a.status = "success" => a.req \in Reqs /\ processed_requests[a.req] # NoTicket

IInv ==
    /\ TypeOK /\ BuyKnown
    /\ ArmedBounded /\ NumbersGrow
    /\ GrantsRemembered /\ ReplayNamesAGrant
    /\ SalesRemembered /\ LateRetrySafe

-----------------------------------------------------------------------------
(* The threads that may still sell                                         *)

LEMMA ArmedFinite ==
  IsFiniteSet(Armed) /\ Cardinality(Armed) \in Nat /\ Cardinality(Threads) \in Nat
  /\ Cardinality(Armed) <= Cardinality(Threads)
  BY ThreadsAssumption, FS_Subset, FS_CardinalityType DEF Armed

\* A step that arms no thread and sells nothing.
LEMMA ArmedStays ==
  ASSUME IInv, UNCHANGED torn,
         sold_count' \in {sold_count, 0}, Armed' \subseteq Armed
  PROVE  ArmedBounded'
<1> SUFFICES ASSUME ~torn PROVE ArmedBounded'
  BY DEF ArmedBounded
<1>1. IsFiniteSet(Armed') /\ Cardinality(Armed') \in Nat
      /\ Cardinality(Armed') <= Cardinality(Armed)
  BY ArmedFinite, FS_Subset, FS_CardinalityType
<1>2. sold_count \in Nat
      /\ sold_count + Cardinality(Armed) <= Total + Cardinality(Threads) - 1
  BY DEF IInv, TypeOK, ArmedBounded
<1>3. sold_count' + Cardinality(Armed') <= Total + Cardinality(Threads) - 1
  BY <1>1, <1>2, ArmedFinite, TotalAssumption
<1> QED BY <1>3 DEF ArmedBounded

LEMMA ArriveStep ==
  ASSUME IInv, NEW t \in Threads, NEW r \in Reqs, NEW u \in Users,
         Arrive(t, r, u)
  PROVE  IInv'
<1> USE DEF Arrive, Goto, shared, locals, history
<1>1. TypeOK'
  BY ZenonT(30) DEF IInv, TypeOK, Buy
<1>2. BuyKnown'
  BY DEF IInv, TypeOK, BuyKnown, InBuy, Buy
<1>3. NumbersGrow'
  BY DEF IInv, NumbersGrow
<1>4. GrantsRemembered'
  BY DEF IInv, GrantsRemembered
<1>5. ReplayNamesAGrant'
  BY DEF IInv, ReplayNamesAGrant
<1>6. SalesRemembered'
  BY ZenonT(30) DEF IInv, TypeOK, SalesRemembered
<1>7. LateRetrySafe'
  BY DEF IInv, TypeOK, LateRetrySafe
<1>8. ArmedBounded'
  <2>1. Armed' \subseteq Armed
    BY DEF Armed
  <2> QED BY <2>1, ArmedStays
<1> QED BY <1>1, <1>2, <1>3, <1>4, <1>5, <1>6, <1>7, <1>8 DEF IInv

LEMMA CheckRequestStep ==
  ASSUME IInv, NEW t \in Threads, CheckRequest(t)
  PROVE  IInv'
<1> USE DEF CheckRequest, Goto, shared, locals, history
<1>1. TypeOK'
  BY DEF IInv, TypeOK
<1>2. BuyKnown'
  BY DEF IInv, TypeOK, BuyKnown, InBuy
<1>3. NumbersGrow'
  BY DEF IInv, NumbersGrow
<1>4. GrantsRemembered'
  BY DEF IInv, GrantsRemembered
<1>5. ReplayNamesAGrant'
  BY DEF IInv, ReplayNamesAGrant
<1>6. SalesRemembered'
  BY DEF IInv, TypeOK, SalesRemembered
<1>7. LateRetrySafe'
  <2>1. already_processed'[t] = (processed_requests[buy[t].req] # NoTicket)
        /\ \A s \in Threads : s # t => already_processed'[s] = already_processed[s]
    BY DEF IInv, TypeOK
  <2>2. pc'[t] = "member" /\ \A s \in Threads : s # t => pc'[s] = pc[s]
    BY DEF IInv, TypeOK
  <2>3. resets = MaxResets /\ late[t] => processed_requests[buy[t].req] # NoTicket
    BY DEF IInv, SalesRemembered
  <2> QED BY <2>1, <2>2, <2>3 DEF IInv, LateRetrySafe
<1>8. ArmedBounded'
  <2>1. Armed' \subseteq Armed
    BY DEF Armed
  <2> QED BY <2>1, ArmedStays
<1> QED BY <1>1, <1>2, <1>3, <1>4, <1>5, <1>6, <1>7, <1>8 DEF IInv

LEMMA GetTicketStep ==
  ASSUME IInv, NEW t \in Threads, GetTicket(t)
  PROVE  IInv'
<1> USE DEF GetTicket, Goto, shared, locals, history
<1>1. TypeOK'
  BY DEF IInv, TypeOK, BuyKnown, InBuy, Buy
<1>2. BuyKnown'
  BY DEF IInv, TypeOK, BuyKnown, InBuy
<1>3. NumbersGrow'
  BY DEF IInv, NumbersGrow
<1>4. GrantsRemembered'
  BY DEF IInv, TypeOK, GrantsRemembered, BuyKnown, InBuy, Buy
<1>5. ReplayNamesAGrant'
  BY DEF IInv, ReplayNamesAGrant
<1>6. SalesRemembered'
  BY DEF IInv, TypeOK, SalesRemembered
<1>7. LateRetrySafe'
  BY DEF IInv, LateRetrySafe
<1>8. ArmedBounded'
  <2>1. Armed' \subseteq Armed
    BY DEF Armed
  <2> QED BY <2>1, ArmedStays
<1> QED BY <1>1, <1>2, <1>3, <1>4, <1>5, <1>6, <1>7, <1>8 DEF IInv

LEMMA AnswerReplayStep ==
  ASSUME IInv, NEW t \in Threads, AnswerReplay(t)
  PROVE  IInv'
<1> USE DEF AnswerReplay, Goto, shared, locals, history, Respond
<1>1. TypeOK'
  <2> DEFINE new == [thread |-> t, req |-> buy[t].req, status |-> "already_processed",
                     ticket |-> ticket_number[t]]
  <2>1. answers' = answers \cup {new} /\ new.ticket = ticket_number[t]
    OBVIOUS
  <2> HIDE DEF new
  <2>2. \A a \in answers' : a.ticket \in Nat
    BY <2>1 DEF IInv, TypeOK
  <2> QED BY <2>2 DEF IInv, TypeOK, NoTicket
<1>2. BuyKnown'
  BY DEF IInv, TypeOK, BuyKnown, InBuy
<1>3. NumbersGrow'
  <2> SUFFICES ASSUME ~torn, resets = MaxResets PROVE NumbersGrow'
    BY DEF NumbersGrow
  <2>1. \A a \in answers' : a.status = "success" => a.ticket <= sold_count
    BY DEF IInv, NumbersGrow
  <2>2. ASSUME NEW s \in Threads
        PROVE  /\ pc'[s] \in {"counted", "recorded"} => ticket_number'[s] <= sold_count
               /\ \A n \in told'[s] :
                   /\ n <= sold_count
                   /\ pc'[s] = "stored" => n < sold_count
                   /\ pc'[s] \in {"counted", "recorded"} => n < ticket_number'[s]
    BY DEF IInv, NumbersGrow
  <2> QED BY <2>1, <2>2 DEF NumbersGrow
<1>4. GrantsRemembered'
  BY DEF IInv, TypeOK, GrantsRemembered
<1>5. ReplayNamesAGrant'
  <2> SUFFICES ASSUME NEW a \in answers', a.status = "already_processed",
                      a.ticket # NoTicket
               PROVE  <<a.req, a.ticket>> \in granted
    BY DEF ReplayNamesAGrant
  <2>1. CASE a \in answers
    BY <2>1 DEF IInv, ReplayNamesAGrant
  <2>2. CASE a = [thread |-> t, req |-> buy[t].req,
                        status |-> "already_processed", ticket |-> ticket_number[t]]
    BY <2>2 DEF IInv, GrantsRemembered
  <2> QED BY <2>1, <2>2
<1>6. SalesRemembered'
  <2> SUFFICES ASSUME resets = MaxResets PROVE SalesRemembered'
    BY DEF SalesRemembered
  <2>1. pc'[t] = "idle"
    BY DEF IInv, TypeOK
  <2>2. ASSUME NEW a \in answers', a.status = "success"
        PROVE  a.req \in Reqs /\ processed_requests[a.req] # NoTicket
    <3>1. CASE a \in answers
      BY <2>2, <3>1 DEF IInv, SalesRemembered
    <3>2. CASE a = [thread |-> t, req |-> buy[t].req,
                        status |-> "already_processed", ticket |-> ticket_number[t]]
      BY <2>2, <3>2
    <3> QED BY <3>1, <3>2
  <2>3. ASSUME NEW s \in Threads
        PROVE  /\ pc'[s] \notin {"reset requests", "reset users"}
               /\ pc'[s] = "stored" => sold_count' > 0
               /\ pc'[s] = "counted" => ticket_number'[s] > 0
               /\ pc'[s] = "recorded" \/ (pc'[s] = "start" /\ late'[s]) =>
                      processed_requests'[buy'[s].req] # NoTicket
    <3>1. CASE s = t
      BY <2>1, <3>1
    <3>2. CASE s # t
      <4>1. /\ pc'[s] = pc[s] /\ buy'[s] = buy[s]
            /\ ticket_number'[s] = ticket_number[s] /\ late'[s] = late[s]
        BY <3>2
      <4>2. /\ pc[s] \notin {"reset requests", "reset users"}
            /\ pc[s] = "stored" => sold_count > 0
            /\ pc[s] = "counted" => ticket_number[s] > 0
            /\ pc[s] = "recorded" \/ (pc[s] = "start" /\ late[s]) =>
                   processed_requests[buy[s].req] # NoTicket
        BY DEF IInv, SalesRemembered
      <4> QED BY <4>1, <4>2
    <3> QED BY <3>1, <3>2
  <2> QED BY <2>2, <2>3 DEF SalesRemembered
<1>7. LateRetrySafe'
  BY DEF IInv, TypeOK, LateRetrySafe
<1>8. ArmedBounded'
  <2>1. Armed' \subseteq Armed
    BY DEF Armed
  <2> QED BY <2>1, ArmedStays
<1> QED BY <1>1, <1>2, <1>3, <1>4, <1>5, <1>6, <1>7, <1>8 DEF IInv

LEMMA CheckStockStep ==
  ASSUME IInv, NEW t \in Threads, CheckStock(t)
  PROVE  IInv'
<1> USE DEF CheckStock, Goto, shared, locals, history
<1>1. TypeOK'
  <2>1. (sold_count >= Total) \in BOOLEAN
    OBVIOUS
  <2> QED BY <2>1 DEF IInv, TypeOK
<1>2. BuyKnown'
  BY DEF IInv, TypeOK, BuyKnown, InBuy
<1>3. NumbersGrow'
  BY DEF IInv, NumbersGrow
<1>4. GrantsRemembered'
  BY DEF IInv, GrantsRemembered
<1>5. ReplayNamesAGrant'
  BY DEF IInv, ReplayNamesAGrant
<1>6. SalesRemembered'
  BY DEF IInv, TypeOK, SalesRemembered
<1>7. LateRetrySafe'
  BY DEF IInv, LateRetrySafe
<1>8. ArmedBounded'
  <2> SUFFICES ASSUME ~torn PROVE ArmedBounded'
    BY DEF ArmedBounded
  <2>1. CASE sold_count >= Total
    <3>1. /\ sold_out'[t]
          /\ \A s \in Threads : s # t => pc'[s] = pc[s] /\ sold_out'[s] = sold_out[s]
      BY <2>1 DEF IInv, TypeOK
    <3>2. Armed' \subseteq Armed
      BY <3>1 DEF Armed
    <3> QED BY <3>2, ArmedStays
  <2>2. CASE ~(sold_count >= Total)
    <3>1. sold_count \in Nat /\ sold_count' = sold_count
      BY DEF IInv, TypeOK
    <3>2. sold_count <= Total - 1
      BY <2>2, <3>1, TotalAssumption
    <3>3. Cardinality(Armed') <= Cardinality(Threads) /\ Cardinality(Armed') \in Nat
      BY ThreadsAssumption, FS_Subset, FS_CardinalityType DEF Armed
    <3>4. Cardinality(Threads) \in Nat
      BY ArmedFinite
    <3> QED BY <3>1, <3>2, <3>3, <3>4, TotalAssumption DEF ArmedBounded
  <2> QED BY <2>1, <2>2
<1> QED BY <1>1, <1>2, <1>3, <1>4, <1>5, <1>6, <1>7, <1>8 DEF IInv

LEMMA AnswerSoldOutStep ==
  ASSUME IInv, NEW t \in Threads, AnswerSoldOut(t)
  PROVE  IInv'
<1> USE DEF AnswerSoldOut, Goto, shared, locals, history, Respond
<1>1. TypeOK'
  <2> DEFINE new == [thread |-> t, req |-> buy[t].req, status |-> "sold_out",
                     ticket |-> NoTicket]
  <2>1. answers' = answers \cup {new} /\ new.ticket = NoTicket
    OBVIOUS
  <2>2. NoTicket \in Nat
    BY DEF NoTicket
  <2> HIDE DEF new
  <2>3. \A a \in answers' : a.ticket \in Nat
    BY <2>1, <2>2 DEF IInv, TypeOK
  <2> QED BY <2>3 DEF IInv, TypeOK, NoTicket
<1>2. BuyKnown'
  BY DEF IInv, TypeOK, BuyKnown, InBuy
<1>3. NumbersGrow'
  <2> SUFFICES ASSUME ~torn, resets = MaxResets PROVE NumbersGrow'
    BY DEF NumbersGrow
  <2>1. \A a \in answers' : a.status = "success" => a.ticket <= sold_count
    BY DEF IInv, NumbersGrow
  <2>2. ASSUME NEW s \in Threads
        PROVE  /\ pc'[s] \in {"counted", "recorded"} => ticket_number'[s] <= sold_count
               /\ \A n \in told'[s] :
                   /\ n <= sold_count
                   /\ pc'[s] = "stored" => n < sold_count
                   /\ pc'[s] \in {"counted", "recorded"} => n < ticket_number'[s]
    BY DEF IInv, NumbersGrow
  <2> QED BY <2>1, <2>2 DEF NumbersGrow
<1>4. GrantsRemembered'
  BY DEF IInv, GrantsRemembered
<1>5. ReplayNamesAGrant'
  <2> SUFFICES ASSUME NEW a \in answers', a.status = "already_processed",
                      a.ticket # NoTicket
               PROVE  <<a.req, a.ticket>> \in granted
    BY DEF ReplayNamesAGrant
  <2>1. CASE a \in answers
    BY DEF IInv, ReplayNamesAGrant
  <2>2. CASE a = [thread |-> t, req |-> buy[t].req,
                        status |-> "sold_out", ticket |-> NoTicket]
    BY <2>2
  <2> QED BY <2>1
<1>6. SalesRemembered'
  <2> SUFFICES ASSUME resets = MaxResets PROVE SalesRemembered'
    BY DEF SalesRemembered
  <2>1. pc'[t] = "idle"
    BY DEF IInv, TypeOK
  <2>2. ASSUME NEW a \in answers', a.status = "success"
        PROVE  a.req \in Reqs /\ processed_requests[a.req] # NoTicket
    <3>1. CASE a \in answers
      BY <2>2, <3>1 DEF IInv, SalesRemembered
    <3>2. CASE a = [thread |-> t, req |-> buy[t].req,
                        status |-> "sold_out", ticket |-> NoTicket]
      BY <2>2, <3>2
    <3> QED BY <3>1, <3>2
  <2>3. ASSUME NEW s \in Threads
        PROVE  /\ pc'[s] \notin {"reset requests", "reset users"}
               /\ pc'[s] = "stored" => sold_count' > 0
               /\ pc'[s] = "counted" => ticket_number'[s] > 0
               /\ pc'[s] = "recorded" \/ (pc'[s] = "start" /\ late'[s]) =>
                      processed_requests'[buy'[s].req] # NoTicket
    <3>1. CASE s = t
      BY <2>1, <3>1
    <3>2. CASE s # t
      <4>1. /\ pc'[s] = pc[s] /\ buy'[s] = buy[s]
            /\ ticket_number'[s] = ticket_number[s] /\ late'[s] = late[s]
        BY <3>2
      <4>2. /\ pc[s] \notin {"reset requests", "reset users"}
            /\ pc[s] = "stored" => sold_count > 0
            /\ pc[s] = "counted" => ticket_number[s] > 0
            /\ pc[s] = "recorded" \/ (pc[s] = "start" /\ late[s]) =>
                   processed_requests[buy[s].req] # NoTicket
        BY DEF IInv, SalesRemembered
      <4> QED BY <4>1, <4>2
    <3> QED BY <3>1, <3>2
  <2> QED BY <2>2, <2>3 DEF SalesRemembered
<1>7. LateRetrySafe'
  BY DEF IInv, LateRetrySafe
<1>8. ArmedBounded'
  <2>1. Armed' \subseteq Armed
    BY DEF IInv, TypeOK, Armed
  <2> QED BY <2>1, ArmedStays
<1> QED BY <1>1, <1>2, <1>3, <1>4, <1>5, <1>6, <1>7, <1>8 DEF IInv

LEMMA LoadCountStep ==
  ASSUME IInv, NEW t \in Threads, LoadCount(t)
  PROVE  IInv'
<1> USE DEF LoadCount, Goto, shared, locals, history
<1>1. TypeOK'
  BY DEF IInv, TypeOK
<1>2. BuyKnown'
  BY DEF IInv, TypeOK, BuyKnown, InBuy
<1>3. NumbersGrow'
  BY DEF IInv, NumbersGrow
<1>4. GrantsRemembered'
  BY DEF IInv, GrantsRemembered
<1>5. ReplayNamesAGrant'
  BY DEF IInv, ReplayNamesAGrant
<1>6. SalesRemembered'
  BY DEF IInv, TypeOK, SalesRemembered
<1>7. LateRetrySafe'
  BY DEF IInv, LateRetrySafe
<1>8. ArmedBounded'
  <2>1. Armed' \subseteq Armed
    BY DEF Armed
  <2> QED BY <2>1, ArmedStays
<1> QED BY <1>1, <1>2, <1>3, <1>4, <1>5, <1>6, <1>7, <1>8 DEF IInv

LEMMA StoreCountStep ==
  ASSUME IInv, NEW t \in Threads, StoreCount(t)
  PROVE  IInv'
<1> USE DEF StoreCount, Goto, shared, locals, history
<1>1. TypeOK'
  <2>1. ticket_number[t] \in Nat /\ sold_count' = ticket_number[t] + 1
    BY DEF IInv, TypeOK
  <2>2. sold_count' \in Nat
    BY <2>1
  <2> QED BY <2>2 DEF IInv, TypeOK
<1>2. BuyKnown'
  BY DEF IInv, TypeOK, BuyKnown, InBuy
<1>3. NumbersGrow'
  <2> SUFFICES ASSUME ~torn, sold_count = ticket_number[t], resets = MaxResets
               PROVE  NumbersGrow'
    BY DEF NumbersGrow
  <2>1. /\ \A a \in answers : a.ticket \in Nat
        /\ \A s \in Threads : ticket_number[s] \in Nat /\ told[s] \subseteq Nat
    BY DEF IInv, TypeOK
  <2>2. \A a \in answers : a.status = "success" => a.ticket <= sold_count'
    BY <2>1 DEF IInv, NumbersGrow
  <2>3. ASSUME NEW s \in Threads
        PROVE  /\ pc'[s] \in {"counted", "recorded"} => ticket_number[s] <= sold_count'
               /\ \A n \in told[s] :
                   /\ n <= sold_count'
                   /\ pc'[s] = "stored" => n < sold_count'
                   /\ pc'[s] \in {"counted", "recorded"} => n < ticket_number[s]
    BY <2>1 DEF IInv, NumbersGrow
  <2> QED BY <2>2, <2>3 DEF NumbersGrow
<1>4. GrantsRemembered'
  BY DEF IInv, GrantsRemembered
<1>5. ReplayNamesAGrant'
  BY DEF IInv, ReplayNamesAGrant
<1>6. SalesRemembered'
  <2> SUFFICES ASSUME resets = MaxResets PROVE SalesRemembered'
    BY DEF SalesRemembered
  <2>1. ticket_number[t] \in Nat /\ sold_count' = ticket_number[t] + 1
    BY DEF IInv, TypeOK
  <2>2. sold_count' > 0
    BY <2>1
  <2>3. pc'[t] = "stored" /\ \A s \in Threads : s # t => pc'[s] = pc[s]
    BY DEF IInv, TypeOK
  <2> QED BY <2>2, <2>3 DEF IInv, SalesRemembered
<1>7. LateRetrySafe'
  BY DEF IInv, LateRetrySafe
<1>8. ArmedBounded'
  <2> SUFFICES ASSUME ~torn, sold_count = ticket_number[t] PROVE ArmedBounded'
    BY DEF ArmedBounded
  <2>1. Armed' = Armed \ {t} /\ t \in Armed
    BY DEF IInv, TypeOK, Armed
  <2>2. Cardinality(Armed') = Cardinality(Armed) - 1
    BY <2>1, ArmedFinite, FS_RemoveElement
  <2>3. sold_count \in Nat /\ sold_count' = sold_count + 1
        /\ sold_count + Cardinality(Armed) <= Total + Cardinality(Threads) - 1
    BY DEF IInv, TypeOK, ArmedBounded
  <2>4. sold_count' + Cardinality(Armed') <= Total + Cardinality(Threads) - 1
    BY <2>2, <2>3, ArmedFinite
  <2> QED BY <2>4 DEF ArmedBounded
<1> QED BY <1>1, <1>2, <1>3, <1>4, <1>5, <1>6, <1>7, <1>8 DEF IInv

LEMMA ReadTicketStep ==
  ASSUME IInv, NEW t \in Threads, ReadTicket(t)
  PROVE  IInv'
<1> USE DEF ReadTicket, Goto, shared, locals, history
<1>1. TypeOK'
  BY DEF IInv, TypeOK
<1>2. BuyKnown'
  BY DEF IInv, TypeOK, BuyKnown, InBuy
<1>3. NumbersGrow'
  <2> SUFFICES ASSUME ~torn, resets = MaxResets PROVE NumbersGrow'
    BY DEF NumbersGrow
  <2>1. /\ pc[t] = "stored" /\ pc'[t] = "counted" /\ ticket_number'[t] = sold_count
        /\ \A s \in Threads : s # t => pc'[s] = pc[s] /\ ticket_number'[s] = ticket_number[s]
    BY DEF IInv, TypeOK
  <2>2. sold_count \in Nat
    BY DEF IInv, TypeOK
  <2> QED BY <2>1, <2>2 DEF IInv, NumbersGrow
<1>4. GrantsRemembered'
  BY DEF IInv, TypeOK, GrantsRemembered
<1>5. ReplayNamesAGrant'
  BY DEF IInv, ReplayNamesAGrant
<1>6. SalesRemembered'
  BY DEF IInv, TypeOK, SalesRemembered
<1>7. LateRetrySafe'
  BY DEF IInv, LateRetrySafe
<1>8. ArmedBounded'
  <2>1. Armed' \subseteq Armed
    BY DEF Armed
  <2> QED BY <2>1, ArmedStays
<1> QED BY <1>1, <1>2, <1>3, <1>4, <1>5, <1>6, <1>7, <1>8 DEF IInv

LEMMA RecordRequestStep ==
  ASSUME IInv, NEW t \in Threads, RecordRequest(t)
  PROVE  IInv'
<1> USE DEF RecordRequest, Goto, shared, locals, history
<1>1. TypeOK'
  BY DEF IInv, TypeOK
<1>2. BuyKnown'
  BY DEF IInv, TypeOK, BuyKnown, InBuy
<1>3. NumbersGrow'
  BY DEF IInv, NumbersGrow
<1>4. GrantsRemembered'
  BY DEF IInv, GrantsRemembered
<1>5. ReplayNamesAGrant'
  BY DEF IInv, ReplayNamesAGrant
<1>6. SalesRemembered'
  <2> SUFFICES ASSUME resets = MaxResets PROVE SalesRemembered'
    BY DEF SalesRemembered
  <2>1. ticket_number[t] # NoTicket /\ ticket_number[t] \in Nat
    <3>1. ticket_number[t] > 0 /\ ticket_number[t] \in Nat
      BY DEF IInv, SalesRemembered, TypeOK
    <3> QED BY <3>1 DEF NoTicket
  <2>2. pc'[t] = "recorded" /\ \A s \in Threads : s # t => pc'[s] = pc[s]
    BY DEF IInv, TypeOK
  <2>3. buy[t].req \in Reqs
    BY DEF IInv, BuyKnown, InBuy, Buy
  <2>4. /\ processed_requests'[buy[t].req] # NoTicket
        /\ \A r \in Reqs :
               processed_requests[r] # NoTicket => processed_requests'[r] # NoTicket
    BY <2>1, <2>3 DEF IInv, TypeOK
  <2>5. \A s \in Threads : InBuy(s) => buy[s].req \in Reqs
    BY DEF IInv, BuyKnown, Buy
  <2> QED BY <2>2, <2>4, <2>5 DEF IInv, SalesRemembered, InBuy
<1>7. LateRetrySafe'
  BY DEF IInv, LateRetrySafe
<1>8. ArmedBounded'
  <2>1. Armed' \subseteq Armed
    BY DEF Armed
  <2> QED BY <2>1, ArmedStays
<1> QED BY <1>1, <1>2, <1>3, <1>4, <1>5, <1>6, <1>7, <1>8 DEF IInv

LEMMA RecordUserStep ==
  ASSUME IInv, NEW t \in Threads, RecordUser(t)
  PROVE  IInv'
<1> USE DEF RecordUser, Goto, shared, locals, history, Respond
<1>1. TypeOK'
  <2> DEFINE new == [thread |-> t, req |-> buy[t].req, status |-> "success",
                     ticket |-> ticket_number[t]]
  <2>1. answers' = answers \cup {new} /\ new.ticket = ticket_number[t]
    OBVIOUS
  <2> HIDE DEF new
  <2>2. \A a \in answers' : a.ticket \in Nat
    BY <2>1 DEF IInv, TypeOK
  <2> QED BY <2>2 DEF IInv, TypeOK, NoTicket
<1>2. BuyKnown'
  BY DEF IInv, TypeOK, BuyKnown, InBuy
<1>3. NumbersGrow'
  <2> SUFFICES ASSUME ~torn, resets = MaxResets PROVE NumbersGrow'
    BY DEF NumbersGrow
  <2>1. \A a \in answers' : a.status = "success" => a.ticket <= sold_count
    BY DEF IInv, NumbersGrow
  <2>2. /\ pc'[t] = "idle" /\ told'[t] = {}
        /\ \A s \in Threads : s # t => pc'[s] = pc[s] /\ told'[s] = told[s]
                                     /\ ticket_number'[s] = ticket_number[s]
    BY DEF IInv, TypeOK
  <2>3. ASSUME NEW s \in Threads
        PROVE  /\ pc'[s] \in {"counted", "recorded"} => ticket_number'[s] <= sold_count
               /\ \A n \in told'[s] :
                   /\ n <= sold_count
                   /\ pc'[s] = "stored" => n < sold_count
                   /\ pc'[s] \in {"counted", "recorded"} => n < ticket_number'[s]
    BY <2>2 DEF IInv, NumbersGrow
  <2> QED BY <2>1, <2>3 DEF NumbersGrow
<1>4. GrantsRemembered'
  BY DEF IInv, GrantsRemembered
<1>5. ReplayNamesAGrant'
  <2> SUFFICES ASSUME NEW a \in answers', a.status = "already_processed",
                      a.ticket # NoTicket
               PROVE  <<a.req, a.ticket>> \in granted
    BY DEF ReplayNamesAGrant
  <2>1. CASE a \in answers
    BY DEF IInv, ReplayNamesAGrant
  <2>2. CASE a = [thread |-> t, req |-> buy[t].req,
                        status |-> "success", ticket |-> ticket_number[t]]
    BY <2>2
  <2> QED BY <2>1
<1>6. SalesRemembered'
  <2> SUFFICES ASSUME resets = MaxResets PROVE SalesRemembered'
    BY DEF SalesRemembered
  <2>1. pc'[t] = "idle"
    BY DEF IInv, TypeOK
  <2>2. ASSUME NEW a \in answers', a.status = "success"
        PROVE  a.req \in Reqs /\ processed_requests[a.req] # NoTicket
    <3>1. CASE a \in answers
      BY <2>2, <3>1 DEF IInv, SalesRemembered
    <3>2. CASE a = [thread |-> t, req |-> buy[t].req,
                        status |-> "success", ticket |-> ticket_number[t]]
      BY <3>2 DEF IInv, SalesRemembered, BuyKnown, InBuy, Buy
    <3> QED BY <3>1, <3>2
  <2>3. ASSUME NEW s \in Threads
        PROVE  /\ pc'[s] \notin {"reset requests", "reset users"}
               /\ pc'[s] = "stored" => sold_count' > 0
               /\ pc'[s] = "counted" => ticket_number'[s] > 0
               /\ pc'[s] = "recorded" \/ (pc'[s] = "start" /\ late'[s]) =>
                      processed_requests'[buy'[s].req] # NoTicket
    <3>1. CASE s = t
      BY <2>1, <3>1
    <3>2. CASE s # t
      <4>1. /\ pc'[s] = pc[s] /\ buy'[s] = buy[s]
            /\ ticket_number'[s] = ticket_number[s] /\ late'[s] = late[s]
        BY <3>2
      <4>2. /\ pc[s] \notin {"reset requests", "reset users"}
            /\ pc[s] = "stored" => sold_count > 0
            /\ pc[s] = "counted" => ticket_number[s] > 0
            /\ pc[s] = "recorded" \/ (pc[s] = "start" /\ late[s]) =>
                   processed_requests[buy[s].req] # NoTicket
        BY DEF IInv, SalesRemembered
      <4> QED BY <4>1, <4>2
    <3> QED BY <3>1, <3>2
  <2> QED BY <2>2, <2>3 DEF SalesRemembered
<1>7. LateRetrySafe'
  BY DEF IInv, LateRetrySafe
<1>8. ArmedBounded'
  <2>1. Armed' \subseteq Armed
    BY DEF Armed
  <2> QED BY <2>1, ArmedStays
<1> QED BY <1>1, <1>2, <1>3, <1>4, <1>5, <1>6, <1>7, <1>8 DEF IInv

LEMMA ResetCountStep ==
  ASSUME IInv, NEW t \in Threads, ResetCount(t)
  PROVE  IInv'
<1> USE DEF ResetCount, Goto, shared, locals, history
<1>1. resets \in 0 .. MaxResets /\ resets > 0 /\ resets' = resets - 1
  BY DEF IInv, TypeOK
<1>2. resets' \in 0 .. MaxResets /\ resets' # MaxResets
  <2> HIDE DEF ResetCount
  <2> QED BY <1>1, BoundsAssumption
<1>3. TypeOK'
  BY <1>2 DEF IInv, TypeOK
<1>4. BuyKnown'
  BY DEF IInv, TypeOK, BuyKnown, InBuy
<1>5. NumbersGrow'
  BY <1>2 DEF NumbersGrow
<1>6. GrantsRemembered'
  BY DEF IInv, TypeOK, GrantsRemembered
<1>7. ReplayNamesAGrant'
  BY DEF IInv, ReplayNamesAGrant
<1>8. SalesRemembered'
  BY <1>2 DEF SalesRemembered
<1>9. LateRetrySafe'
  BY <1>2 DEF LateRetrySafe
<1>10. ArmedBounded'
  <2>1. Armed' \subseteq Armed
    BY DEF IInv, TypeOK, Armed
  <2> QED BY <2>1, ArmedStays
<1> QED BY <1>3, <1>4, <1>5, <1>6, <1>7, <1>8, <1>9, <1>10 DEF IInv

LEMMA ResetRequestsStep ==
  ASSUME IInv, NEW t \in Threads, ResetRequests(t)
  PROVE  IInv'
<1> USE DEF ResetRequests, Goto, shared, locals, history
<1>1. TypeOK'
  BY DEF IInv, TypeOK, NoTicket
<1>2. BuyKnown'
  BY DEF IInv, TypeOK, BuyKnown, InBuy
<1>3. NumbersGrow'
  BY DEF IInv, TypeOK, NumbersGrow
<1>4. GrantsRemembered'
  BY DEF IInv, TypeOK, GrantsRemembered
<1>5. ReplayNamesAGrant'
  BY DEF IInv, ReplayNamesAGrant
<1>6. SalesRemembered'
  BY DEF IInv, SalesRemembered
<1>7. LateRetrySafe'
  BY DEF IInv, LateRetrySafe, SalesRemembered
<1>8. ArmedBounded'
  <2>1. Armed' \subseteq Armed
    BY DEF IInv, TypeOK, Armed
  <2> QED BY <2>1, ArmedStays
<1> QED BY <1>1, <1>2, <1>3, <1>4, <1>5, <1>6, <1>7, <1>8 DEF IInv

LEMMA ResetUsersStep ==
  ASSUME IInv, NEW t \in Threads, ResetUsers(t)
  PROVE  IInv'
<1> USE DEF ResetUsers, Goto, shared, locals, history
<1>1. TypeOK'
  BY DEF IInv, TypeOK
<1>2. BuyKnown'
  BY DEF IInv, TypeOK, BuyKnown, InBuy
<1>3. NumbersGrow'
  BY DEF IInv, TypeOK, NumbersGrow
<1>4. GrantsRemembered'
  BY DEF IInv, TypeOK, GrantsRemembered
<1>5. ReplayNamesAGrant'
  BY DEF IInv, ReplayNamesAGrant
<1>6. SalesRemembered'
  BY DEF IInv, SalesRemembered
<1>7. LateRetrySafe'
  BY DEF IInv, LateRetrySafe, SalesRemembered
<1>8. ArmedBounded'
  <2>1. Armed' \subseteq Armed
    BY DEF IInv, TypeOK, Armed
  <2> QED BY <2>1, ArmedStays
<1> QED BY <1>1, <1>2, <1>3, <1>4, <1>5, <1>6, <1>7, <1>8 DEF IInv

-----------------------------------------------------------------------------
(* Every reachable state                                                   *)

LEMMA StutterStep ==
  ASSUME IInv, UNCHANGED vars PROVE IInv'
<1>1. UNCHANGED <<sold_count, processed_requests, pc, buy, already_processed,
                  ticket_number, sold_out, resets, answers, granted, late, told, torn>>
  BY DEF vars, shared, locals, history
<1> USE <1>1
<1>2. TypeOK' /\ BuyKnown'
  BY DEF IInv, TypeOK, BuyKnown, InBuy
<1>3. ArmedBounded' /\ NumbersGrow'
  BY DEF IInv, ArmedBounded, Armed, NumbersGrow
<1>4. GrantsRemembered' /\ ReplayNamesAGrant'
  BY DEF IInv, GrantsRemembered, ReplayNamesAGrant
<1>5. SalesRemembered' /\ LateRetrySafe'
  BY DEF IInv, SalesRemembered, LateRetrySafe
<1> QED BY <1>2, <1>3, <1>4, <1>5 DEF IInv

LEMMA InitIInv == Init => IInv
<1> SUFFICES ASSUME Init PROVE IInv
  OBVIOUS
<1> USE DEF Init
<1>1. TypeOK
  <2>1. resets \in 0 .. MaxResets
    BY BoundsAssumption
  <2> QED BY <2>1 DEF TypeOK, NoTicket
<1>2. BuyKnown /\ GrantsRemembered /\ ReplayNamesAGrant /\ SalesRemembered
  BY DEF BuyKnown, InBuy, GrantsRemembered, ReplayNamesAGrant, SalesRemembered
<1>3. NumbersGrow
  BY DEF NumbersGrow
<1>4. LateRetrySafe
  BY DEF LateRetrySafe
<1>5. ArmedBounded
  <2>1. Armed = {} /\ Cardinality(Armed) = 0
    BY FS_EmptySet DEF Armed
  <2>2. Cardinality(Threads) \in Nat /\ Cardinality(Threads) # 0
    BY ThreadsAssumption, FS_CardinalityType, FS_EmptySet
  <2> QED BY <2>1, <2>2, TotalAssumption DEF ArmedBounded
<1> QED BY <1>1, <1>2, <1>3, <1>4, <1>5 DEF IInv

LEMMA NextIInv == IInv /\ [Next]_vars => IInv'
<1> SUFFICES ASSUME IInv, [Next]_vars PROVE IInv'
  OBVIOUS
<1>1. ASSUME NEW t \in Threads, Step(t) PROVE IInv'
  BY <1>1, ArriveStep, CheckRequestStep, GetTicketStep, AnswerReplayStep, CheckStockStep,
     AnswerSoldOutStep, LoadCountStep, StoreCountStep, ReadTicketStep, RecordRequestStep,
     RecordUserStep, ResetCountStep, ResetRequestsStep, ResetUsersStep
     DEF Step
<1>2. CASE UNCHANGED vars \/ Finished
  BY <1>2, StutterStep DEF Finished
<1> QED BY <1>1, <1>2 DEF Next

\* The inductive invariant holds in every reachable state; the theorems below are
\* its parts.
THEOREM InvariantHolds == Spec => []IInv
  BY InitIInv, NextIInv, PTL DEF Spec

\* Until an increment is lost, naive/main.py sells at most one ticket too many for
\* each thread but one, however many requests race.
THEOREM OversellIsBounded == Spec => []OversellBounded
<1>1. IInv => OversellBounded
  <2> SUFFICES ASSUME IInv, ~torn
               PROVE  sold_count <= Total + Cardinality(Threads) - 1
    BY DEF OversellBounded
  <2>1. /\ sold_count \in Nat
        /\ sold_count + Cardinality(Armed) <= Total + Cardinality(Threads) - 1
    BY DEF IInv, TypeOK, ArmedBounded
  <2> QED BY <2>1, ArmedFinite, TotalAssumption
<1> QED BY <1>1, InvariantHolds, PTL

\* ... and, until the first reset too, buys that are sold the same number overlapped.
THEOREM DuplicatesAreConcurrent == Spec => []DuplicatesOverlap
<1>1. IInv => DuplicatesOverlap
  <2> SUFFICES ASSUME IInv, ~torn, resets = MaxResets, NEW t \in Threads,
                      pc[t] \in {"counted", "recorded"}
               PROVE  ticket_number[t] \notin told[t]
    BY DEF DuplicatesOverlap
  <2>1. ticket_number[t] \in Nat /\ \A n \in told[t] : n < ticket_number[t]
    BY DEF IInv, TypeOK, NumbersGrow
  <2> QED BY <2>1
<1> QED BY <1>1, InvariantHolds, PTL

\* Whatever increments are lost, until the first reset, a retry sent after the first answer
\* does not get past the idempotency check.
THEOREM LateRetriesSafe == Spec => []LateRetrySafe
  BY InvariantHolds, PTL DEF IInv

\* Whatever is lost, a replay is answered with a number granted to its req_id.
THEOREM ReplaysNameGrants == Spec => []ReplayNamesAGrant
  BY InvariantHolds, PTL DEF IInv

=============================================================================

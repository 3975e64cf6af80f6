----------------------------- MODULE SellerStatus -----------------------------
(***************************************************************************)
(* GET /status of seller/main.py beside the buys and resets of             *)
(* LockedSeller.  The handler reads sold_count and copies the issued       *)
(* numbers under buy_lock, but returns the two dictionaries themselves:    *)
(* FastAPI encodes the response after the `with` block has released the    *)
(* lock, reading the dictionaries of that moment while buy() goes on       *)
(* writing them.  reset() binds new dictionaries, so an encoder that still *)
(* holds the old ones reads them unchanged from then on.                   *)
(***************************************************************************)
EXTENDS LockedSeller

CONSTANTS
    Pollers,    \* clients of GET /status, each with a thread of its own
    MaxPolls    \* bound on the polls of all of them

ASSUME PollsAssumption == MaxPolls \in Nat

VARIABLES
    polls,      \* polls still to come
    stage,      \* how far each poll has got
    body,       \* the response: count, issued, processed_requests, held
    todo,       \* users whose list is not yet encoded
    dicts       \* dictionaries the response refers to after a reset, or Live

statusVars == <<polls, stage, body, todo, dicts>>

Live == [bound |-> TRUE]
Bound(p) == dicts[p] = Live
Requests(p) == IF Bound(p) THEN processed_requests ELSE dicts[p].requests
Lists(p) == IF Bound(p) THEN user_tickets ELSE dicts[p].lists

EmptyBody == [count |-> 0, issued |-> {}, requests |-> {}, held |-> {}]

StatusInit ==
    /\ polls = MaxPolls
    /\ stage = [p \in Pollers |-> "idle"]
    /\ body = [p \in Pollers |-> EmptyBody]
    /\ todo = [p \in Pollers |-> {}]
    /\ dicts = [p \in Pollers |-> Live]

Advance(p, from, to) ==
    /\ stage[p] = from
    /\ stage' = [stage EXCEPT ![p] = to]

CopyState(p) ==
    /\ Advance(p, "idle", "requests")
    /\ polls > 0
    /\ polls' = polls - 1
    /\ body' = [body EXCEPT ![p] =
            [EmptyBody EXCEPT !.count = sold_count,
                              !.issued = {processed_requests[r] : r \in Processed}]]
    /\ todo' = [todo EXCEPT ![p] = Users]
    /\ dicts' = [dicts EXCEPT ![p] = Live]

\* A bug: status() reads without the lock.
ReadStatusUnlocked(p) == CopyState(p)

\* The `with buy_lock` block of status().
ReadStatus(p) == buy_lock = NoThread /\ CopyState(p)

\* processed_requests is encoded: its iteration ends well only if no key was
\* added meanwhile, so it reads the dictionary as of one moment.
EncodeRequests(p) ==
    /\ Advance(p, "requests", "users")
    /\ body' = [body EXCEPT ![p].requests =
            {<<r, Requests(p)[r]>> : r \in {q \in Reqs : Requests(p)[q] # NoTicket}}]
    /\ UNCHANGED <<polls, todo, dicts>>

\* "dictionary changed size during iteration": a sale was recorded since the
\* lock was released, and the poll gets a 500.
EncodeFails(p) ==
    /\ \/ /\ Advance(p, "requests", "idle")
          /\ {Requests(p)[r] : r \in Reqs} \ {NoTicket} # body[p].issued
       \/ /\ Advance(p, "users", "idle")
          /\ UNION {Range(Lists(p)[u]) : u \in Users} # body[p].issued
    /\ UNCHANGED <<polls, body, todo, dicts>>

\* The lists in user_tickets are encoded one after the other.
EncodeUser(p, u) ==
    /\ Advance(p, "users", IF todo[p] = {u} THEN "done" ELSE "users")
    /\ u \in todo[p]
    /\ todo' = [todo EXCEPT ![p] = @ \ {u}]
    /\ body' = [body EXCEPT ![p].held = @ \cup Range(Lists(p)[u])]
    /\ UNCHANGED <<polls, dicts>>

Deliver(p) ==
    /\ Advance(p, "done", "idle")
    /\ UNCHANGED <<polls, body, todo, dicts>>

\* A bug: reset() empties the dictionaries in place.
ClearInPlace == UNCHANGED statusVars

\* The encoders that hold the dictionaries reset() drops keep them.
KeepOldDicts ==
    /\ dicts' = [p \in Pollers |->
            IF Bound(p) /\ stage[p] # "idle"
            THEN [bound |-> FALSE, requests |-> processed_requests, lists |-> user_tickets]
            ELSE dicts[p]]
    /\ UNCHANGED <<polls, stage, body, todo>>

StatusStep(p) ==
    \/ ReadStatus(p) \/ EncodeRequests(p) \/ EncodeFails(p)
    \/ \E u \in Users : EncodeUser(p, u)
    \/ Deliver(p)

StatusNext ==
    \/ /\ \E t \in Threads : BuyStep(t) \/ \E r \in Reqs, u \in Users : Arrive(t, r, u)
       /\ UNCHANGED statusVars
    \/ Reset /\ KeepOldDicts
    \/ (\E p \in Pollers : StatusStep(p)) /\ UNCHANGED vars
    \/ Finished /\ UNCHANGED statusVars

StatusSpec == Init /\ StatusInit /\ [][StatusNext]_<<vars, statusVars>>

-----------------------------------------------------------------------------

Done(p) == stage[p] = "done"
Reported(p) == {x[2] : x \in body[p].requests}

\* A status is never behind itself: exactly the numbers 1 .. sold_count were
\* issued when both were read under the lock, so INV1 and INV2 of the load client
\* never fail because of the way GET /status reads the state; and every ticket
\* counted then appears in both dictionaries, whatever buys and resets the
\* encoder overlaps.  (They may be ahead: INV4 can fail on it.)
StatusNeverMissesASale ==
    \A p \in Pollers : Done(p) =>
        /\ body[p].issued = 1 .. body[p].count /\ body[p].count <= Total
        /\ body[p].issued \subseteq Reported(p) /\ body[p].issued \subseteq body[p].held
=============================================================================

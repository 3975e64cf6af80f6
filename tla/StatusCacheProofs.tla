-------------------------- MODULE StatusCacheProofs --------------------------
(***************************************************************************)
(* Type correctness of StatusCache, and the invariant that the cached      *)
(* status is old only while an invalidation is on its way or was missed.   *)
(* The latter is not inductive: an old status comes from a GET /status     *)
(* that holds it, so the same must be known of those.                      *)
(***************************************************************************)
EXTENDS StatusCache, TLAPS

\* A GET /status that holds an old status was overtaken by an invalidation, or
\* one is still to come.
FillsMarked == \A p \in Pollers : HoldsOld(p) => owed > 0 \/ body[p].missed

IInv == TypeOK /\ FillsMarked /\ StaleOnlyIfMissed

\* The initial states are well typed, and nothing is cached or being read.
LEMMA InitInv == Init => IInv
  BY WritesAssumption, FaultsAssumption
  DEF Init, IInv, TypeOK, FillsMarked, StaleOnlyIfMissed, HoldsOld, NoStatus, Status

\* What is stored in Redis is well typed.
LEMMA StoreTyped ==
  ASSUME TypeOK, NEW p \in Pollers, Store(p)
  PROVE  entry' \in Entry
  BY DEF TypeOK, Store, Entry

\* Marking the reads that hold an old status changes nothing else of them.
LEMMA MarkFillsFacts ==
  ASSUME TypeOK, MarkFills
  PROVE  /\ body' \in [Pollers -> Status]
         /\ \A p \in Pollers : /\ body'[p].count = body[p].count
                               /\ body'[p].rows = body[p].rows
                               /\ body'[p].missed = (body[p].missed \/ HoldsOld(p))
<1>1. \A p \in Pollers : HoldsOld(p) \in BOOLEAN
  BY DEF HoldsOld, Old
<1>2. \A p \in Pollers : body[p] \in Status
  BY DEF TypeOK
<1>. QED  BY <1>1, <1>2 DEF MarkFills, Status

\* Every step of a GET /status keeps the types.
LEMMA PollTyped ==
  ASSUME TypeOK, NEW p \in Pollers, Poll(p)
  PROVE  TypeOK'
<1>1. NoStatus \in Status
  BY WritesAssumption DEF NoStatus, Status
<1>2. body[p] \in Status
  BY DEF TypeOK
<1>3. CASE Hit(p)
  BY <1>3, NoEntryAssumption DEF TypeOK, Hit, Advance, Entry
<1>4. CASE Miss(p)
  BY <1>4, <1>1, FaultsAssumption DEF TypeOK, Miss, Advance, Fault
<1>5. CASE StatusCount(p)
  BY <1>5, <1>2 DEF TypeOK, StatusCount, Advance, Status
<1>6. CASE StatusRows(p)
  BY <1>6, <1>2 DEF TypeOK, StatusRows, Advance, Status
<1>7. CASE QueryFails(p)
  BY <1>7, FaultsAssumption DEF TypeOK, QueryFails, Advance, Fault
<1>8. CASE SetEntry(p)
  <2>1. entry' \in Entry \cup {NoEntry}
    BY <1>8, StoreTyped DEF SetEntry, TypeOK
  <2>. QED  BY <1>8, <2>1, FaultsAssumption DEF TypeOK, SetEntry, Advance, Fault
<1>9. CASE Deliver(p)
  BY <1>9 DEF TypeOK, Deliver, Advance
<1>. QED  BY <1>3, <1>4, <1>5, <1>6, <1>7, <1>8, <1>9 DEF Poll

\* Marking the cached status keeps its type and sets its mark.
LEMMA MarkedTyped ==
  ASSUME NEW e \in Entry
  PROVE  /\ [e EXCEPT !.body.missed = TRUE] \in Entry
         /\ [e EXCEPT !.body.missed = TRUE].body.missed
  BY DEF Entry, Status

\* Every step keeps the types.
LEMMA NextTyped ==
  ASSUME TypeOK, [Next]_vars
  PROVE  TypeOK'
<1>1. CASE Commit
  BY <1>1, WritesAssumption DEF TypeOK, Commit
<1>2. CASE Invalidate
  BY <1>2, MarkFillsFacts DEF TypeOK, Invalidate
<1>3. CASE LoseInvalidation
  <2>1. entry' \in Entry \cup {NoEntry}
    BY <1>3, MarkedTyped DEF TypeOK, LoseInvalidation
  <2>. QED  BY <1>3, <2>1, MarkFillsFacts, FaultsAssumption DEF TypeOK, LoseInvalidation, Fault
<1>4. CASE \E p \in Pollers : Poll(p)
  BY <1>4, PollTyped
<1>5. CASE Expire
  BY <1>5 DEF TypeOK, Expire
<1>6. CASE Flush
  BY <1>6 DEF TypeOK, Flush
<1>7. CASE Restart
  <2>1. entry' \in Entry \cup {NoEntry}
    BY <1>7, MarkedTyped DEF TypeOK, Restart
  <2>. QED  BY <1>7, <2>1, FaultsAssumption DEF TypeOK, Restart, Fault
<1>8. CASE UNCHANGED vars
  BY <1>8 DEF TypeOK, vars
<1>. QED  BY <1>1, <1>2, <1>3, <1>4, <1>5, <1>6, <1>7, <1>8 DEF Next

\* A GET /status that passes on what it holds keeps the invariant.
LEMMA PollInv ==
  ASSUME IInv, NEW p \in Pollers, Poll(p)
  PROVE  FillsMarked' /\ StaleOnlyIfMissed'
<1>. USE DEF IInv
<1>1. version \in Int /\ body[p] \in Status /\ stage \in [Pollers -> {"idle", "count", "rows", "set", "done"}]
        /\ body \in [Pollers -> Status]
  BY DEF TypeOK
<1>2. CASE Hit(p)
  BY <1>1, <1>2 DEF Hit, Advance, FillsMarked, StaleOnlyIfMissed, HoldsOld, Old
<1>3. CASE Miss(p)
  BY <1>1, <1>3 DEF Miss, Advance, FillsMarked, StaleOnlyIfMissed, HoldsOld, Old
<1>4. CASE StatusCount(p)
  <2>1. StaleOnlyIfMissed'
    BY <1>4 DEF StatusCount, StaleOnlyIfMissed, Old
  <2>2. ~HoldsOld(p)'
    BY <1>1, <1>4 DEF StatusCount, Advance, HoldsOld, Old, Status
  <2>3. \A q \in Pollers \ {p} : stage'[q] = stage[q] /\ body'[q] = body[q]
    BY <1>1, <1>4 DEF StatusCount, Advance
  <2>. QED  BY <2>1, <2>2, <2>3, <1>4 DEF StatusCount, FillsMarked, HoldsOld, Old
<1>5. CASE StatusRows(p)
  <2>1. StaleOnlyIfMissed'
    BY <1>5 DEF StatusRows, StaleOnlyIfMissed, Old
  <2>2. /\ HoldsOld(p)' => HoldsOld(p)
        /\ body'[p].missed = body[p].missed
    BY <1>1, <1>5 DEF StatusRows, Advance, HoldsOld, Old, Status
  <2>3. \A q \in Pollers \ {p} : stage'[q] = stage[q] /\ body'[q] = body[q]
    BY <1>1, <1>5 DEF StatusRows, Advance
  <2>. QED  BY <2>1, <2>2, <2>3, <1>5 DEF StatusRows, FillsMarked, HoldsOld, Old
<1>6. CASE QueryFails(p)
  BY <1>1, <1>6 DEF QueryFails, Advance, FillsMarked, StaleOnlyIfMissed, HoldsOld, Old
<1>7. CASE SetEntry(p)
  <2>1. entry' = entry \/ entry' = [body |-> body[p], ttl |-> TRUE]
    BY <1>7 DEF SetEntry, Store
  <2>2. Old(body[p]) => owed > 0 \/ body[p].missed
    BY <1>7 DEF SetEntry, Advance, FillsMarked, HoldsOld
  <2>3. StaleOnlyIfMissed'
    BY <2>1, <2>2, <1>7 DEF SetEntry, StaleOnlyIfMissed, Old
  <2>. QED  BY <2>3, <1>1, <1>7 DEF SetEntry, Advance, FillsMarked, HoldsOld, Old
<1>8. CASE Deliver(p)
  BY <1>1, <1>8 DEF Deliver, Advance, FillsMarked, StaleOnlyIfMissed, HoldsOld, Old
<1>. QED  BY <1>2, <1>3, <1>4, <1>5, <1>6, <1>7, <1>8 DEF Poll

\* Every step keeps the invariant.
LEMMA NextInv ==
  ASSUME IInv, [Next]_vars
  PROVE  IInv'
<1>1. TypeOK'
  BY NextTyped DEF IInv
<1>2. FillsMarked' /\ StaleOnlyIfMissed'
  <2>. USE DEF IInv
  <2>1. CASE Commit
    <3>1. owed' > 0
      BY <2>1 DEF TypeOK, Commit
    <3>. QED  BY <3>1 DEF FillsMarked, StaleOnlyIfMissed
  <2>2. CASE Invalidate
    <3>1. \A p \in Pollers : HoldsOld(p)' => body'[p].missed
      BY <2>2, MarkFillsFacts DEF Invalidate, HoldsOld, Old
    <3>. QED  BY <2>2, <3>1 DEF Invalidate, FillsMarked, StaleOnlyIfMissed
  <2>3. CASE LoseInvalidation
    <3>1. \A p \in Pollers : HoldsOld(p)' => body'[p].missed
      BY <2>3, MarkFillsFacts DEF LoseInvalidation, HoldsOld, Old
    <3>2. StaleOnlyIfMissed'
      BY <2>3, MarkedTyped DEF LoseInvalidation, TypeOK, StaleOnlyIfMissed, Old
    <3>. QED  BY <3>1, <3>2 DEF FillsMarked, StaleOnlyIfMissed
  <2>4. CASE \E p \in Pollers : Poll(p)
    BY <2>4, PollInv
  <2>5. CASE Expire
    BY <2>5 DEF Expire, FillsMarked, StaleOnlyIfMissed, HoldsOld, Old
  <2>6. CASE Flush
    BY <2>6 DEF Flush, FillsMarked, StaleOnlyIfMissed, HoldsOld, Old
  <2>7. CASE Restart
    <3>1. StaleOnlyIfMissed'
      BY <2>7, MarkedTyped DEF Restart, TypeOK, StaleOnlyIfMissed, Old
    <3>. QED  BY <2>7, <3>1 DEF Restart, FillsMarked, StaleOnlyIfMissed, HoldsOld, Old
  <2>8. CASE UNCHANGED vars
    BY <2>8 DEF vars, FillsMarked, StaleOnlyIfMissed, HoldsOld, Old
  <2>. QED  BY <2>1, <2>2, <2>3, <2>4, <2>5, <2>6, <2>7, <2>8 DEF Next
<1>. QED  BY <1>1, <1>2 DEF IInv

\* The cache is well typed for any number of pollers, writes and faults.
THEOREM TypeCorrect == Spec => []TypeOK
<1>1. Init => TypeOK
  BY InitInv DEF IInv
<1>2. TypeOK /\ [Next]_vars => TypeOK'
  BY NextTyped
<1>. QED  BY <1>1, <1>2, PTL DEF Spec

\* The cached status is behind the tables only while an invalidation is owed,
\* or because it missed one.
THEOREM StaleOnlyWhenMissed == Spec => []StaleOnlyIfMissed
<1>1. IInv => StaleOnlyIfMissed
  BY DEF IInv
<1>. QED  BY InitInv, NextInv, <1>1, PTL DEF Spec

==============================================================================

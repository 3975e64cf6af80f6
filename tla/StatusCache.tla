----------------------------- MODULE StatusCache -----------------------------
(***************************************************************************)
(* The cache of GET /status (cache.py): a read-through entry in Redis,     *)
(* deleted after every commit that changes the tables and expiring after   *)
(* STATUS_CACHE_TTL_SECONDS.                                               *)
(*                                                                         *)
(* The tables are abstracted to the number of commits so far (version),    *)
(* and a status to the two versions its two statements read.  What time    *)
(* does is abstracted to "an entry written with a time to live may expire  *)
(* at any moment, and does".  A fault is a Redis command that fails,       *)
(* applied or not, a writer that dies between COMMIT and DEL, a failing    *)
(* query, or a restart of Redis from its append-only file, which may lack  *)
(* the last commands (appendfsync everysec).                               *)
(***************************************************************************)
EXTENDS Integers

CONSTANTS
    Pollers,    \* concurrent executions of GET /status, over all processes
    NoEntry,    \* the key STATUS_CACHE_KEY does not exist
    MaxWrites,  \* bound on the sales and resets that commit
    MaxFaults   \* bound on the faults

ASSUME WritesAssumption == MaxWrites \in Nat
ASSUME FaultsAssumption == MaxFaults \in Nat

Status == [count : 0 .. MaxWrites, rows : 0 .. MaxWrites, missed : BOOLEAN]
Entry == [body : Status, ttl : BOOLEAN]

ASSUME NoEntryAssumption == NoEntry \notin Entry

VARIABLES
    version,    \* commits that changed the tables
    owed,       \* committed writers that have not called DEL yet
    entry,      \* the value of STATUS_CACHE_KEY in Redis
    onDisk,     \* the same in the append-only file
    stage,      \* how far each GET /status has got
    body,       \* the status it has read; missed (a ghost) says that it was
                \* already old when an invalidation was executed or dropped
    faults      \* faults still to come

vars == <<version, owed, entry, onDisk, stage, body, faults>>

NoStatus == [count |-> 0, rows |-> 0, missed |-> FALSE]

Init ==
    /\ version = 0
    /\ owed = 0
    /\ entry = NoEntry
    /\ onDisk = NoEntry
    /\ stage = [p \in Pollers |-> "idle"]
    /\ body = [p \in Pollers |-> NoStatus]
    /\ faults = MaxFaults

Fault == faults > 0 /\ faults' = faults - 1

\* The tables have changed since s was read (rows are read after the count).
Old(s) == s.count < version \/ s.rows < version
\* GET /status p holds a count, or both parts, that are behind the tables.
HoldsOld(p) ==
    \/ stage[p] = "rows" /\ body[p].count < version
    \/ stage[p] = "set" /\ Old(body[p])

-----------------------------------------------------------------------------
(* atomic_buy and reset_state                                              *)

\* A bug: the entry is deleted before COMMIT.
CommitAfterDel ==
    /\ version < MaxWrites
    /\ version' = version + 1
    /\ entry' = NoEntry
    /\ UNCHANGED <<owed, onDisk, stage, body, faults>>

\* A bug: the transaction and its caller both think the DEL is theirs.
CommitOwesTwo ==
    /\ version < MaxWrites
    /\ version' = version + 1
    /\ owed' = owed + 2
    /\ UNCHANGED <<entry, onDisk, stage, body, faults>>

\* A transaction that sold a ticket or reset the tables commits.
Commit ==
    /\ version < MaxWrites
    /\ version' = version + 1
    /\ owed' = owed + 1
    /\ UNCHANGED <<entry, onDisk, stage, body, faults>>

\* An invalidation is over: the statuses that are read and old missed it.
MarkFills ==
    body' = [p \in Pollers |-> [body[p] EXCEPT !.missed = @ \/ HoldsOld(p)]]

Invalidate ==
    /\ owed > 0
    /\ owed' = owed - 1
    /\ entry' = NoEntry
    /\ MarkFills
    /\ UNCHANGED <<version, onDisk, stage, faults>>

\* DEL fails or the process dies before it.
LoseInvalidation ==
    /\ owed > 0
    /\ Fault
    /\ owed' = owed - 1
    /\ entry' = IF entry # NoEntry /\ Old(entry.body)
                THEN [entry EXCEPT !.body.missed = TRUE] ELSE entry
    /\ MarkFills
    /\ UNCHANGED <<version, onDisk, stage>>

-----------------------------------------------------------------------------
(* get_cached_status                                                       *)

Advance(p, from, to) ==
    /\ stage[p] = from
    /\ stage' = [stage EXCEPT ![p] = to]

Hit(p) ==
    /\ entry # NoEntry
    /\ Advance(p, "idle", "done")
    /\ body' = [body EXCEPT ![p] = entry.body]
    /\ UNCHANGED <<version, owed, entry, onDisk, faults>>

\* No entry, or Redis does not answer.
Miss(p) ==
    /\ \/ entry = NoEntry /\ UNCHANGED faults
       \/ Fault
    /\ Advance(p, "idle", "count")
    /\ body' = [body EXCEPT ![p] = NoStatus]
    /\ UNCHANGED <<version, owed, entry, onDisk>>

StatusCount(p) ==
    /\ Advance(p, "count", "rows")
    /\ body' = [body EXCEPT ![p].count = version]
    /\ UNCHANGED <<version, owed, entry, onDisk, faults>>

StatusRows(p) ==
    /\ Advance(p, "rows", "set")
    /\ body' = [body EXCEPT ![p].rows = version]
    /\ UNCHANGED <<version, owed, entry, onDisk, faults>>

\* A failing query is a 500; nothing is stored.
QueryFails(p) ==
    /\ Fault
    /\ Advance(p, "count", "idle") \/ Advance(p, "rows", "idle")
    /\ UNCHANGED <<version, owed, entry, onDisk, body>>

\* A bug: SET without `ex`.
StoreForever(p) == entry' = [body |-> body[p], ttl |-> FALSE]

Store(p) == entry' = [body |-> body[p], ttl |-> TRUE]

\* SET, which may fail before or after it was applied.
SetEntry(p) ==
    /\ Advance(p, "set", "done")
    /\ \/ Store(p) /\ UNCHANGED faults
       \/ (Store(p) \/ UNCHANGED entry) /\ Fault
    /\ UNCHANGED <<version, owed, onDisk, body>>

Deliver(p) ==
    /\ Advance(p, "done", "idle")
    /\ UNCHANGED <<version, owed, entry, onDisk, body, faults>>

Poll(p) ==
    \/ Hit(p) \/ Miss(p)
    \/ StatusCount(p) \/ StatusRows(p) \/ QueryFails(p)
    \/ SetEntry(p) \/ Deliver(p)

-----------------------------------------------------------------------------
(* Redis                                                                   *)

Expire ==
    /\ entry # NoEntry /\ entry.ttl
    /\ entry' = NoEntry
    /\ UNCHANGED <<version, owed, onDisk, stage, body, faults>>

Flush ==
    /\ onDisk' = entry
    /\ UNCHANGED <<version, owed, entry, stage, body, faults>>

\* Redis restarts from its file: a SET or a DEL may be undone.
Restart ==
    /\ Fault
    /\ entry' = IF onDisk # NoEntry /\ Old(onDisk.body)
                THEN [onDisk EXCEPT !.body.missed = TRUE] ELSE onDisk
    /\ UNCHANGED <<version, owed, onDisk, stage, body>>

Next ==
    \/ Commit \/ Invalidate \/ LoseInvalidation
    \/ \E p \in Pollers : Poll(p)
    \/ Expire \/ Flush \/ Restart

\* Requests are answered and keys expire.  No writer is assumed to get as far
\* as its DEL.
Fairness == WF_vars(Expire) /\ \A p \in Pollers : WF_vars(Poll(p))

Spec == Init /\ [][Next]_vars
FairSpec == Spec /\ Fairness

-----------------------------------------------------------------------------

\* Every variable keeps its type: no status is ahead of the tables, and no more
\* invalidations are owed than commits were made.
TypeOK ==
    /\ version \in 0 .. MaxWrites
    /\ owed \in 0 .. version
    /\ entry \in Entry \cup {NoEntry}
    /\ onDisk \in Entry \cup {NoEntry}
    /\ stage \in [Pollers -> {"idle", "count", "rows", "set", "done"}]
    /\ body \in [Pollers -> Status]
    /\ faults \in 0 .. MaxFaults

\* When the entry is behind the tables, a writer is about to delete it, or the
\* entry missed its invalidation: it was being read while the DEL ran, or the
\* DEL was lost or undone by a fault.  There is no other way to serve an old
\* status.
StaleOnlyIfMissed ==
    entry # NoEntry /\ Old(entry.body) => owed > 0 \/ entry.body.missed

\* What cache.py says of itself: invalidation keeps the entry fresh; without a
\* fault only a writer that is just about to call DEL leaves it behind.
FreshUnlessFault ==
    entry # NoEntry /\ Old(entry.body) => owed > 0 \/ faults < MaxFaults

\* Whatever was missed, the time to live heals it: once nobody writes any more,
\* GET /status ends up answering with the tables as they are, for ever.
StatusSettles ==
    <>[](\A p \in Pollers : stage[p] = "done" => ~Old(body[p]))

=============================================================================

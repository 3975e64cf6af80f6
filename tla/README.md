# TLA+ models of the ticket selling system

The repository sells a fixed number of numbered tickets over HTTP, three times
over: a *naive* seller that races on purpose (`src/naive`), a *seller* that puts
one lock around everything (`src/seller`), and a *distributed* one
(`src/distributed`): several uvicorn processes, PostgreSQL as the only ground
truth, Redis for a queue, a status cache and a rate limiter.  Load clients
(`src/buyer`) fire buys with retries and check four invariants from the outside:

* INV1: never more tickets sold than there are,
* INV2: ticket numbers are unique and sequential,
* INV3: one `req_id` has one ticket, whoever asks and however often,
* INV4: `sold_count`, `processed_requests` and `user_tickets` agree.

This directory models those programs in TLA+, checks the models with TLC and
proves the central results with TLAPS.

## 1. Inventory

| Component | Source | State it keeps | Operations | What is hard about it | What makes it correct |
|---|---|---|---|---|---|
| naive seller | `naive/main.py` | one dictionary: `sold_count`, `processed_requests`, `user_tickets` | `buy`, `reset`, `status` | every read and write races, two `sleep`s between check and write | nothing; how far it goes wrong is bounded |
| locked seller | `seller/main.py` | the same, under `buy_lock` | `buy`, `reset`, `status` | an unfair lock; `status` hands out live dictionaries | INV1-4, linearizability, every buy answered |
| ticket database | `distributed/app/db.py`, `init_db.sql` | one row of `tickets_state`, rows of `sold_tickets` | `atomic_buy`, `reset_state`, `get_status` | transactions of many processes, a row lock, small pools, lost connections and acknowledgements | rows are exactly 1..`sold_count`; no answer contradicted; no deadlock |
| buy queue | `distributed/app/queue_stream.py`, `main.py` | stream, group, pending entries, lists `result:{req_id}` | `enqueue_and_wait`, `consumer_loop`, `_process_entry`, `POST /buy`, `POST /reset` | timeouts racing late answers, duplicated sales, half-done commands, crashes, resets | answers agree with the database; a success is not lost on its way; every buy answered |
| circuit breaker | `circuit_breaker.py` | `_open_until` per process | `is_open`, `record_failure`, `record_success` | shared by limiter, consumer and handlers; a failure disconnects the other calls, a late success closes it | it always closes again; it never blocks the fallback |
| rate limiter | `rate_limiter.py` | a token and a leaky bucket, in Redis and a local copy | `allow` | clocks of different hosts, requests overtaking each other, lost replies, fallback while Redis is down | admitted load is bounded; a rejection by one bucket costs nothing in the other |
| status cache | `cache.py` | one Redis key with a time to live | `get_cached_status`, `invalidate_status_cache` | fill racing invalidation, lost or undone invalidation | an old status is only served for a reason, and not for ever |
| application process | `main.py` | a pool, a Redis client, a consumer task | startup, shutdown, the HTTP handlers | dies at any time | nothing is kept in it |
| load clients | `buyer/` | a request plan, the answers | reset, build a plan, run it, check INV1-4 | retries, duplicates, rejections and sends given up in flight together; the status may be a cached one | no false alarm against a correct service; every ticket accounted for |
| deployment | `docker-compose.yml`, `nginx.conf`, `Dockerfile` | - | - | - | configuration: it supplies constants |

How they interact: a load client posts to nginx, which picks a replica.  `POST
/buy` asks the rate limiter; then, if the circuit of its process is closed, adds
an entry to the stream and waits in `BLPOP` on `result:{req_id}`; a consumer of any
process reads the entry, calls `atomic_buy`, pushes the result and acknowledges
the entry.  If Redis fails or nothing comes in time the handler calls
`atomic_buy` itself.  Every `atomic_buy` and `reset_state` invalidates the status
cache afterwards.  `POST /reset` empties the tables, then deletes the stream.
All processes share only PostgreSQL and Redis.

## 2. Modules

| Module | Models | Notes |
|---|---|---|
| `TicketService` | what `buy()` and `reset()` promise in every stage | abstract: each request takes effect in one step between its submission and its reply |
| `LockedSeller` | `seller/main.py` `buy`, `reset` | one action per statement group; refines `TicketService` |
| `SellerStatus` | `seller/main.py` `status` | EXTENDS `LockedSeller`, adds pollers |
| `NaiveSeller` | `naive/main.py` `buy`, `reset` | one action per read or write of shared state |
| `TicketDb` | `db.py` on the tables of `init_db.sql` | one action per SQL statement; refines `TicketService` |
| `BuyQueue` | `queue_stream.py`, `POST /buy`, `POST /reset`, the breaker as they use it | uses `atomic_buy` and `reset_state` as single steps |
| `LoadClient` | `buyer/load_client.py`, `buyer/load_client_async.py` | EXTENDS `TicketService`: the client in front of the contract, behind rate limiter and status cache |
| `StatusCache` | `cache.py`, `GET /status`, the invalidations after `db.py`'s commits | the tables are a version number |
| `RateLimiter` | `rate_limiter.py`, `circuit_breaker.py` | the Lua script, the local fallback, the breaker with its clock |
| `MC...` | instances for TLC | constants and symmetry |
| `...Proofs` | theorems | EXTEND the module they are about |

The composition is by refinement: `BuyQueue` treats `atomic_buy` and
`reset_state` as atomic, `TicketDb` shows (and `TicketDbProofs` proves) that their
transactions are, through `TicketService`.  An `atomic_buy` that raises is in
`TicketService` the action `Fail`, whose sale may or may not have happened, and in
`BuyQueue` exactly that: `SellFails` and `FallbackFails`.  `LoadClient` stands on the
other side of the same contract: its service is `TicketService` itself, so what it
concludes holds in front of any implementation of it.  `BuyQueue` lets the
rate limiter answer as it likes; `RateLimiter` says what it answers.

### State and actions against the code

**LockedSeller.**  A thread of Starlette's pool has a step `pc`, its request
`buy` and the local variables of `buy()`.  `CheckRequest` takes the lock and
looks the `req_id` up; `AnswerReplay`, `CheckStock`, `AnswerSoldOut`, `TakeTicket`,
`RecordRequest`, `RecordUser` are the statements of the block in order, the two
`time.sleep`s lying between them.  `Reset` runs as one step with the lock free:
it makes no call between its assignments that could let another thread in, since
nobody else may touch the state without the lock.  `Arrive` sends a request of the
load client's plan (`build_request_plan`: every `req_id` once, or `ReplayCount` times).

**SellerStatus.**  `ReadStatus` is the block under the lock; FastAPI encodes the
dictionaries after it: `EncodeRequests`, one `EncodeUser` per list, or
`EncodeFails` ("dictionary changed size during iteration").  `reset()` binds new
dictionaries, so an encoder under way keeps the old ones (`KeepOldDicts`).

**NaiveSeller.**  The same statements without a lock, and every read and write of the
shared dictionary a step of its own: `CheckRequest`, `GetTicket`, `CheckStock`,
`LoadCount` and `StoreCount` (the two halves of `sold_count += 1`), `ReadTicket`
(`ticket_number = state["sold_count"]`), `RecordRequest`, `RecordUser`.  No Python build is
pinned by the repository, so nothing is assumed of where threads switch.  `reset()` is three
steps.  Two ghosts serve the properties: `torn` says that a store overwrote a count it
had not loaded (an increment was lost), `told` which numbers had been answered when a
buy arrived.

**TicketDb.**  A task is one execution of `atomic_buy`, `reset_state` or
`get_status`.  `Acquire` takes a connection of its process's pool;
`SelectForUpdate` gets the row lock; `CheckExisting`, `AnswerReplay`,
`AnswerSoldOut`, `UpdateCount`, `InsertRow`, `CommitSale`, `Return` follow the code.
Uncommitted writes stay in the task's locals until COMMIT, which is what READ
COMMITTED shows of them to others.  `LoseConnection` rolls back at any statement;
`LoseSaleAck` and `LoseResetAck` commit and report an error.

**BuyQueue.**  A handler is one execution of `POST /buy`:
`Arrive`/`Reject`, `SkipQueue`/`Enqueue`/`EnqueueFails`,
`PopResult`/`TimeOut`/`WaitFails`, `Fallback`/`FallbackFails`.  A process has one
consumer: `EnsureGroup`, `StartRead`, `Read`, `ReadNothing`, `ReadNoGroup`,
`GatherDone` and the failures of each.  Each entry read becomes a task
(`_process_entry`): `Sell`/`SellFails`, `Proceed` for `RPUSH` and `XACK`,
`CommandOfTaskFails`.  When a task ends the gather with an exception the loop
starts over and the other tasks of the batch run on, as asyncio does.  `POST
/reset` is `ResetTables`, then `SkipStream`, or `DeleteStream` and
`CreateGroup`/`GroupExists`/`CreateFails`.  `Crash` loses everything a process
holds and starts it again.

**LoadClient.**  A slot is a thread of the pool, or a permit of the semaphore.  `Start`
resets (or not, `--no-reset`), `Take` draws the next send of the plan, `Fire` posts it,
past the rate limiter, or `Reject` answers it 429.  `Return` gets the answer, `AttemptFails`
is one that cannot be used, `Reach`/`TimeOut` tell whether the answer got there and whether
the client still waits.  A caller of the contract is one execution on the server past
the limiter, which a client that gives up leaves running.  `GET /status` is `Hit`, or
`StatusCount` and `StatusRows`, the two reads of the tables, and `Store`, which may leave the
result in the cache; the `Checker` asks once, at the end, the other `Getters` at any
time before.  `DropEntry` deletes the cached status at any time or never, so that the
verdict rests on nothing that `StatusCache` says of invalidation.  The ghost `busy` of a status
says that a buy or a reset ran between its two reads.  `INV1` to `INV4` are
`check_invariants`, `INV3` with the set `Named` it collects.  `MaxRetries = 0` is the
threaded client; `Leftover` is a send of an earlier load that is still on its way when
this one starts.

**StatusCache.**  `Commit` is a transaction of `db.py` that changed the tables; it owes
an `Invalidate`, which may get lost (`LoseInvalidation`: the `DEL` fails, or the process
dies first).  `GET /status` is `Hit`, or `Miss`, `StatusCount`, `StatusRows`, `SetEntry`, and
`Deliver`.  `Expire` is the time to live, `Flush` and `Restart` are Redis's append-only file.

**RateLimiter.**  `allow` is `SkipRedis` when the circuit is open, otherwise `Stamp` (the
caller takes `now`), `Script` (`NoToken`, `Full` or `Grant`, the three ways through the Lua
script), `Return`, or `RedisFails`, before or after the script ran, and `Fallback`.
`RecordFailure` opens the circuit of the process and disconnects its calls in flight,
`RecordSuccess` closes it at once.  `LoseKeys` is a key that expired or did not survive.

### Abstractions, all of them deliberate

* `total_tickets` is the constant `Total`: every deployment sets it once and every
  reset sets it to the same number.
* Strings, JSON, HTTP and the latencies of the client are left out; a `req_id`, a
  user and a process are model values.
* `user_tickets` of the naive seller is the length of each list.
* In `BuyQueue` the user is left out: it decides nothing there.
* In `BuyQueue`, whether the check of the circuit and the `XADD` that follows it
  without an await are one step decides nothing: an `XADD` cut off by another
  task's `record_failure` ends like `SkipQueue` (not executed) or like `Enqueue`
  followed by `WaitFails` (executed).  `XREADGROUP` may block for a second, so it
  is two steps, `StartRead` and its reply.
* The time to live of a result list is an action `Expire` that may happen or not,
  which covers a failed `EXPIRE` (the list stays) and a late one.
* In `BuyQueue` the rate limiter's verdict is a free choice (`Arrive` or `Reject`); its
  Redis command may fail and open the circuit (`Limiter`).
* In `RateLimiter` time is counted in ticks and tokens in parts, `Cost` of them to a
  request, so that a bucket can hold a fraction; the floating point of Lua is not
  modelled.  The expiry of the keys after 300 seconds is `LoseKeys`.
* In `StatusCache` the tables are the number of their commits, and a status is the
  two versions its two statements read: what matters is only what is older.
* In `LoadClient` the limiter's verdict is a free choice, and so is when the cached status is
  deleted.
* In `LoadClient` the verdicts are computed on what was counted, not printed.
* Redis executes commands one at a time.  It loses its last second in
  `StatusCache`, its keys in `RateLimiter`, and nothing in `BuyQueue`.
* A task told of a lost connection is told when its transaction has ended; told
  earlier it could only retry, and the retry would wait for the row lock.

## 3. What the runs check

The runs use at most three requests, because the interesting conflicts need two
requests for one ticket and one replay of a `req_id`.  Every bound is a CONSTANT
in the `.cfg`.

| Run | Instance | Checks | Shows |
|---|---|---|---|
| `locked` | 2 threads, 3 req_ids, 2 users, 2 tickets, replays, 1 reset | `NoOverselling`, `BookkeepingConsistent`, `IdempotentAnswers`, `ImplementsService`, `EveryBuyAnswered` | INV1-4 at every moment, linearizability, no starvation at the end of the load; no ticket is left while anybody is told "sold out" |
| `seller_status` | 2 threads, 1 poller, 2 polls, 1 reset | `StatusNeverMissesASale` | what a status taken during a load can be trusted for |
| `naive` | 2 threads, 2 req_ids each sent once or three times, 1 user, 2 tickets, 1 reset | `OversellBounded`, `DuplicatesOverlap`, `LateRetrySafe`, `ReplayNamesAGrant` | how far the races go, and what they leave intact |
| `db` | 3 tasks, 2 processes with pools of one connection, 2 req_ids, one sent twice, 1 ticket, 1 reset, 1 status, 1 fault | `LedgerMatchesCount`, `UniqueViolationUnreachable`, `OutcomesOnRecord`, `StatusNeverMissesASale`, `ImplementsService`, `EveryCallEnds` | the tables are exact, the transactions are one atomic counter, `get_status` reads in the safe order, no deadlock between pool and row lock |
| `queue` | 2 processes with a handler each, 2 req_ids, one of them sent twice, 1 ticket, 1 fault anywhere | `AnswersTruthful`, `SuccessOnce`, `SuccessKept` | whichever way a buy takes, its answer agrees with the database, and the success of a sale is told unless something failed |
| `queue_live` | 1 process, batches of 2, 1 fault, 1 crash, 1 reset | `EveryBuyAnswered`, `BacklogDrains`, `AckedUnlessDisturbed` | the consumer always comes back and no handler hangs |
| `queue_pending` | 1 process, 2 handlers, 1 fault | `PendingIsRedelivered` fails | finding 1 |
| `queue_reset` | 1 process, 2 handlers, 1 reset, no fault | `AnswersTruthful` fails | finding 2 |
| `client` | 2 slots, 2 executions, 3 req_ids: one sent twice and two left over, or two sent once and one left over; 2 tickets, 1 retry, 2 executions of `GET /status`; 429s and timeouts anywhere, 1 error | `GaplessLedger`, `AnswersTruthful`, `NoFalseAlarm`, `AlarmIsTornRead`, `NoTicketLost`, `LoadEnds` | the verdict of the client against a correct service, whoever filled the cache |
| `cache` | 2 pollers, 2 commits, 1 fault | `StaleOnlyIfMissed`, `StatusSettles` | every reason for an old status; the time to live heals them all |
| `cache_race` | 2 pollers, 1 commit, no fault | `FreshUnlessFault` fails | finding 3 |
| `limiter` | 2 processes, clocks a tick apart, 3 concurrent calls, 5 calls, 3 ticks, 1 fault, two settings | `AdmissionBound`, `NoTokenWasted`, `LocalBound`, `LeakyBucketIdle` | how much Redis and the fallback admit together; which settings make the leaky bucket idle |

A type invariant is checked beside them, except in `naive`, where it is part of the proof.
What `AlarmIsTornRead` and `StatusNeverMissesASale` leave open is real: `GET /status` reads in
two parts (`seller/main.py:206` hands live dictionaries to the encoder, `db.py:127` reads the
rows in a statement of its own), so a sale in between makes INV4 fail in front of a correct
seller.  If the checker reads the tables itself that takes a send the client has given up; if
it is served from the cache any sale of the load will do, or the reset (section 4).

Why these bounds are enough for what they claim:

* Two threads or tasks suffice for a lost update, a stale read or a double sale;
  `db` has a third because a fault of one should meet two others.  In `naive`,
  `OversellBounded` and `DuplicatesOverlap` each fail in this instance without their `~torn`,
  so it is large enough for what they speak about.
* One ticket or two make "the last ticket" and "sold out" occur in nearly every
  behaviour.
* One fault, crash or reset at *any* step, before or after its command took
  effect, exercises each failure branch; a second one would mostly repeat a
  branch from a state the first already reaches.
* `db` is small because its invariants and its refinement are proved for every size
  (section 5); it is there for deadlock and liveness.  The same is true of the safety
  properties of every other run, `queue`'s included.
* In `queue` the batch size is one, since two consumers with one entry each
  already interleave; `queue_live` has batches of two, with a gather that ends
  early and orphaned tasks.  Code has `count=10`, which only makes batches longer.
* `queue` has no reset because `AnswersTruthful` fails with one (finding 2);
  `queue_live` and `queue_reset` have.
* `client` has two executions of `GET /status`, one to leave a status in the cache and the
  checker to be served it, so `AlarmIsTornRead` meets both ways.  Two tickets let a req_id be
  sold twice if nothing prevented it, and two leftovers can leave none.  State constraints bound
  what is only the history of the load: a leftover is on its way once, and one answer on
  record is an error.  The client retries once where `load_client_async.py` retries twice: the
  second retry starts from what the first left, and two executions at a time already bound how
  many sends can be running on the server.
* In `cache` two commits are enough for an entry to be behind by one or by two, and
  two pollers for one to store what the other has just replaced.
* In `limiter` a bucket of two requests is empty after two, full again after two,
  and holds a fraction in between; one setting has the proportions of `main.py`, in the
  other the leaky bucket is the narrow one.  Three calls are enough for one
  to overtake another while a third finds its process cut off from Redis.

Symmetry is used only where no temporal property is checked under fairness.
`queue` uses the one permutation that swaps both processes together with
their handlers, since `ProcOf` ties them.

Deadlock is checked in every run; where a system ends, the action `Finished` lets a system stutter that
has handled every request of its plan.

### Fairness, and why the code justifies it

* `LockedSeller`: weak fairness of each thread (the operating system schedules
  every thread that is not blocked) and of the client, which sends its whole plan.
  Weak, because `threading.Lock` promises no order: a thread that sees the lock
  free and taken again and again is promised nothing, and `EveryBuyAnswered` holds
  only because the plan is finite.
* `TicketDb`: weak fairness of each task's steps; neither the pool nor the row lock
  is fair to any task.
* `BuyQueue`: weak fairness of each handler, consumer and task step and of the
  cooldown: the event loop runs ready tasks, Redis and PostgreSQL answer or fail,
  `BLPOP` has a timeout and time passes.  No fairness for arrivals, faults, crashes,
  resets or expiry.
* `LoadClient`: one weak fairness condition (`Running`): the client starts, and from then on, as
  long as some slot can take or post a send, some execution of the server can get on or the
  checker can read, one of these steps is taken.  A load is finite, so it needs no
  fairness between them, and none of timeouts, errors, rejections, leftovers, the cache or
  the other getters.
* `StatusCache`: weak fairness of the pollers and of `Expire`, because the entry is
  always written with `ex`.  None for `Invalidate`: its writer may die.
* `RateLimiter` has no liveness property: `allow` waits for nothing but Redis, whose
  silence `BuyQueue` models.

## 4. Findings

1. `queue_stream.py` says a pending entry is redelivered; nothing ever reads
   pending entries, so after a lost reply, a failed `RPUSH` or a crash it stays
   pending for ever.  A waiting client is served by the fallback.  (`queue_pending`)
2. `POST /reset` leaves the lists `result:{req_id}`; a result of the old run
   answers a buy of the new one with a ticket that does not exist.  (`queue_reset`)
3. `cache.py` says the write-path invalidation keeps the cached status fresh and the
   time to live only bounds missed invalidations; a fill that read before a sale and
   stores after its `DEL` leaves the old status for up to thirty seconds without
   anything having failed.  (`cache_race`)

Smaller differences between what the text says and what the models show, none of
them with a run of its own:

* `cache.py:35-36` expects that "the next successful read will reconcile" after a lost
  `DEL`; a read that hits returns the old entry until it expires (`StaleOnlyIfMissed`
  needs its second alternative, a missed invalidation).
* The local fallback of `rate_limiter.py` is called identical to the script, but keeps one
  timestamp for both buckets and moves it before it looks for a token, so a rejection
  loses time the leaky bucket should have leaked.  It errs on the strict side:
  `LocalBound` holds.
* `rate_limiter.py` takes `now` before the script runs.  A request with an older `now` sets
  `ts` back and the next one refills the same interval again: `AdmissionBound` holds
  only with the ghost `rewound` in it.
* With the settings of `main.py`, whose leaky bucket is as large and as fast as the token
  bucket, the leaky bucket never rejects anything (`LeakyBucketIdle`).
* After its cooldown the breaker lets every caller through at once, and a success that
  was under way when another task recorded a failure closes it again.

* The status that the checker gets may be a cached one: with `--no-reset`, or when somebody polls
  `/status`, a status read in two parts and stored after the `DEL` (`cache.py:66`) makes INV4
  fail for up to thirty seconds with nothing running (`AlarmIsTornRead` says "between
  the reads of that status", not "of this checker").
* An entry whose `atomic_buy` raised is answered "error" and acknowledged like any other
  (`queue_stream.py:105-112`), so the stream is the record of work not yet *answered*
  rather than of work "accepted but not yet sold" (`queue_stream.py:15-16`).

The naive seller hands out duplicate numbers, as `naive/main.py:209-212` and
`buyer/race_test.py:7` say: two buys both count, then both read back.  `DuplicatesOverlap` says
how far that goes: only to buys that overlap, until an increment is lost or somebody resets.
The naive seller breaks INV1 to INV4 as its comments announce; that is its purpose
and no finding.

## 5. What is proved

Every invariant and every action property of the passing runs, and both refinements, are
theorems.  They hold for every set of threads, tasks, requests, users, processes and calls,
every number of tickets and any number of faults, crashes and resets:

| Module | Theorem | States |
|---|---|---|
| `TicketServiceProofs` | `TypeCorrect`, `LedgerIsGapless`, `AnswersAreTruthful` | `Spec => []` of the three invariants of the contract |
| `LockedSellerProofs` | `TypeCorrect`, `NeverOversells`, `AnswersAreIdempotent`, `BooksAgree` | INV1 to INV4 of the locked seller |
| `LockedSellerProofs` | `Refines` | `Spec => Service!Spec`: the locked seller implements the contract |
| `LockedSellerProofs` | `StatusIsComplete` | no status misses a sale that it counts (`SellerStatus`) |
| `TicketDbProofs` | `TypeCorrect`, `TablesConsistent`, `OutcomesHold`, `BackstopNeverNeeded` | INV1-3 on the tables; the UNIQUE constraints never fire |
| `TicketDbProofs` | `Refines` | `Spec => Service!Spec`: the transactions implement the contract |
| `TicketDbProofs` | `StatusIsComplete` | `get_status` counts no ticket that it does not list, while nobody resets |
| `BuyQueueProofs` | `TypeCorrect` | types of handlers, consumers, tasks and of what Redis keeps |
| `BuyQueueProofs` | `SuccessIsKept` | `Spec => SuccessKept`: the success of a sale is not lost between its commit and its answer, unless something failed, crashed, was reset or expired |
| `BuyQueueProofs` | `AnswersAreTruthful`, `SuccessIsToldOnce` | whichever way an answer took it agrees with the database, and "success" is told once, until the first reset |
| `LoadClientProofs` | `ClientTypeCorrect`, `NeverFalseAlarm`, `BookkeepingAlarmExplained`, `TicketsAccountedFor` | the verdict of the client against a correct service is right |
| `LoadClientProofs` | `ClientUsesService` | `ClientSpec => Spec`: the client is one environment of the contract, so its invariants hold here too |
| `RateLimiterProofs` | `TypeCorrect`, `AdmissionIsBounded`, `TokensAreForRequests`, `LocalIsBounded`, `LeakyBucketNeverFull` | how much the buckets admit, for every setting of them and every skew of the clocks |
| `StatusCacheProofs` | `TypeCorrect`, `StaleOnlyWhenMissed` | an old status in the cache is about to be deleted, or missed its invalidation |
| `NaiveSellerProofs` | `OversellIsBounded`, `DuplicatesAreConcurrent`, `LateRetriesSafe`, `ReplaysNameGrants` | what the naive seller keeps without a lock |

They rest on the named assumptions of the modules only: `Total` is a natural number, the
bounds are natural numbers, the marker values are no requests, threads, tasks, jobs or
executions, every task has a pool, and the naive seller has a finite, non-empty pool of
threads (`ThreadsAssumption`: its bound is their number).  `AnswersAreTruthful` and
`SuccessIsToldOnce` of `BuyQueue` carry `budget.resets = MaxResets`, that is, no reset
yet, in their statement: with a reset the first is false (finding 2).

Each module has one inductive invariant, `IInv` (`ClientIInv`, `StatusIInv`), and one
lemma per action.  None of the properties is inductive by itself; what `IInv` adds to them
is what the steps that are under way know.

**The sellers** (`LockedSeller`, `TicketDb`).  "No overselling" says nothing of a thread
that has checked the stock and not yet counted its sale.  `IInv` adds what the lock buys:

* `Locked`: a thread (task) is inside the block (transaction) exactly when it owns
  the lock, so there is at most one;
* `NoStaleRead`: what that one has read (the recorded ticket, the count, the verdict
  about the stock) is still true when it acts on it;
* `Busy` / `OpKnown`: which request a step belongs to;
* in the locked seller `SaleInProgress` and `SoldOutIsFinal`: no answer given
  before can be contradicted by the sale under way.

INV4 holds in the locked seller only while the lock is free.  `Ledger` says what holds
inside the block: between `sold_count += 1` and each of the two writes that follow, the
dictionary in question lacks exactly the newest ticket.  It needs `IInv` and is proved on top of it.

The refinement of `TicketDb` maps `sold_count` and the rows to themselves and
a task's request to "pending" until its transaction ends: only `CommitSale`,
`LoseSaleAck`, the two answers, the two commits of a reset and a lost connection
change the abstract state, and `QuietRefines` shows that the others stutter.  In the
locked seller a sale takes effect at its last write (`RecordUser`), when it is
answered; until then the abstract counter lags one ticket behind `sold_count`.

**The status.**  `SellerStatus` reads the count under the lock and encodes the
dictionaries later; a dictionary only grows, and a reset binds a new one and leaves the
one under encoding alone, so each encoded part still covers what was counted.
`get_status` of `TicketDb` reads the count first and the rows only grow while nobody resets.

**The queue.**  `ResultsHonest` extends `AnswersTruthful` to the results nobody was told
yet: those a task is about to push and those in the lists.  That is enough because the
ledger never changes what a result says: `ticket_of` is written once per `req_id`, and
after "sold out" never again.  For `SuccessOnce`, the "success" of a `req_id` is one token
(`OneSuccess`): it appears when `Outcome` finds no ticket on record, and is then either
with a pushing task, or in the list, or told, and in one of them once; a consumer and a
fallback that both buy for one `req_id` share it, because the later one is told
"already processed".  A reset breaks all of this, since the lists survive it.
`SuccessKept` follows the same token: it leaves the pushing task only into a list, and a list only
into an answer.  What lets it get lost is a command that failed, a crash, a reset or the expiry
of the list.  `Calm` says what holds while none of the first three has happened: every circuit is
closed, no reset is under way, and every handler's answer counts.

**The client.**  `Waiting` ties each slot to an execution of its own send, `Answered` each
result to an answer of the service, `Accounted` each planned `req_id` to a send to come, a
send under way or a result; `Planned` that nothing else is sent, and `Phases` that the
checker asks when all that is over.  `StatusesSound` says what a status is worth, wherever it
is (in a getter, in the cache, with the checker) and however old: its rows are a gapless ledger
whose sales of the plan are still on record, and they agree with its count unless it is
marked `busy`; `Counting` says the same of one half read.  The verdict then follows from the theorems of `TicketServiceProofs`.

**The limiter.**  `Burst` and `Pace` state the two halves of `AdmissionBound` on the
buckets as the next script would find them, a lost key being a full bucket of tokens and
an empty leaky one.  `Complement` is the reason why a wide leaky bucket is idle: what has
leaked in is what was taken from the token bucket and has not come back.

**The cache.**  `FillsMarked` says that a poller that holds an old count or old rows does
so while an invalidation is owed, or is marked as having missed one; the entry is then
covered at the moment it is stored, whoever stores it.

**The naive seller.**  `ArmedBounded`: while no increment is lost, what is sold and the
threads that have seen stock and not stored their increment yet (`Armed`) are together at most
`Total` plus all threads but one.  A thread joins them only when `sold_count < Total`, and
leaves them with its store.  `NumbersGrow`: while nobody resets either, the counter is at least
every number answered, and a buy reads its number back after an increment of its own, so
it is above the numbers answered before it arrived.  `GrantsRemembered` and `SalesRemembered`
say where a granted number is kept.

Only model-checked: liveness (`EveryBuyAnswered`, `EveryCallEnds`, `BacklogDrains`,
`AckedUnlessDisturbed`, `LoadEnds`, `StatusSettles`), because properties under fairness
and ENABLED are outside what the prover handles, and the three runs that expect a
violation.  No module has a RECURSIVE operator.

## 6. Not modelled, and what comes next

Not modelled by choice: nginx and Docker configuration (it supplies constants),
`/health`, latency statistics and the printed report, command lines, HTTP itself, logs,
and the rounding of the rate limiter's floating point numbers.

Not modelled although it can happen:

* Redis losing its last second (`appendfsync everysec`) under the queue: entries,
  deliveries and acknowledgements may go back in time.  `BuyQueue` would need a second copy
  of the Redis state, which TLC cannot afford beside handlers and consumers.  In
  `StatusCache`, where the state is one key, it is modelled.
* Entries read before a reset and sold after it (`main.py:139`): a ticket of the new run goes
  to a buy of the old one.  `BuyQueue` has the behaviour; no document says otherwise, so
  there is no property to state.
* A result list whose `EXPIRE` failed stays until somebody pops it: `BuyQueue` has the
  behaviour (a list may stay for ever); only memory is lost.

Planned next, as proofs: what a reset leaves of the answers of `BuyQueue` (which of
`ResultsHonest` holds between two resets, with the lists of the old run named), and action
properties (a number once recorded for a `req_id` changes only with a reset).

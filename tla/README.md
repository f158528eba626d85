# A verification project for ironrhino

ironrhino is a full-stack Java platform (Spring, Hibernate, Struts 2, Redis).
Most of it is plumbing around libraries; what can go subtly wrong is the part
that coordinates threads and application instances: locks, permits, sequences,
membership, queues of database rows, caches, service discovery, data sources,
and the scripts that keep a page, its requests and its history together.  This
directory models that part in TLA+, checks it with TLC and proves with TLAPS
every safety property that the passing runs check.

Paths below are relative to `src/src/org/ironrhino/` unless they say otherwise.

## 1. The system's parts

Modelled (section 3 says how):

| part | state | operations | interacts with | what is hard | what makes it correct |
|---|---|---|---|---|---|
| lock service, `core/coordination` | per name a Redis key with a time to live and, per instance, an entry of `renewalFutures`; a map in the standalone version | `tryLock`, polling `tryLock`, `lock`, `unlock`, the watchdog | `core/throttle/MutexAspect`, scheduled tasks | lease against holder, watchdog removal against the next holder, crash, interrupt | mutual exclusion, a lease as long as its holder, no key left behind |
| concurrency permits, `core/throttle` | a Redis counter per name; a `Semaphore` in the standalone version | `tryAcquire`, timed `tryAcquire`, `acquire`, `release` | `ConcurrencyAspect`, inside `MutexAspect` | increment and revert are two steps, a crash leaks a permit, the limit may change | nobody is admitted beyond the limit, no permit is lost |
| cyclic sequences, `core/sequence/cyclic` | a Redis counter; a database sequence and a row with `LAST_UPDATED`; a MySQL row | `nextStringValue` | business keys | the turn of the cycle, taken by many callers at once; clocks; overflow | uniqueness; later calls get later numbers |
| simple sequences of MySQL, `core/sequence/simple` | a row, and a cached segment per instance | `nextLongValue`, `restart` | business keys | restart against cached segments | uniqueness |
| snowflake, `core/util/Snowflake` | last timestamp, sequence | `nextId` | entity ids | clock set back, wrap of the sequence | increasing ids |
| membership, `core/coordination/impl` | a Redis list per group, whose head is the leader | `join`, `leave`, `isLeader`, the heartbeat, `destroy` | `AppMembership`, pings between instances | removal by a stale snapshot, restarts at the same address, lost pings | a live member stays, leadership is stable, the list converges |
| service registry and client, `core/remoting` | hosts of a service in Redis and, per client, `importedServiceCandidates`, `discoveredHost` | register, unregister, detach, attach, discover, evict, calls with retries | events between instances | events against look-ups, a field shared by threads, crashed hosts that stay in Redis | a host is dropped for a cause of its own; calls get through while a host works |
| data source groups, `core/dataroute` | failure counts, a set of dead data sources | `getConnection`, `tryRecover` | connection pools | unsynchronised counts and set | a source is dropped after failures in a row; one that works is used again |
| polling control, `common/support` | rows with a status and attempts, a Redis list of ids | `doEnqueue` with its three passes, `doDequeue` | business handlers, the database, Redis | crash between commit and push, slow workers against resubmission, deduplication in two commands | every row ends, ends once, and is rarely handled twice |
| cache aspect, `core/cache/CacheAspect`, over the cache managers | cached values, a gate counter with a time to live, a map of lock objects per instance | both advices: check, gate, fill; evict, renew | the Redis cache manager | refused callers leave their increment, lost wake-up, fill after an eviction, a deletion whose failure is swallowed, expiry of the gate, values that hits renew | callers return, a shut gate has a time to live, an outdated value is one that escaped its eviction and goes with its time to live |
| front end, `src/webapp/assets/scripts/source` | history entries, the document, a progress bar, a growing list, the marks of buttons, a popup, `localStorage` | handlers of clicks, answers, timers and `popstate` | the browser, the server | answers out of order, timers of things that are gone, vetoes | the page shows what its address says, a form is sent once to the right place, a reload keeps the portal |

Not modelled (PROJECT.json lists the files and the reasons):

| part | why |
|---|---|
| batched workers of the polling control | the same queue, statements and guarded updates as `PollingControl`, for several rows at once |
| frequency limits, `core/throttle/FrequencyAspect` | increment, decision and revert in the order of the permits over Redis; the weighing of the last window by the time elapsed is one expression over real numbers |
| Redlock, `core/redis/Redlock` | no other class uses it; a lock over several servers needs their clocks and failures too. Its failed attempt unlocks by holder, which is the thread, so a thread that tries twice undoes its first attempt (line 138) |
| standalone membership and standalone service registry | plain maps in one instance |
| tree control, scheduled tasks and their circuit breaker, HTTP sessions, application events and topics, Redis queue and keyspace events, data source routing | a volatile field, a flag, one entry per request, one Redis command, a thread-local variable: one step each |
| throttle service, circuit breaker, bulkhead and rate limiter registries | maps of resilience4j objects; what is left is the library's |
| simple sequences of other databases and of Redis; dialects of the cyclic ones | each call is one statement; the Oracle and DB2 ways of restarting a sequence are texts |
| batch jobs, security (users, roles, filters, OAuth, WebAuthn, captcha, verification codes), entity services and Hibernate support, JDBC repositories, web layer, REST, remoting server and serializers, file storage, search, metrics, tracing, logging, settings, dictionaries and other common entities, Spring configuration, aspects and utilities, the sample application, forks of other projects | what the library or the database keeps; single requests, configuration, rendering, or code of others |
| other front-end scripts and vendored libraries | widgets that change one element in one handler; jQuery, Bootstrap, d3 and the like |

PROJECT.json lists the hazards by line, with the properties that cover them.

## 2. Plan

Done: the lock service, the permits and the composition of their standalone
versions; five number generators; membership, service discovery and data source
groups; the polling control; the cache gate; five parts of the front end.  Each
has a run with properties and a mutant for each.  The safety properties of all
passing runs are proved for every value of the constants (section 5).

The project holds a dozen runs, one per question.  Components that share no
state but answer to the same question are checked by one run: a module composes
them, with a variable that is chosen in the initial state and says which of
them moves (`MethodGuards`, `NumberGenerators`, `Failover`, `FrontEnd`).  The
theorems are about these modules; the MC modules only give the constants values.

To come: the refinement of `RedisMembership` by an abstract group whose list
changes by joins, leaves and verdicts only; what the violated runs leave of
their properties, as theorems with the exception spelled out (mutual exclusion
with `Races` as long as no removal is overtaken, `lock()` for callers nobody
interrupts, uniqueness with idle cycles on a clock that gives every turn a new
time).

## 3. Modules

A module has one action per step that other threads can see: a Redis command, a
statement, a map operation, a transaction.  What a thread does between two such
steps is part of the second.  Every property of a passing run has a mutant operator,
marked `Mutant:` and not used by the specification: it is a plausible bug in the
definition that follows it, and replacing that definition by it makes TLC report
the property.  Each module states its type invariant; the runs check those that
proofs rest on, or that a fault could break.

`Lists` has the operators on lists that proofs need to look into: `Only` (what is
in a set, in its order), `WithoutFirsts` (`LREM key 1`), `Occurrences`.  They
are recursive functions, since the prover cannot expand `SelectSeq` or a fold.

### Locks: `LockService`, `StandaloneLock`, `RedisLock`

`LockService` is the promise of the interface: `TryLock` by a thread while nobody
holds the lock, `Unlock` by one that does.  Names do not interact, so one name is
enough, and one variable, `holders`.  Both implementations map it to the set of
all threads inside the guarded operation, so that a second one is no step of
`LockService`.

`StandaloneLock` is `StandaloneLockService` with the polling methods of
`LockService` and with `MutexAspect` as a caller.  `locks` is the map's value,
`pc` where a thread is; `TryLockSucceeds` and `TryLockFails` are `putIfAbsent`,
`PollTimesOut`, `PollSleeps`, `PollWakes` and `PollInterrupted` the loop of
`tryLock(name, timeout, unit)`, `Unlock` is `remove(name, id)` or the
exception.  `Interrupted` names the calls somebody interrupts.

`RedisLock` is `RedisLockService`: `SetIfAbsent` is SETNX with the time to live,
`Schedule` the `computeIfAbsent` of the watchdog, `CompareAndDelete` and
`CancelWatchdog` the two halves of `unlock`, `Watchdog` one EXPIRE with what
follows from its result, `Crash` the end of an instance with all its threads
(a new instance has a new random id, so `Ghost` names every dead holder).  Time
is counted in ticks; `Tick` lowers the time to live, and a step that is due is
at most `Lag` ticks late.  `Races` says whether another `tryLock` of the
instance may come between DEL and the removal from `renewalFutures`; the code
allows it, and `Races = FALSE` states the assumption under which the lock is
correct.  `MCRedisLock` and `MCStandaloneLock` give the instances.

### Permits: `Permits`, `RedisConcurrency`, `StandaloneConcurrency`

`Permits` is the promise: a call is admitted while fewer calls run than the
limit it was made with.

`RedisConcurrency` is `ConcurrencyAspect` over `RedisConcurrencyService`:
`Increment`, `Revert`, `Wake` and `GiveUp` are the polling loops, `Release` the
finally block, `Crash` the end of a thread, `leaked` what the dead left in the
counter.  `StandaloneConcurrency` has the `Semaphore`: `GetSemaphore` creates or
finds it, `Acquire` takes a permit, `Fail` is a single attempt that finds none, or
a waiting call that times out or is interrupted, whichever it is, `Release`
returns the permit.  The semaphore keeps the limit of the first call, so with two
limits this service does not implement `Permits`; no text of the repository
promises that it does.

### Guards of methods: `StandaloneGuards`, `MethodGuards`

`StandaloneGuards` composes the two standalone services, one guard inside the
other.  A method that has both annotations has `MutexAspect` outside and
`ConcurrencyAspect` inside, as their orders say: the thread holds the lock while
it asks for a permit (`PermitStep`).  A method with a permit may call another
that asks for the lock (`LockStep` of a thread in `nested`).  So callers of
either guard may wait for each other.  `InnerMode` says how the lock is asked
for with a permit in hand: by `tryLock`, with or without a timeout, since the
program's own callers, `MutexAspect` (line 51) and
`core/security/otp/TotpVerificationCodeChecker` (line 72), use nothing else.
With `lock()` there, the lock's holder can wait for a permit in `acquire` while
all that have one wait for the lock, and nothing ends it: the mutant
`LockStepWaiting` is that program.
`MethodGuards` has this composition and `RedisConcurrency`, one or the other as
the variable `deployment` says; `MCMethodGuards` gives the instance, and
`MCRedisConcurrency` that of the run for timed calls.

### Numbers: `RedisCyclicSequence`, `DatabaseCyclicSequence`, `RowCyclicSequence`, `SegmentSequence`, `Snowflake`

`RedisCyclicSequence` models INCR and TIME of one pipeline as two steps, the
decision, and the compare-and-set script with its three attempts.  The counter
is `cycle * Base + suffix`, as in the code, so an overflow of the suffix is an
overflow into the digits of the cycle.

`DatabaseCyclicSequence` is `AbstractSequenceCyclicSequence` with the database
as environment: queries do not wait, updates wait for the row's lock, NEXTVAL
and ALTER SEQUENCE survive a rollback.  `Idle = FALSE` assumes that no whole
cycle passes without a number.

`RowCyclicSequence` is `MySQLCyclicSequence`: `SetVariable` reads the time into
the connection's variable, `Increment` and `Restart` are the two conditional
updates, each with the answer `LAST_INSERT_ID()` gives to its connection.
`turnedBack` is history: a call that was overtaken between reading the time and
`Restart`, whose condition asks for another cycle and not for a later one, has
turned the row back, after which numbers do repeat.

`SegmentSequence` is `MySQLSimpleSequence` with a cache.  `Enter` takes the
instance's lock, `Fetch` is the statement, `SetMax`, `SetNext`, `ReadNext`,
`WriteNext` the assignments, `Restart`, `RestartNext`, `RestartMax` the steps of
`restart`, which takes no lock.  `overlapped` is history: a restart emptied a
segment while a call was using it, or a call came between the two assignments.

`Snowflake` is one synchronized method with a clock that is set back between
calls, while a call spins, and while it sleeps; only the last, `overslept`,
breaks the order of ids.

`NumberGenerators` has the five, one at a time (`generator`), `MCNumberGenerators`
gives the instance; `MCDatabaseCyclicSequence` has the run with idle cycles.

`issued`, `answers` and `before` are history: all answers, their number, and
those given before a call began.

### Membership: `RedisMembership`

An id is one incarnation of an instance; a restarted instance has a new id at
the same `Address`.  `JoinRemove`, `JoinPush` and `JoinAdd` are the steps of
`join`; `LeaveRemove`, `LeaveForget` those of `leave`; `Destroy` is the
shutdown.  A heartbeat is `Begin` (the snapshot, and itself put back),
`PingAnswered` or `PingFails` for each other member, and `Send` for each Redis
command this leads to.  `MaxFalse` bounds the pings of live members that fail.

### Service discovery: `ServiceRegistry`

One service, its hosts, and one client with several threads.  A host goes
through `CleanUp` and `Register` (LREM, RPUSH) and `OnReady` (the event) when it
starts, `ContextClosed` and `Unregister` when it shuts down (the event comes
first), `Detach` and `DetachEvent` and then `CleanUp` and `Register` again when
it is detached and attached (without an event); `Crash` leaves it in Redis.
Events are a set from which `Receive` and `Lose` take any one.  A call goes
through `Discover`, if need be `Fetch` and `Put` or `NothingFound`, then `Pick`,
`Write` and `Read` of `discoveredHost`, and `Succeed`, or `Fail` and `Evict`,
for `maxAttempts` attempts.  `list` is what a call has in its hands: the list
it fetched, or a list object that the map no longer has.

### Data sources: `DataSourceGroup`

`GetConnection` picks a source, `Connect`, `Throw` and `Fail` are the outcomes
of an attempt, `Count` or `Forget` and `Mark` what a failure does to the counts
and to the set of dead sources; `BeginRound`, `Visit`, `StaysDead` and
`Recover` are `tryRecover` with the iterator of the plain `HashSet`, which an
addition invalidates (`round.modified`).  Operations on the set that overlap may
be lost (`LoseMark`, `StaysDead`).  `inRow` and `late` are history: failures
since the count was last removed, and sources where that happened between the
get and the put of another caller.

`Failover` has `RedisMembership`, `ServiceRegistry` and `DataSourceGroup`, one at
a time (`part`); `MCFailover` gives the instance.

### Cache: `CacheGate`

Values are versions of one object, and time is abstract: a value is fresh, due
(it may expire at any moment) or eternal.  `annotation` is chosen in the initial
state and says which of `timeToLive`, `timeToIdle` and `renewTimeToLive` are
given; `eternal = true`, and a time that is not positive, is no time to live.  A
reader goes through `Hit` or `Miss`, `Increment` of the gate counter, and on the
way of those refused `TakeLock`, `Wait`, `TimesOut` or `Interrupted`,
`RemoveLock`, `Recheck`; then `Proceed` or `ProceedFails`, `Put` or `PutNothing`,
`Open`, `Notify`, `Decrement`.  `Hit` makes a value fresh under a `timeToIdle`,
also one that was eternal.  (Under none it changes nothing, and is no step.)  A
writer goes through `Update`, then `Evict` or `NoKeys`, and `Renew`.  `locks` has
the lock object of each instance, so a wake-up may go to an object nobody waits
on.

Every command of Redis may fail.  `RedisCacheManager` swallows the failure of
`get`, which then is a `Miss`, of `mdelete` (`EvictFails`) and of `put`
(`RenewFails`), and lets that of `increment`, `putIfAbsent` and `decrement` leave
the advice (`IncrementFails`, `PutFails`, `DecrementFails`), with or without its
work done.  A `getWithTti` that fails after it renewed the value is a `Hit` and a
`Miss` after it.

`escaped` is history: the update that should have evicted the cached value, or
one as old, no longer will.  It becomes true when a fill or a renewal puts a
value that an update has overtaken, all newer evictions being over, and when an
eviction fails or has no key while an older value is cached.  `MCCacheGate` gives
the readers, their instances and two annotations: one whose hits renew, as
`security/oauth/server/service/ClientManagerImpl` has it, and an eternal one
with renewals that have a time to live, as `common/service/PageManagerImpl`.

### Front end: `PageNavigation`, `ProgressBar`, `ScrollList`, `FormSubmission`, `Portal`

Each models the handlers of one part of a page, a handler being one step, since
a browser runs one at a time; what comes between them is answers in any order,
timers and the user.  `FrontEnd` has them, one at a time (`part`); `MCPage` gives
the instance.

- `PageNavigation` (`ironrhino.core.js`, `ironrhino.upload.js`): `FollowLink`,
  `SubmitForm`, `SubmitVetoed` and `MakeFolder` push or replace entries,
  `PopState` and `PopStatePart` are `onpopstate`, `Answer` and `Failure` end a
  request.  `drifted` collects what keeps the document from its address.
- `ProgressBar`: the global events of jQuery (`Start`, `StartAnother`,
  `Progress`, `Hide`, `HideSimulated`, `Complete`) and the timers (`Remove`, `Tick`,
  `TickOrphan`).
- `ScrollList`: `Click`, `Scroll`, `Success`, `Failure`, and `Post` at the server.
- `FormSubmission` (with `ironrhino.ajaxform.js`, `ironrhino.alerts.js`):
  `Press`, `PressInvalid`, `SubmitByScript`, the answers to the confirmation,
  messages and their timers, `Complete`.
- `Portal` (`ironrhino.portal.js`): `Move`, `Close`, `Fold`, `Reload`, `Restore`
  over the three items of `localStorage`.  `Listing` pushes what is not on the
  list yet, so the clicks by which `Reload` folds again leave the list alone.

### Polling control: `PollingControl`

`row` and `age` are status, attempts and the time since `modifyDate`; `queue`
is the Redis list.  An enqueuer goes through `BeginCycle`, and for each pass
`Select` (the transaction) with `Push`, or with `Cut`, `Prepend` and `Push`
where it deduplicates, until `EndPass`.  A worker goes through `Pop`, `Look`, and
`GiveUp`, `Succeed`, `FailTemporarily` or `FailPermanently`, all of which
`Record` under the condition of the update statement.  `EnqueuerFails` and
`WorkerFails` are an exception or the death of the instance, at any point.
The retry pass is one query in the model and one per number of attempts in the
code, with the same union.  Rows may start with attempts used up, as after
`maxAttempts` was lowered, so that the branches for that case are reached.
Enqueuers belong to different instances; two overlapping passes of one instance
would behave as two instances do, except that they share `cycles`.
`MCPollingControl` gives the instance.

## 4. Runs

| run | instance | what it shows |
|---|---|---|
| `standalone_lock_interrupted` | 3 threads, interrupts in `lock()` too | **violated**: `lock()` returns without the lock when it is interrupted |
| `redis_lock` | 2 instances with 2 and 1 threads, `TTL = 6`, `Lag = 1`, 2 crashes, `Races = FALSE` | the lease lasts as long as its holder, the lock is exclusive, a dead holder's key expires; implements `LockService` |
| `redis_lock_race` | the same without crashes, `Races = TRUE` | **violated**: a `tryLock` between DEL and the removal of the watchdog loses its watchdog, its lease runs out and another instance takes the lock |
| `method_guards` | permits over Redis: 3 threads, limits 1 and 2, 1 death; guards of one JVM: 3 threads, all calls of the lock (with a permit in hand `tryLock` only), 2 permits, interrupts in the timed call | the counter accounts for every call and Redis implements `Permits`; the standalone services implement `LockService` and `Permits` while they are nested in either order, the map names the one thread inside, no unlock throws, and a call gets its answer or some thread is inside a guard and waits for nothing |
| `redis_concurrency_timeout` | timed calls | **violated**: `block = false` with a timeout waits, `docs/throttle.adoc` says it throws at once (`NonBlockingNeverSleeps`) |
| `number_generators` | 2 threads and 3 cycles each for Redis (`Base = 2`, so that cycles overflow), database (a clock that goes both ways, 1 death) and row; 2 instances with 3 threads, 1 restart, 1 failure for segments; 2 bits of sequence, 2 settings back for Snowflake | no number twice, ids grow, the counter and the database's record never go back, later calls get later numbers |
| `database_cyclic_sequence_idle` | idle cycles, a clock that only moves on, no death | **violated**: after an idle cycle the turn stores the time of an earlier query than the answer uses, so the next call restarts again and repeats the number |
| `failover` | members: 2 addresses, 3 incarnations, 1 lost ping, 1 leave, deaths anywhere; services: 2 hosts, up, crashed or detached, 2 calling threads, 3 attempts, 1 further fault; data: a master and a slave for reads and writes, up or down, 2 callers, 2 attempts, threshold 2, 1 further fault | a live member that no ping missed is never removed by others, the leader stays, the list becomes right; no host and no source is given up but for its own failures; what works is used in the end |
| `polling_control` | 1 row, 2 instances, 2 workers, 2 attempts, 1 failure anywhere | an ended row stays ended, a row has at most as many copies in the queue as there are enqueuers, two workers share a row only if it was late, every row ends |
| `cache_gate` | 2 readers of one instance, 2 writers, one that renews, 3 versions, values renewed by hits or eternal, commands that fail at any point | the counter of a shut gate has a time to live; an outdated value is there only before its eviction or if it escaped it, and does not stay unless it is eternal or hits renew it for ever; every call returns |
| `cache_gate_through` | 3 readers of 2 instances, 1 permit | **violated**: callers that waited too long, or come when the counter has expired, run the method next to the one the gate let through (`ThroughPermitsHold`) |
| `page` | 2 pages with 2 views, 3 entries, 2 requests; 3 requests of a bar; 6 items in pages of 2; 2 buttons; 3 portlets in 2 columns | entries restore the page, the document follows its address, the bar goes, the list has no gap and goes on, a form is sent once and to the right address and can be used again, a reload keeps the portal |

Properties with exceptions.  Some of this code keeps its promises only outside a
window it leaves open; the property then names the window by a history variable,
which is set in that window only, so that it says exactly when the promise
fails:

- sequences: a row turned back by an overtaken call, a restart that empties a
  segment in use, a clock set back during Snowflake's sleep;
- `OutForCause`: a thread overtaken between setting `discoveredHost` and reading
  it evicts the host of the other thread; a count of failures that was removed
  between the get and the put of another caller comes back;
- `StaleOnlyIfEscaped`: a fill or a renewal that an update had overtaken, a
  deletion that failed or had no key.  `EventuallyFresh` is about annotations
  that give a time to live, and allows for hits that renew it again and again:
  an eternal value that escaped its eviction stays, and one with a `timeToIdle`
  stays as long as it is read;
- `ShutGateExpires` says that a counter that keeps callers out has a time to
  live.  It does not say that the gate opens: each caller that is refused renews
  that time (`incrementAndExpireScript`), so steady misses can keep it shut,
  which costs each of them its `waitTimeout` (`CallsReturn`);
- page: answers that overtake each other, failed requests, a submission that is
  vetoed after its address was pushed, a folder that is made without
  `replaceState`; an interval left by a progress bar that a request began under
  while it was leaving; a failed request of the list; a press whose dialog
  vanished, or that the browser's validation refused, and whose mark stays; a
  script that submits; a veto that leaves the buttons disabled.

Bounds and why they are enough.  Two threads race; a third is there where the
second can be overtaken between its two steps by a third (`redis_lock`, whose
failure needs a holder, its successor in the same instance and a taker in
another) or where two may pass and one must not (permits).  Three cycles give
two turns, so a call of the first cycle can be late for both.  `Base = 2` gives
one suffix per cycle, and `MaxSuffix` leaves the sequence room to run on after a
lost restart.  `TTL = 6` is the smallest lease with `TTL > Delay + 2 * Lag` for a
`Lag` of 1.  Three incarnations at two addresses are a restart and a peer that
observes it.  Hosts and sources start in any mixture of working and not, so one
further fault makes a second failure; the data sources' defaults of three
attempts and three failures are one less here, which still needs failures of two
calls in a row.  Two attempts are one retry.  One row shows all races between
threads, as rows meet only in batches; the branch that both prepends and appends
needs a batch of two, which is not among the runs.  In `cache_gate` no reader
begins a call that would bring the counter beyond `MaxCount`, which is one more
than the permits, so that callers are refused; the behaviours of the default
annotation are those of the one renewed by hits in which no hit renews.  Three
portlets leave two after one is closed, of which one may be listed as folded and
the other named by an old layout.  The front end's
bounds likewise stop new actions of the user, never the end of one.  In the
sequences no call begins once a number was given twice, since nothing more can
be said of such a run.

`CHECK_DEADLOCK FALSE`: number generators stop when suffixes and cycles, values
or the clock are used up, and members when all incarnations are dead; these are
bounds of the models.

Fairness.  A running thread is scheduled (weak fairness of its steps) and time
passes (`Tick`).  In `StandaloneGuards` a polling call need not meet a free
lock and comes to its deadline however often it sleeps before (strong fairness
of `PollTimesOut`, as sleeping disables it), and `Acquire` is weakly fair, a
thread waiting in `Semaphore` being woken; nothing makes a thread call, or a wait
for a permit time out.  In `RedisMembership` the heartbeat is a
fixed-delay task and pings have timeouts; nothing makes instances start, leave
or die.  In `ServiceRegistry` a call that has begun goes on; hosts and events owe
nothing, and `WhatWorksIsUsed` speaks of runs in which some host stays up and
registered.  In `DataSourceGroup` calls go on and `tryRecover` is scheduled for
ever.  In `CacheGate` threads run, waits time out, and the time of a value
passes unless a hit renews it; no command must fail or succeed.  In `PollingControl` both tasks are scheduled for ever and handlers
return; `Pop` has strong fairness, because an id that is cut out of the queue and
put back by every resubmission makes it disabled for a moment again and again:
the dequeue task polls every ten seconds, the resubmission ten minutes apart.  No
liveness is claimed for the permits of Redis, as a leaked permit is never given
back, for any single caller of a polling lock, or for the front end, where only
the server could owe an answer.

## 5. Proofs

Each theorem holds for every value of the constants that the named ASSUMEs of the
modules admit, the bounds of the models among them.  TLC evaluates these
assumptions in the runs, and every inductive invariant below was an invariant
of a run before it was proved.  Hypotheses that a run of the project refutes
are no ASSUMEs but part of the theorems that need them.

| module | theorem | states | beyond the assumptions |
|---|---|---|---|
| `RedisLockProofs` | `TypeCorrectness` | `TypeOK` | |
| | `LeaseTheorem`, `MutualExclusionTheorem` | `LeaseOutlivesHolder`, `MutualExclusion` | `Timely`: no races, `TTL > Delay + 2 * Lag` |
| | `LockRefinement` | `ImplementsLock` | `Timely` |
| `MethodGuardsProofs` | `CounterTheorem`, `RefinementTheorem` | `CounterAccounts`, `ImplementsPermits` | |
| | `HolderTheorem`, `LockRefinement` | `MapNamesTheHolder`, `ImplementsLock` | `LockUninterrupted`: nobody interrupts `lock()`; `Missing`: `NoOne` is no thread |
| | `PermitsRefinement` | `StandalonePermits` | `OneLimit` |
| `NumberGeneratorsProofs` | `TypeCorrectness`, `UniquenessTheorem`, `CounterGrowsTheorem` | `TypeOK`, `UniqueNumbers`, `CounterGrows` | |
| | `OrderTheorem`, `NumbersInOrderTheorem` | `LaterCallsGetLaterNumbers`, `NumbersInOrder` | `TimeMovesOn`: Redis' clock does not go back |
| | `IssuedOnceTheorem`, `IdsGrowTheorem` | `IssuedOnce`, `IdsGrow` | |
| `FailoverProofs` | `MembersTheorem`, `LeaderTheorem` | `MembersAreKept`, `LeaderIsKept` | |
| | `CauseTheorem` | `OutForCause` | |
| `PollingControlProofs` | `TypeCorrect`, `FewCopiesTheorem`, `OneWorkerTheorem`, `EndedIsFinalTheorem` | `TypeOK`, `FewCopies`, `OneWorker`, `EndedIsFinal` | |
| `CacheGateProofs` | `ShutGateTheorem`, `StaleTheorem` | `ShutGateExpires`, `StaleOnlyIfEscaped` | |
| `FrontEndProofs` | `EntriesTheorem`, `DocumentTheorem` | `EntriesRestoreThePage`, `DocumentFollowsLocation` | |
| | `SettlesTheorem` | `PageSettles` | |
| | `ListTheorem`, `ScrollTheorem` | `ListInOrder`, `ScrollGoesOn` | |
| | `AddressTheorem`, `OneAtATimeTheorem`, `ButtonsTheorem` | `RightAddress`, `OneAtATime`, `ButtonsReturn` | |
| | `ReloadTheorem` | `ReloadKeepsThePortal` | |

`ListTheorems` holds the lemmas about lists that three of these modules share.

Along which invariants:

- Lock over Redis.  Mutual exclusion is not inductive: a thread may be admitted
  because another's key expired, which only the timing of the watchdog excludes.
  The invariant says that a holder has the key; that a watchdog is due before
  the key runs out, early enough for two late steps; that at most one thread of
  an instance is between SETNX and the removal of its watchdog.  With it the set
  of threads inside has one member at most, and every step is one of
  `LockService` or none.
- Permits.  The counter is the number of running calls and pending reverts plus
  what dead threads left, so an admitted call sees at least the number of
  running ones.  In one JVM the permits left and the permits taken add up to the
  limit, and no call passes `GetSemaphore` before there is a semaphore.
- Numbers.  Over Redis answers stand for counter values; those held by calls are
  distinct, not yet answered and not beyond the counter.  For the database: in
  steady use the clock, and every time read from it, is at most one cycle ahead
  of the row, and just one while a call turns the cycle; a number that was given,
  or that a call is about to give, is behind the sequence object, or of a cycle
  the row has left.  For the row, unless it was turned back: it holds the latest
  number, and a call that nobody overtook restarts it forward.  For the segments,
  unless a restart overlapped a call: what an instance is still to give was not
  given, no other instance is to give it, and the row is beyond it.  For
  Snowflake: the last id lies before the next of the present millisecond, and
  the parts of an id do not run into each other.
- Membership.  A command that removes a member is sent long after the snapshot
  and the ping it comes from.  It does no harm, as it can only be about a member
  that a ping missed or that is dead: whoever else answers at its address, or
  nobody there, means that it is not up, and the dead do not come back.
- Data sources.  The count of a source, and what a caller has read of it, never
  exceed its failures in a row, unless it is `late`.  For the hosts of a service
  each step shows the cause by itself.
- Polling control.  The copies of an id in the queue and the enqueuers about to
  push one are together no more than the enqueuers.  A row never selected is
  nowhere.  While no row is late an id that is out is in one place, the queue or
  the hands of one enqueuer or one worker, and its row is in process and not old
  enough to be resubmitted.  The row a worker handles has an attempt left, or
  has ended.
- Cache.  A positive counter has a time to live; a decrement that leaves it
  positive found it so, and a failing increment sets the time with its work.
  While the cached value is outdated a writer is about to evict that has written
  a newer version, or the value escaped; no version, cached, read or written, is
  newer than the database's, so each update sees every value as older.
- Navigation.  As long as answers come in order, answering the requests that are
  under way leads the document to its address; the page of one that was
  overtaken drifts when the last one ends.
- Progress bar.  While no request hurried, a bar that leaves has no interval and
  no interval has lost its bar.
- Growing list.  One request at most is under way, and it asks for what follows
  the last item shown.
- Forms.  An open dialog is about marks that are still there, and without a press
  left unanswered about the one button that was pressed; without scripts no
  submission begins while one is under way.
- Portal.  The columns hold what was not closed, as the stored layout places it,
  which names all of it, or as the server does if none is stored; nothing is
  listed twice as folded, so unfolding takes a portlet off the list; what is
  folded is what is listed, as far as it is there.

How the proofs deal with the prover.  Lists are proved about by induction over
their length as the membership in a set of naturals or lists, since lemmas with
an operator as parameter cannot be used; the least element of a set of naturals
comes from well-foundedness.  Powers of two cannot be reasoned about, so the
assumptions of `NumberGenerators` say of the widths of Snowflake's parts what is
needed: `2 ^ bits` is at least two, and the worker's id fits.  In the models a
missing number is -1 and not a model value, where the proofs compute with it.

Only model-checked, because liveness and ENABLED are out of reach:
`CrashedKeyExpires`, `CallsGetOn`, `ListConverges`, `WhatWorksIsUsed`,
`EveryRowEnds`, `EventuallyFresh` and `CallsReturn`.  The five violated runs
are counterexamples and need no proof.

## 6. What the models leave out

Redis is one server that executes commands one by one and loses nothing: a
failover that loses a key would break the lock and the sequences.  In
`RedisMembership` all instances run the same application.  `ListConverges`
admits instances that have left but whose last heartbeat put them back: the
code does not remove them while they answer.  In `DatabaseCyclicSequence` the
Oracle and DB2 ways of restarting a sequence object are left out, and so is a
clock set back across a restart that is half done.  In `StandaloneConcurrency`
the passing run has one limit.  In `ServiceRegistry` the variant for load
balancers, where a host may be listed twice, the fall back to the default
serializer, and the path of a service are left out (an event names a host with a
path without the `///` that Redis has, so such a host may be listed under two
names); with `maxAttempts = 1` a client would evict nobody, as the last failure
is thrown first.  In `DataSourceGroup` a thread sees the set of dead sources as
it is, though nothing makes its changes visible.  In `CacheGate` there is one
key, a hit of another type is left out, `get` and `expire` are one step for
servers without GETEX, and updates are committed when their method returns: an
eviction inside an outer transaction comes before the commit.

In the front end a page has one of each part, in one tab, and the whole screen
of a portal is left out.  Two tabs share the portal's items: unfolding what the
other tab has taken off the list makes `splice(-1, 1)` (`ironrhino.portal.js:99`)
take away another portlet's entry.  In `FormSubmission` a button of class
`noajax`, which leaves the handler with the mark in place, the focused button
that stands in for a missing mark, and `data-action` and `reload`, which switch
the confirmation off (`ironrhino.core.js:1597-1605`), are left out.

In `StandaloneGuards` no thread asks for a guard it has, and there is one lock
and one kind of permit.  In `RedisLock` EXPIRE does not fail: an exception of
it would end the periodic task and leave its future behind (`RedisLockService`
71-73); the death of an instance ends its threads and watchdogs at once, which
is more than `destroy()` does.  In `DataSourceGroup` a failing `setReadOnly`
(`GroupedDataSource` 183), which counts as a failure and leaves a connection
open, is left out.  In `SegmentSequence` the statements of `restart()`
(`MySQLSimpleSequence` 74-79) do not fail.  In `PollingControl` the LREMs of a
pass, which the code sends in one pipeline (207-211), are one step, rows are
not deleted, and `start` and `stop`, whose effect on tasks under way is that of
a failure, are not actions.

----------------------------- MODULE CacheGate -----------------------------
(***************************************************************************)
(* CacheAspect around the methods that read (@CheckCache) and change       *)
(* (@EvictCache) one cached object, over the Redis cache manager.  A miss  *)
(* passes a gate: a counter in the cache lets throughPermits callers       *)
(* through, the others wait on a lock object of their instance until a     *)
(* caller that came through notifies them or the wait times out, look into *)
(* the cache again, and then go through all the same.                      *)
(* A command of Redis may fail: a read that fails is a miss, a deletion or *)
(* renewal that fails is logged and the method goes on, any other failure  *)
(* leaves the method.                                                      *)
(*                                                                         *)
(* Values are versions of the object.  Time is abstract: a key that has a  *)
(* time to live may expire at any moment, a wait may time out at any       *)
(* moment.  One key; a hit of another type than the method's is left out.  *)
(***************************************************************************)
EXTENDS Integers, FiniteSets

CONSTANTS Readers,      \* threads that call the @CheckCache method
          Writers,      \* threads that call the @EvictCache method
          Instance,     \* the application instance of each reader
          Objects,      \* lock objects
          None,         \* no value, no counter, no lock object
          throughPermits,
          Renews,       \* the writers whose annotation has a renew expression
          Annotations,  \* what the annotations may say of the times: see below
          MaxVersion,   \* bound of the versions
          MaxCount      \* no call begins that would bring the counter beyond it

ASSUME CacheGateAssumption == /\ Readers \cap Writers = {} /\ Renews \subseteq Writers
                              /\ None \notin Objects
                              /\ Cardinality(Objects) > Cardinality(Readers)
                              /\ throughPermits \in Nat \ {0}
                              /\ {MaxVersion, MaxCount} \subseteq Nat
                              /\ Annotations \subseteq [timeToLive : BOOLEAN,
                                                        timeToIdle : BOOLEAN,
                                                        renewTimeToLive : BOOLEAN]

Threads == Readers \cup Writers

VARIABLES annotation, \* which of the three times are given: timeToLive is not
                      \* when the annotation is eternal or the time is not positive
          db,      \* the version the database holds
          cache,   \* the cached value: [version, life], or None
          gate,    \* the counter under keyMutex: [count, expires], or None
          locks,   \* each instance's map entry under keyMutex: a lock object or None
          pc,
          seen,    \* the version a reader has read, or a writer has written
          lock,    \* the lock object a reader waits on or is about to notify
          mutexed, \* the readers the gate let through
          escaped  \* history: an update was to evict a value as old as the cached
                   \* one, and no longer will

vars == <<annotation, db, cache, gate, locks, pc, seen, lock, mutexed, escaped>>

ReaderAt == {"idle", "gate", "lock", "enter", "waiting", "woken", "recheck",
             "proceed", "put", "open", "notify", "decrement"}
WriterAt == {"idle", "evict", "renew"}

N == Cardinality(Readers)

\* A value that has just been put or read, one whose time may be over at any
\* moment, one without a time to live.
Life == {"fresh", "due", "eternal"}

TypeOK == /\ annotation \in Annotations
          /\ db \in 0..MaxVersion
          /\ cache \in [version : 0..db, life : Life] \cup {None}
          /\ gate \in [count : (-N)..(MaxCount + N), expires : BOOLEAN]
                        \cup {None}
          /\ locks \in [{Instance[r] : r \in Readers} -> Objects \cup {None}]
          /\ pc \in [Threads -> ReaderAt \cup WriterAt]
          /\ \A r \in Readers : pc[r] \in ReaderAt
          /\ \A w \in Writers : pc[w] \in WriterAt
          /\ seen \in [Threads -> 0..db]
          /\ lock \in [Readers -> Objects \cup {None}]
          /\ \A r \in Readers : pc[r] \in {"enter", "waiting", "notify"} <=> lock[r] # None
          /\ mutexed \subseteq Readers
          /\ escaped \in BOOLEAN

Init == /\ annotation \in Annotations
        /\ db = 0 /\ cache = None /\ gate = None
        /\ locks = [i \in {Instance[r] : r \in Readers} |-> None]
        /\ pc = [t \in Threads |-> "idle"]
        /\ seen = [t \in Threads |-> 0]
        /\ lock = [r \in Readers |-> None]
        /\ mutexed = {}
        /\ escaped = FALSE

Goto(t, l) == pc' = [pc EXCEPT ![t] = l]

\* The method ends, by a return or an exception: its local variables go.
Return(r) == /\ Goto(r, "idle")
             /\ seen' = [seen EXCEPT ![r] = 0]
             /\ lock' = [lock EXCEPT ![r] = None]
             /\ mutexed' = mutexed \ {r}

local == <<seen, lock, mutexed>>
shared == <<annotation, db, cache, gate, locks, escaped>>

\* The part of the cache that is the value, and the rest of what is shared.
value == <<cache, escaped>>
settled == <<annotation, db>>

-----------------------------------------------------------------------------
Count == IF gate = None THEN 0 ELSE gate.count

\* A hit returns, and renews the time to live under a timeToIdle, also of a
\* value that had none.
Hit(r) == /\ pc[r] = "idle" /\ cache # None
          /\ annotation.timeToIdle
          /\ cache' = [cache EXCEPT !.life = "fresh"]
          /\ UNCHANGED <<settled, gate, locks, pc, local, escaped>>

\* A miss goes on.  A read that fails is one, whatever is cached.
Miss(r) == /\ pc[r] = "idle"
           /\ Count + Cardinality({q \in Readers : pc[q] = "gate"}) < MaxCount
           /\ Goto(r, "gate")
           /\ UNCHANGED <<shared, local>>

\* Mutant: the counter is given no time to live.
IncrementForEver(r) == /\ pc[r] = "gate"
                       /\ gate' = [count |-> Count + 1, expires |-> FALSE]
                       /\ IF Count + 1 <= throughPermits
                          THEN Goto(r, "proceed") /\ mutexed' = mutexed \cup {r}
                          ELSE Goto(r, "lock") /\ UNCHANGED mutexed
                       /\ UNCHANGED <<settled, value, locks, seen, lock>>

\* increment(keyMutex, 1, waitTimeout) <= throughPermits.  The script renews
\* the time to live of the counter whatever the outcome, and a caller that is
\* refused leaves its increment behind.
Increment(r) == /\ pc[r] = "gate"
                /\ gate' = [count |-> Count + 1, expires |-> TRUE]
                /\ IF Count + 1 <= throughPermits
                   THEN Goto(r, "proceed") /\ mutexed' = mutexed \cup {r}
                   ELSE Goto(r, "lock") /\ UNCHANGED mutexed
                /\ UNCHANGED <<settled, value, locks, seen, lock>>

\* The command throws, and may have done its work.
IncrementFails(r) == /\ pc[r] = "gate"
                     /\ gate' \in {gate, [count |-> Count + 1, expires |-> TRUE]}
                     /\ Return(r)
                     /\ UNCHANGED <<settled, value, locks>>

\* A lock object that nobody knows: what new Object() returns.
NewObject == CHOOSE o \in Objects : /\ \A i \in DOMAIN locks : locks[i] # o
                                    /\ \A r \in Readers : lock[r] # o

\* locks.computeIfAbsent(keyMutex, ...)
TakeLock(r) == /\ pc[r] = "lock"
               /\ LET o == IF locks[Instance[r]] = None THEN NewObject
                                                        ELSE locks[Instance[r]]
                  IN  /\ locks' = [locks EXCEPT ![Instance[r]] = o]
                      /\ lock' = [lock EXCEPT ![r] = o]
               /\ Goto(r, "enter")
               /\ UNCHANGED <<settled, value, gate, seen, mutexed>>

\* synchronized (lock) { lock.wait(waitTimeout) }: the wait begins.
Wait(r) == /\ pc[r] = "enter"
           /\ Goto(r, "waiting")
           /\ UNCHANGED <<shared, local>>

\* Mutant: lock.wait() without a timeout; only an interrupt ends it.
WaitForEver(r) == pc[r] = "waiting" /\ FALSE /\ UNCHANGED vars

\* The wait times out.
TimesOut(r) == /\ pc[r] = "waiting"
               /\ Goto(r, "woken")
               /\ lock' = [lock EXCEPT ![r] = None]
               /\ UNCHANGED <<shared, seen, mutexed>>

\* lock.wait throws InterruptedException, which leaves the method.
Interrupted(r) == pc[r] = "waiting" /\ Return(r) /\ UNCHANGED shared

\* locks.remove(keyMutex) by a caller that waited, whatever object is there.
RemoveLock(r) == /\ pc[r] = "woken"
                 /\ locks' = [locks EXCEPT ![Instance[r]] = None]
                 /\ Goto(r, "recheck")
                 /\ UNCHANGED <<settled, value, gate, local>>

\* A hit is returned; on a miss, or a read that fails, the caller goes through
\* without a permit.
Recheck(r) == /\ pc[r] = "recheck"
              /\ \/ cache # None /\ Return(r)
                 \/ Goto(r, "proceed") /\ UNCHANGED local
              /\ UNCHANGED shared

\* jp.proceed(): the method reads the database.
Proceed(r) == /\ pc[r] = "proceed"
              /\ seen' = [seen EXCEPT ![r] = db]
              /\ Goto(r, "put")
              /\ UNCHANGED <<shared, lock, mutexed>>

\* jp.proceed() throws: neither the waiters nor the counter learn of it.
ProceedFails(r) == pc[r] = "proceed" /\ Return(r) /\ UNCHANGED shared

\* What a caller does after its put: one that came through the gate opens it.
AfterPut(r) == IF r \in mutexed
               THEN /\ Goto(r, "open")
                    /\ seen' = [seen EXCEPT ![r] = 0]
                    /\ UNCHANGED <<lock, mutexed>>
               ELSE Return(r)

\* Some update that is yet to evict would evict a value of version v.
ToBeEvicted(v) == \E w \in Writers : pc[w] = "evict" /\ seen[w] > v

\* A value of version v is put.
Store(v, timed) == /\ cache' = [version |-> v,
                                life |-> IF timed THEN "fresh" ELSE "eternal"]
                   /\ escaped' = (v < db /\ ~ToBeEvicted(v))

\* putIfAbsent.
Fill(r, timed) == IF cache = None THEN Store(seen[r], timed) ELSE UNCHANGED value

\* Mutant: the value is put without a time to live, whatever the annotation says.
PutForEver(r) == /\ pc[r] = "put"
                 /\ Fill(r, FALSE)
                 /\ AfterPut(r)
                 /\ UNCHANGED <<settled, gate, locks>>

Put(r) == /\ pc[r] = "put"
          /\ Fill(r, annotation.timeToLive)
          /\ AfterPut(r)
          /\ UNCHANGED <<settled, gate, locks>>

\* putIfAbsent throws, and may have put the value: the gate stays as it is.
PutFails(r) == /\ pc[r] = "put"
               /\ Fill(r, annotation.timeToLive) \/ UNCHANGED value
               /\ Return(r)
               /\ UNCHANGED <<settled, gate, locks>>

\* The when expression is false, or the result is null: nothing is put.
PutNothing(r) == pc[r] = "put" /\ AfterPut(r) /\ UNCHANGED shared

\* locks.remove(keyMutex) by a caller that came through the gate.
Open(r) == /\ pc[r] = "open"
           /\ lock' = [lock EXCEPT ![r] = locks[Instance[r]]]
           /\ locks' = [locks EXCEPT ![Instance[r]] = None]
           /\ Goto(r, IF locks[Instance[r]] = None THEN "decrement" ELSE "notify")
           /\ UNCHANGED <<settled, value, gate, seen, mutexed>>

\* synchronized (lock) { lock.notifyAll() }: wakes who waits on that object now.
Notify(r) == /\ pc[r] = "notify"
             /\ LET woken == {q \in Readers : pc[q] = "waiting" /\ lock[q] = lock[r]}
                IN  /\ pc' = [t \in Threads |-> IF t = r THEN "decrement"
                                                ELSE IF t \in woken THEN "woken" ELSE pc[t]]
                    /\ lock' = [q \in Readers |-> IF q \in woken \cup {r} THEN None
                                                                     ELSE lock[q]]
             /\ UNCHANGED <<shared, seen, mutexed>>

\* decrement(keyMutex, 1, 0): INCRBY -1, which leaves the time to live alone;
\* a counter that has expired comes back as -1 without one.
Decrement(r) == /\ pc[r] = "decrement"
                /\ gate' = [count |-> Count - 1,
                            expires |-> gate # None /\ gate.expires]
                /\ Return(r)
                /\ UNCHANGED <<settled, value, locks>>

\* The command throws and has done nothing: the increment is left behind.
DecrementFails(r) == pc[r] = "decrement" /\ Return(r) /\ UNCHANGED shared

-----------------------------------------------------------------------------
\* jp.proceed() of the @EvictCache method: the change is committed.  (When it
\* throws, nothing else happens.)
Update(w) == /\ pc[w] = "idle"
             /\ db < MaxVersion
             /\ db' = db + 1
             /\ seen' = [seen EXCEPT ![w] = db + 1]
             /\ Goto(w, "evict")
             /\ UNCHANGED <<annotation, value, gate, locks, lock, mutexed>>

\* The method ends.
Finish(w) == Goto(w, "idle") /\ seen' = [seen EXCEPT ![w] = 0]

\* What follows the eviction: renew, or the end of the method.
AfterEvict(w) == IF w \in Renews THEN Goto(w, "renew") /\ UNCHANGED seen ELSE Finish(w)

Remove == cache' = None /\ escaped' = FALSE

\* Mutant: no eviction before a renewal, which would overwrite the value anyway.
EvictUnlessRenewed(w) == /\ pc[w] = "evict"
                         /\ IF w \in Renews THEN UNCHANGED value ELSE Remove
                         /\ AfterEvict(w)
                         /\ UNCHANGED <<settled, gate, locks, lock, mutexed>>

\* mdelete(keys).
Evict(w) == /\ pc[w] = "evict"
            /\ Remove
            /\ AfterEvict(w)
            /\ UNCHANGED <<settled, gate, locks, lock, mutexed>>

\* What the update should have evicted is still there.
Escape(w) == /\ escaped' = (escaped \/ (cache # None /\ cache.version < seen[w]))
             /\ UNCHANGED <<settled, cache, gate, locks, lock, mutexed>>

\* mdelete logs the failure of the command, and the method goes on.
EvictFails(w) == pc[w] = "evict" /\ AfterEvict(w) /\ Escape(w)

\* No keys come out of the expression, or the aspect is bypassed.
NoKeys(w) == pc[w] = "evict" /\ Finish(w) /\ Escape(w)

\* put of the renewed value, which overwrites.
Renew(w) == /\ pc[w] = "renew"
            /\ Store(seen[w], annotation.renewTimeToLive)
            /\ Finish(w)
            /\ UNCHANGED <<settled, gate, locks, lock, mutexed>>

\* The expression has no value, or put logs the failure of the command.
RenewFails(w) == pc[w] = "renew" /\ Finish(w) /\ UNCHANGED <<shared, lock, mutexed>>

-----------------------------------------------------------------------------
\* The time since the value was put, or was last renewed by a hit, passes.
CacheAges == /\ cache # None /\ cache.life = "fresh"
             /\ cache' = [cache EXCEPT !.life = "due"]
             /\ UNCHANGED <<settled, gate, locks, pc, local, escaped>>

CacheExpires == /\ cache # None /\ cache.life = "due"
                /\ Remove
                /\ UNCHANGED <<settled, gate, locks, pc, local>>

\* The clock that ends the life of a value.
TimePasses == CacheAges \/ CacheExpires

GateExpires == /\ gate # None /\ gate.expires
               /\ gate' = None
               /\ UNCHANGED <<settled, value, locks, pc, local>>

\* The steps by which a thread goes on with the call it has begun.
ReaderStep(r) == \/ Increment(r) \/ IncrementFails(r)
                 \/ TakeLock(r) \/ Wait(r) \/ TimesOut(r) \/ RemoveLock(r) \/ Recheck(r)
                 \/ Proceed(r) \/ ProceedFails(r) \/ Put(r) \/ PutFails(r) \/ PutNothing(r)
                 \/ Open(r) \/ Notify(r) \/ Decrement(r) \/ DecrementFails(r)

WriterStep(w) == \/ Evict(w) \/ EvictFails(w) \/ NoKeys(w)
                 \/ Renew(w) \/ RenewFails(w)

Next == \/ \E r \in Readers : Hit(r) \/ Miss(r) \/ ReaderStep(r) \/ Interrupted(r)
        \/ \E w \in Writers : Update(w) \/ WriterStep(w)
        \/ TimePasses \/ GateExpires

\* Running threads are scheduled, a wait has a timeout, and time passes.
Fairness == /\ \A r \in Readers : WF_vars(ReaderStep(r))
            /\ \A w \in Writers : WF_vars(WriterStep(w))
            /\ WF_vars(TimePasses)

Spec == Init /\ [][Next]_vars /\ Fairness

-----------------------------------------------------------------------------
Stale == cache # None /\ cache.version < db

\* A gate that is shut, or on its way there, has a time to live, although the
\* way out of the gate gives it none and may bring an expired counter back:
\* the gate does not stay shut once the misses stop.  (While they come it may:
\* each caller that is refused renews the time to live.)
ShutGateExpires == gate # None /\ gate.count > 0 => gate.expires

\* The cache holds an outdated value only while an update is yet to evict it,
\* or when that value has escaped its eviction: put by a fill or a renewal
\* that the update had overtaken, or left there by a deletion that failed or
\* had no key.
StaleOnlyIfEscaped == Stale => escaped \/ ToBeEvicted(cache.version)

\* Once the updates have ended, what has escaped its eviction does not stay,
\* where the annotations give values a time to live and no hit renews it for
\* ever: from some moment on the cache holds the present version or nothing.
EventuallyFresh == annotation.timeToLive /\ annotation.renewTimeToLive
                     => <>[]~Stale \/ []<><<\E r \in Readers : Hit(r)>>_vars

\* No call is stuck: a wake-up that comes before the wait, is sent to another
\* object, in another instance, or never because the method failed, costs a
\* waiter its timeout and no more.
CallsReturn == \A r \in Readers : pc[r] # "idle" ~> pc[r] = "idle"

\* docs/cache.adoc:47: throughPermits is the largest number of concurrent
\* calls that pass through while the value is not cached.
ThroughPermitsHold == Cardinality({r \in Readers : pc[r] = "proceed"}) <= throughPermits
=============================================================================

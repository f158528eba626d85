-------------------------- MODULE CacheGateProofs --------------------------
(***************************************************************************)
(* What keeps callers out of the gate has a time to live, and the cache    *)
(* holds an outdated value only before its eviction or where it escaped    *)
(* it, for any readers, writers, instances, permits and annotations.       *)
(***************************************************************************)
EXTENDS CacheGate, TLAPS

-----------------------------------------------------------------------------
(* The counter                                                             *)

\* Of what the counter looks like only two things are needed.
GateTyped == gate # None => gate.count \in Int /\ gate.expires \in BOOLEAN

GateInv == GateTyped /\ ShutGateExpires

LEMMA InitGateInv == Init => GateInv
  BY DEF Init, GateInv, GateTyped, ShutGateExpires

\* A decrement that leaves the gate shut found it shut, and so expiring.
LEMMA DecrementStep == ASSUME GateInv, NEW r \in Readers, Decrement(r)
                       PROVE  GateInv'
  <1> USE DEF GateInv, GateTyped, ShutGateExpires
  <1>1. CASE gate = None
    <2>1. gate'.count = Count - 1
      BY DEF Decrement
    <2>2. gate'.expires = (gate # None /\ gate.expires)
      BY DEF Decrement
    <2>3. Count = 0 /\ (gate # None /\ gate.expires) = FALSE
      BY <1>1 DEF Count
    <2>4. gate'.expires = FALSE
      BY <2>2, <2>3
    <2>5. gate'.count = -1
      BY <2>1, <2>3
    <2>6. gate'.count \in Int /\ ~(gate'.count > 0)
      BY <2>5
    <2>7. gate'.expires \in BOOLEAN
      BY <2>4
    <2>8. QED
      BY <2>6, <2>7
  <1>2. CASE gate # None
    <2>1. gate' = [count |-> gate.count - 1, expires |-> gate.expires]
      BY <1>2 DEF Decrement, Count
    <2>2. gate'.count = gate.count - 1 /\ gate'.expires = gate.expires
      BY <2>1
    <2>3. QED
      BY <1>2, <2>2
  <1>3. QED
    BY <1>1, <1>2

LEMMA NextGateInv == ASSUME GateInv, [Next]_vars PROVE GateInv'
  \* Most steps leave the counter alone, or forget it.
  <1>quiet. ASSUME gate' = gate \/ gate' = None PROVE GateInv'
    BY <1>quiet DEF GateInv, GateTyped, ShutGateExpires
  <1>1. ASSUME NEW r \in Readers, Increment(r) PROVE GateInv'
    <2>1. Count \in Int
      BY DEF Count, GateInv, GateTyped
    <2>2. gate' = [count |-> Count + 1, expires |-> TRUE]
      BY <1>1 DEF Increment
    <2>3. gate'.count = Count + 1 /\ gate'.expires = TRUE
      BY <2>2
    <2>4. gate'.count \in Int
      BY <2>1, <2>3
    <2>5. gate'.expires \in BOOLEAN /\ gate'.expires
      BY <2>3
    <2>6. GateTyped' /\ ShutGateExpires'
      BY <2>4, <2>5 DEF GateTyped, ShutGateExpires
    <2>7. QED
      BY <2>6 DEF GateInv
  <1>2. ASSUME NEW r \in Readers, Decrement(r) PROVE GateInv'
    BY <1>2, DecrementStep
  <1>3. ASSUME NEW r \in Readers, IncrementFails(r) PROVE GateInv'
    <2>1. Count \in Int
      BY DEF Count, GateInv, GateTyped
    <2>2. CASE gate' = gate
      BY <2>2, <1>quiet
    <2>3. CASE gate' = [count |-> Count + 1, expires |-> TRUE]
      <3>1. gate'.count = Count + 1 /\ gate'.expires = TRUE
        BY <2>3
      <3>2. gate'.count \in Int
        BY <2>1, <3>1
      <3>3. gate'.expires \in BOOLEAN /\ gate'.expires
        BY <3>1
      <3>4. QED
        BY <3>2, <3>3 DEF GateInv, GateTyped, ShutGateExpires
    <2>4. QED
      BY <1>3, <2>2, <2>3 DEF IncrementFails
  <1>4. ASSUME NEW r \in Readers,
               \/ Hit(r) \/ Miss(r) \/ Interrupted(r)
               \/ TakeLock(r) \/ Wait(r) \/ TimesOut(r) \/ RemoveLock(r) \/ Recheck(r)
               \/ Proceed(r) \/ ProceedFails(r) \/ Put(r) \/ PutFails(r) \/ PutNothing(r)
               \/ Open(r) \/ Notify(r) \/ DecrementFails(r)
        PROVE  GateInv'
    BY <1>4, <1>quiet DEF Hit, Miss, Interrupted, TakeLock, Wait, TimesOut, RemoveLock,
       Recheck, Proceed, ProceedFails, Put, PutFails, PutNothing, Open, Notify,
       DecrementFails, shared
  <1>5. ASSUME NEW w \in Writers, Update(w) \/ WriterStep(w) PROVE GateInv'
    BY <1>5, <1>quiet DEF Update, WriterStep, Evict, EvictFails, NoKeys, Escape, Renew,
       RenewFails, shared
  <1>6. CASE TimePasses \/ GateExpires \/ UNCHANGED vars
    BY <1>6, <1>quiet DEF TimePasses, CacheAges, CacheExpires, GateExpires, vars
  <1>7. QED
    BY <1>1, <1>2, <1>3, <1>4, <1>5, <1>6 DEF Next, ReaderStep

\* The counter that keeps callers out has a time to live, whatever increments
\* are left behind and whichever decrements meet a counter that has expired.
THEOREM ShutGateTheorem == Spec => []ShutGateExpires
  <1>1. GateInv /\ [Next]_vars => GateInv'
    BY NextGateInv
  <1>2. GateInv => ShutGateExpires
    BY DEF GateInv
  <1>3. QED
    BY InitGateInv, <1>1, <1>2, PTL DEF Spec

-----------------------------------------------------------------------------
(* The cached value                                                        *)

\* Nobody else moves a writer that is about to evict, and no version is newer
\* than the database's.
Typed == /\ pc \in [Threads -> ReaderAt \cup WriterAt]
         /\ db \in Nat
         /\ seen \in [Threads -> 0..db]
         /\ cache \in [version : 0..db, life : Life] \cup {None}

ValueInv == Typed /\ StaleOnlyIfEscaped

LEMMA InitValueInv == Init => ValueInv
  BY DEF Init, ValueInv, Typed, StaleOnlyIfEscaped, Stale, ReaderAt, WriterAt, Threads

\* What is stored is in order: outdated, it counts as escaped unless an update
\* that is newer is still to evict.
LEMMA StoreStep ==
  ASSUME NEW v \in 0..db, NEW timed, db \in Nat, Store(v, timed), db' = db,
         \A w \in Writers : pc[w] = "evict" => pc'[w] = "evict" /\ seen'[w] = seen[w]
  PROVE  cache' \in [version : 0..db, life : Life] /\ StaleOnlyIfEscaped'
  <1>1. cache'.version = v
    BY DEF Store
  <1>2. escaped' = (v < db /\ ~ToBeEvicted(v))
    BY DEF Store
  <1>3. ToBeEvicted(v) => ToBeEvicted(cache.version)'
    BY <1>1 DEF ToBeEvicted
  <1>4. cache' \in [version : 0..db, life : Life]
    BY DEF Store, Life
  <1>5. QED
    BY <1>1, <1>2, <1>3, <1>4 DEF StaleOnlyIfEscaped, Stale

LEMMA NextValueInv == ASSUME ValueInv, [Next]_vars PROVE ValueInv'
  <1> USE DEF ValueInv, Typed, Threads, ReaderAt, WriterAt
  <1>disjoint. \A r \in Readers : r \notin Writers
    BY CacheGateAssumption
  <1>reader. Readers \subseteq Threads /\ Writers \subseteq Threads
    OBVIOUS
  \* The value stays or goes, and no writer gives up its eviction.
  <1>quiet. ASSUME pc' \in [Threads -> ReaderAt \cup WriterAt],
                   seen' \in [Threads -> 0..db], db' = db,
                   \A w \in Writers : pc[w] = "evict" => pc'[w] = "evict" /\ seen'[w] = seen[w],
                   \/ cache' = None
                   \/ UNCHANGED value
            PROVE  ValueInv'
    BY <1>quiet DEF StaleOnlyIfEscaped, Stale, ToBeEvicted, value
  <1>aged. ASSUME NEW l \in Life, cache # None, cache' = [cache EXCEPT !.life = l],
                  UNCHANGED <<pc, seen, db, escaped>>
           PROVE  ValueInv'
    <2>1. cache \in [version : 0..db, life : Life]
      BY <1>aged
    <2>2. cache'.version = cache.version /\ cache' \in [version : 0..db, life : Life]
      BY <1>aged, <2>1
    <2>3. StaleOnlyIfEscaped'
      BY <1>aged, <2>2 DEF StaleOnlyIfEscaped, Stale, ToBeEvicted
    <2>4. Typed'
      BY <1>aged, <2>2
    <2>5. QED
      BY <2>3, <2>4
  \* The steps of a reader that neither put a value nor touch others.
  <1>1. ASSUME NEW r \in Readers,
               \/ Miss(r) \/ Interrupted(r) \/ Increment(r) \/ IncrementFails(r)
               \/ TakeLock(r) \/ Wait(r) \/ TimesOut(r) \/ RemoveLock(r) \/ Recheck(r)
               \/ Proceed(r) \/ ProceedFails(r) \/ PutNothing(r) \/ Open(r)
               \/ Decrement(r) \/ DecrementFails(r)
        PROVE  ValueInv'
    <2>1. /\ pc' \in [Threads -> ReaderAt \cup WriterAt]
          /\ \A w \in Writers : pc'[w] = pc[w]
      BY <1>1, <1>disjoint
         DEF Miss, Interrupted, Increment, IncrementFails, TakeLock, Wait, TimesOut,
             RemoveLock, Recheck, Proceed, ProceedFails, PutNothing, AfterPut, Open,
             Decrement, DecrementFails, Return, Goto
    <2>2. /\ seen' \in [Threads -> 0..db]
          /\ \A w \in Writers : seen'[w] = seen[w]
      BY <1>1, <1>disjoint
         DEF Miss, Interrupted, Increment, IncrementFails, TakeLock, Wait, TimesOut,
             RemoveLock, Recheck, Proceed, ProceedFails, PutNothing, AfterPut, Open,
             Decrement, DecrementFails, Return, local
    <2>3. UNCHANGED value /\ db' = db
      BY <1>1 DEF Miss, Interrupted, Increment, IncrementFails, TakeLock, Wait, TimesOut,
             RemoveLock, Recheck, Proceed, ProceedFails, PutNothing, Open, Decrement,
             DecrementFails, shared, settled, value
    <2>4. QED
      BY <2>1, <2>2, <2>3, <1>quiet
  <1>2. ASSUME NEW r \in Readers, Put(r) \/ PutFails(r) PROVE ValueInv'
    <2>1. /\ pc' \in [Threads -> ReaderAt \cup WriterAt]
          /\ \A w \in Writers : pc'[w] = pc[w]
      BY <1>2, <1>disjoint DEF Put, PutFails, AfterPut, Return, Goto
    <2>2. /\ seen' \in [Threads -> 0..db] /\ db' = db
          /\ \A w \in Writers : seen'[w] = seen[w]
      BY <1>2, <1>disjoint DEF Put, PutFails, AfterPut, Return, settled
    <2>3. CASE UNCHANGED value
      BY <2>1, <2>2, <2>3, <1>quiet DEF value
    <2>4. CASE Store(seen[r], annotation.timeToLive)
      <3>1. seen[r] \in 0..db
        OBVIOUS
      <3>2. QED
        BY <2>1, <2>2, <2>4, <3>1, StoreStep
    <2>5. QED
      BY <1>2, <2>3, <2>4 DEF Put, PutFails, Fill
  <1>3. ASSUME NEW r \in Readers, Hit(r) PROVE ValueInv'
    <2>1. UNCHANGED <<pc, seen, db, escaped>>
      BY <1>3 DEF Hit, local, settled
    <2>2. cache # None /\ cache' = [cache EXCEPT !.life = "fresh"]
      BY <1>3 DEF Hit
    <2>3. QED
      BY <2>1, <2>2, <1>aged DEF Life
  <1>4. ASSUME NEW r \in Readers, Notify(r) PROVE ValueInv'
    <2>1. /\ pc' \in [Threads -> ReaderAt \cup WriterAt]
          /\ \A w \in Writers : pc'[w] = pc[w]
      BY <1>4, <1>disjoint DEF Notify
    <2>2. QED
      BY <1>4, <2>1, <1>quiet DEF Notify, shared, value
  <1>5. ASSUME NEW w \in Writers, Update(w) PROVE ValueInv'
    <2>1. /\ pc' \in [Threads -> ReaderAt \cup WriterAt] /\ pc'[w] = "evict"
          /\ db' = db + 1
          /\ seen' \in [Threads -> 0..db'] /\ seen'[w] = db + 1
          /\ UNCHANGED value
      BY <1>5 DEF Update, Goto
    <2>2. cache' \in [version : 0..db', life : Life] \cup {None}
      BY <2>1 DEF value
    <2>3. cache # None => cache.version \in 0..db
      OBVIOUS
    <2>4. cache' # None => ToBeEvicted(cache.version)'
      BY <2>1, <2>3 DEF ToBeEvicted, value
    <2>5. StaleOnlyIfEscaped'
      BY <2>4 DEF StaleOnlyIfEscaped, Stale
    <2>6. QED
      BY <2>1, <2>2, <2>5
  \* A writer that goes on.
  <1>6. ASSUME NEW w \in Writers, Evict(w) \/ EvictFails(w) \/ NoKeys(w)
        PROVE  ValueInv'
    <2>1. /\ pc' \in [Threads -> ReaderAt \cup WriterAt]
          /\ seen' \in [Threads -> 0..db] /\ db' = db
          /\ \A u \in Writers \ {w} : pc'[u] = pc[u] /\ seen'[u] = seen[u]
      BY <1>6 DEF Evict, EvictFails, NoKeys, Escape, AfterEvict, Finish, Goto, settled
    <2>2. CASE cache' = None
      BY <2>1, <2>2 DEF StaleOnlyIfEscaped, Stale
    <2>3. CASE Escape(w)
      <3>1. cache' = cache /\ escaped' = (escaped \/ (cache # None /\ cache.version < seen[w]))
        BY <2>3 DEF Escape
      <3>2. ASSUME cache # None, ToBeEvicted(cache.version), ~escaped'
            PROVE  ToBeEvicted(cache.version)'
        <4>1. PICK u \in Writers : pc[u] = "evict" /\ seen[u] > cache.version
          BY <3>2 DEF ToBeEvicted
        <4>2. u # w
          BY <3>1, <3>2, <4>1
        <4>3. QED
          BY <2>1, <3>1, <4>1, <4>2 DEF ToBeEvicted
      <3>3. escaped => escaped'
        BY <3>1
      <3>4. StaleOnlyIfEscaped'
        BY <2>1, <3>1, <3>2, <3>3 DEF StaleOnlyIfEscaped, Stale
      <3>5. QED
        BY <2>1, <3>1, <3>4
    <2>4. QED
      BY <1>6, <2>2, <2>3 DEF Evict, EvictFails, NoKeys, Remove
  <1>7. ASSUME NEW w \in Writers, Renew(w) \/ RenewFails(w) PROVE ValueInv'
    <2>1. /\ pc' \in [Threads -> ReaderAt \cup WriterAt]
          /\ seen' \in [Threads -> 0..db] /\ db' = db
          /\ \A u \in Writers : pc[u] = "evict" => pc'[u] = "evict" /\ seen'[u] = seen[u]
      BY <1>7 DEF Renew, RenewFails, Finish, Goto, settled, shared
    <2>2. CASE UNCHANGED value
      BY <2>1, <2>2, <1>quiet
    <2>3. CASE Store(seen[w], annotation.renewTimeToLive)
      <3>1. seen[w] \in 0..db
        OBVIOUS
      <3>2. QED
        BY <2>1, <2>3, <3>1, StoreStep
    <2>4. QED
      BY <1>7, <2>2, <2>3 DEF Renew, RenewFails, shared, value
  <1>8. CASE CacheAges
    BY <1>8, <1>aged DEF CacheAges, Life, settled, local
  <1>9. CASE CacheExpires \/ GateExpires \/ UNCHANGED vars
    BY <1>9, <1>quiet DEF CacheExpires, Remove, GateExpires, vars, settled, local, value
  <1>10. QED
    BY <1>1, <1>2, <1>3, <1>4, <1>5, <1>6, <1>7, <1>8, <1>9
       DEF Next, ReaderStep, WriterStep, TimePasses

\* What the cache holds is outdated only while an update is yet to evict it,
\* or because it escaped: an update had overtaken the fill or the renewal that
\* put it, or the deletion failed or had no key.
THEOREM StaleTheorem == Spec => []StaleOnlyIfEscaped
  <1>1. ValueInv /\ [Next]_vars => ValueInv'
    BY NextValueInv
  <1>2. ValueInv => StaleOnlyIfEscaped
    BY DEF ValueInv
  <1>3. QED
    BY InitValueInv, <1>1, <1>2, PTL DEF Spec
=============================================================================

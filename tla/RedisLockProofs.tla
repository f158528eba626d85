-------------------------- MODULE RedisLockProofs --------------------------
(***************************************************************************)
(* Mutual exclusion of RedisLockService for any number of instances,       *)
(* threads and crashes, under the two assumptions of Timely: the removals  *)
(* from renewalFutures are not overtaken, and a late watchdog still        *)
(* renews the key before its lease ends.                                   *)
(***************************************************************************)
EXTENDS RedisLock, TLAPS

Timely == ~Races /\ TTL > Delay + 2 * Lag

-----------------------------------------------------------------------------
(* The inductive invariant.  A holder has the key (LeaseOutlivesHolder),   *)
(* and the time left to the key exceeds the time left to the watchdog by   *)
(* the slack TTL - Delay - Lag.  That a watchdog is there and stays there  *)
(* rests on an instance having at most one thread between SETNX and the    *)
(* removal of the watchdog.                                                *)

Busy(t) == pc[t] \in {"schedule", "body", "cancel"}

KeyHasTime == holder = NoOne <=> ttl = 0

OneBusyThread == \A t, u \in Thread :
                    Busy(t) /\ Busy(u) /\ JvmOf[t] = JvmOf[u] => t = u

WatchdogHasOwner == \A j \in Jvm :
                       due[j] # Off => \E t \in Thread :
                                         JvmOf[t] = j /\ pc[t] \in {"body", "cancel"}

MissedByNoHolder == \A t \in Thread : JvmOf[t] \in misses => ~Holds(t)

DeadTogether == \A t, u \in Thread :
                   pc[t] = "dead" /\ JvmOf[t] = JvmOf[u] => pc[u] = "dead"

FreshLease == \A t \in Thread : pc[t] = "schedule" => ttl >= TTL - Lag

WatchedLease == \A t \in Thread :
                   pc[t] = "body" => /\ due[JvmOf[t]] # Off
                                     /\ ttl >= due[JvmOf[t]] + TTL - Delay - Lag

IInv == /\ TypeOK
        /\ KeyHasTime
        /\ LeaseOutlivesHolder
        /\ OneBusyThread
        /\ WatchdogHasOwner
        /\ MissedByNoHolder
        /\ DeadTogether
        /\ FreshLease
        /\ WatchedLease

\* The period of the watchdog is a natural number within the lease.
LEMMA DelayType == Delay \in Nat /\ Delay <= TTL
  BY RedisLockAssumption DEF Delay

\* The invariant holds in the initial state.
LEMMA InitIInv == Init => IInv
  <1> SUFFICES ASSUME Init PROVE IInv
    OBVIOUS
  <1>1. TypeOK
    BY RedisLockAssumption, DelayType DEF Init, TypeOK
  <1>2. QED
    BY <1>1 DEF Init, IInv, KeyHasTime, LeaseOutlivesHolder, OneBusyThread,
       WatchdogHasOwner, MissedByNoHolder, DeadTogether, FreshLease, WatchedLease,
       Busy, Holds

\* Type correctness is preserved by every step.
LEMMA NextTypeOK == TypeOK /\ [Next]_vars => TypeOK'
  <1> SUFFICES ASSUME TypeOK, [Next]_vars PROVE TypeOK'
    OBVIOUS
  <1> USE RedisLockAssumption, DelayType DEF TypeOK
  <1>1. ASSUME NEW t \in Thread, SetIfAbsent(t) PROVE TypeOK'
    BY <1>1 DEF SetIfAbsent, Goto
  <1>2. ASSUME NEW t \in Thread, Schedule(t) PROVE TypeOK'
    BY <1>2 DEF Schedule, Goto
  <1>3. ASSUME NEW t \in Thread, CompareAndDelete(t) PROVE TypeOK'
    BY <1>3 DEF CompareAndDelete, Goto
  <1>4. ASSUME NEW t \in Thread, CancelWatchdog(t) PROVE TypeOK'
    BY <1>4 DEF CancelWatchdog, Goto
  <1>5. ASSUME NEW j \in Jvm, Renew(j) PROVE TypeOK'
    BY <1>5 DEF Renew
  <1>6. ASSUME NEW j \in Jvm, CancelItself(j) PROVE TypeOK'
    BY <1>6 DEF CancelItself
  <1>7. ASSUME NEW j \in Jvm, Crash(j) PROVE TypeOK'
    BY <1>7 DEF Crash
  <1>8. ASSUME NEW j \in Jvm, Restart(j) PROVE TypeOK'
    BY <1>8 DEF Restart
  <1>9. ASSUME Tick PROVE TypeOK'
    BY <1>9 DEF Tick, InTime
  <1>10. CASE UNCHANGED vars
    BY <1>10 DEF vars
  <1>11. QED
    BY <1>1, <1>2, <1>3, <1>4, <1>5, <1>6, <1>7, <1>8, <1>9, <1>10
       DEF Next, ThreadStep, Watchdog

\* Under the two assumptions every step preserves the invariant.
LEMMA NextIInv == Timely /\ IInv /\ [Next]_vars => IInv'
  <1> SUFFICES ASSUME Timely, IInv, [Next]_vars PROVE IInv'
    OBVIOUS
  <1>type. TypeOK /\ TypeOK'
    BY NextTypeOK DEF IInv
  <1>slack. TTL > Delay + 2 * Lag
    BY DEF Timely
  <1> USE RedisLockAssumption, DelayType, <1>type, <1>slack
  \* SETNX succeeds: nobody holds, and the instance is settled.
  <1>1. ASSUME NEW t \in Thread, SetIfAbsent(t) PROVE IInv'
    <2> USE <1>1 DEF SetIfAbsent, Goto, TypeOK, IInv
    <2>1. \A u \in Thread : ~Holds(u)
      BY DEF LeaseOutlivesHolder
    <2>2. \A u \in Thread : JvmOf[u] = JvmOf[t] => ~Busy(u)
      BY <2>1 DEF Settled, Holds, Busy, Timely
    <2>3. LeaseOutlivesHolder' /\ OneBusyThread' /\ DeadTogether'
      BY <2>1, <2>2 DEF LeaseOutlivesHolder, OneBusyThread, DeadTogether, Busy, Holds
    <2>4. WatchdogHasOwner' /\ MissedByNoHolder'
      BY <2>1 DEF WatchdogHasOwner, MissedByNoHolder, Settled, Timely, Holds
    <2>5. KeyHasTime' /\ FreshLease' /\ WatchedLease'
      BY <2>1 DEF KeyHasTime, FreshLease, WatchedLease, Holds
    <2>6. QED
      BY <2>3, <2>4, <2>5
  \* The instance has no watchdog when its thread schedules one.
  <1>2. ASSUME NEW t \in Thread, Schedule(t) PROVE IInv'
    <2> USE <1>2 DEF Schedule, Goto, TypeOK, IInv
    <2>1. due[JvmOf[t]] = Off
      BY DEF WatchdogHasOwner, OneBusyThread, Busy
    <2>2. LeaseOutlivesHolder' /\ OneBusyThread' /\ DeadTogether'
      BY DEF LeaseOutlivesHolder, OneBusyThread, DeadTogether, Busy, Holds
    <2>3. WatchdogHasOwner' /\ MissedByNoHolder'
      BY DEF WatchdogHasOwner, MissedByNoHolder, Holds
    <2>4. KeyHasTime' /\ FreshLease'
      BY DEF KeyHasTime, FreshLease
    <2>5. WatchedLease'
      BY <2>1 DEF WatchedLease, FreshLease, OneBusyThread, Busy
    <2>6. QED
      BY <2>2, <2>3, <2>4, <2>5
  <1>3. ASSUME NEW t \in Thread, CompareAndDelete(t) PROVE IInv'
    <2> USE <1>3 DEF CompareAndDelete, Goto, TypeOK, IInv
    <2>1. holder = t /\ holder' = NoOne /\ pc' = [pc EXCEPT ![t] = "cancel"]
      BY DEF LeaseOutlivesHolder, Holds
    <2>2. LeaseOutlivesHolder' /\ OneBusyThread' /\ DeadTogether'
      BY <2>1 DEF LeaseOutlivesHolder, OneBusyThread, DeadTogether, Busy, Holds
    <2>3. WatchdogHasOwner' /\ MissedByNoHolder'
      BY <2>1 DEF WatchdogHasOwner, MissedByNoHolder, Holds
    <2>4. KeyHasTime' /\ FreshLease' /\ WatchedLease'
      BY <2>1 DEF KeyHasTime, FreshLease, WatchedLease, LeaseOutlivesHolder, Holds
    <2>5. QED
      BY <2>2, <2>3, <2>4
  <1>4. ASSUME NEW t \in Thread, CancelWatchdog(t) PROVE IInv'
    <2> USE <1>4 DEF CancelWatchdog, Goto, TypeOK, IInv
    <2>1. \A u \in Thread : JvmOf[u] = JvmOf[t] => u = t \/ ~Busy(u)
      BY DEF OneBusyThread, Busy
    <2>2. LeaseOutlivesHolder' /\ OneBusyThread' /\ DeadTogether'
      BY DEF LeaseOutlivesHolder, OneBusyThread, DeadTogether, Busy, Holds
    <2>3. WatchdogHasOwner' /\ MissedByNoHolder'
      BY <2>1 DEF WatchdogHasOwner, MissedByNoHolder, Busy, Holds
    <2>4. KeyHasTime' /\ FreshLease' /\ WatchedLease'
      BY <2>1 DEF KeyHasTime, FreshLease, WatchedLease, Busy
    <2>5. QED
      BY <2>2, <2>3, <2>4
  \* A renewal of a held key restores the full lease.
  <1>5. ASSUME NEW j \in Jvm, Renew(j) PROVE IInv'
    <2> USE <1>5 DEF Renew, TypeOK, IInv
    <2>1. LeaseOutlivesHolder' /\ OneBusyThread' /\ DeadTogether'
      BY DEF LeaseOutlivesHolder, OneBusyThread, DeadTogether, Busy, Holds
    <2>2. WatchdogHasOwner'
      BY DEF WatchdogHasOwner
    <2>3. MissedByNoHolder'
      BY DEF MissedByNoHolder, LeaseOutlivesHolder, Holds
    <2>4. KeyHasTime' /\ FreshLease' /\ WatchedLease'
      BY DEF KeyHasTime, FreshLease, WatchedLease
    <2>5. QED
      BY <2>1, <2>2, <2>3, <2>4
  <1>6. ASSUME NEW j \in Jvm, CancelItself(j) PROVE IInv'
    <2> USE <1>6 DEF CancelItself, TypeOK, IInv
    <2>1. LeaseOutlivesHolder' /\ OneBusyThread' /\ DeadTogether'
      BY DEF LeaseOutlivesHolder, OneBusyThread, DeadTogether, Busy, Holds
    <2>2. WatchdogHasOwner' /\ MissedByNoHolder'
      BY DEF WatchdogHasOwner, MissedByNoHolder, Holds
    <2>3. KeyHasTime' /\ FreshLease' /\ WatchedLease'
      BY DEF KeyHasTime, FreshLease, WatchedLease, MissedByNoHolder, Holds
    <2>4. QED
      BY <2>1, <2>2, <2>3
  \* A crash leaves no thread of the instance busy and no key of its own.
  <1>7. ASSUME NEW j \in Jvm, Crash(j) PROVE IInv'
    <2> USE <1>7 DEF Crash, TypeOK, IInv
    <2>1. LeaseOutlivesHolder' /\ OneBusyThread' /\ DeadTogether'
      BY DEF LeaseOutlivesHolder, OneBusyThread, DeadTogether, Busy, Holds
    <2>2. WatchdogHasOwner' /\ MissedByNoHolder'
      BY DEF WatchdogHasOwner, MissedByNoHolder, Holds
    <2>3. KeyHasTime' /\ FreshLease' /\ WatchedLease'
      BY DEF KeyHasTime, FreshLease, WatchedLease
    <2>4. QED
      BY <2>1, <2>2, <2>3
  <1>8. ASSUME NEW j \in Jvm, Restart(j) PROVE IInv'
    <2> USE <1>8 DEF Restart, TypeOK, IInv
    <2>1. LeaseOutlivesHolder' /\ OneBusyThread' /\ DeadTogether'
      BY DEF LeaseOutlivesHolder, OneBusyThread, DeadTogether, Busy, Holds
    <2>2. WatchdogHasOwner' /\ MissedByNoHolder'
      BY DEF WatchdogHasOwner, MissedByNoHolder, DeadTogether, Holds
    <2>3. KeyHasTime' /\ FreshLease' /\ WatchedLease'
      BY DEF KeyHasTime, FreshLease, WatchedLease
    <2>4. QED
      BY <2>1, <2>2, <2>3
  \* A tick that the timing assumption allows leaves every holder some lease.
  <1>9. ASSUME Tick PROVE IInv'
    <2> USE <1>9 DEF Tick, InTime, TypeOK, IInv
    <2>1. \A t \in Thread : Holds(t) => ttl > 1
      BY DEF Holds, FreshLease, WatchedLease
    <2>2. LeaseOutlivesHolder' /\ OneBusyThread' /\ DeadTogether'
      BY <2>1 DEF LeaseOutlivesHolder, OneBusyThread, DeadTogether, Busy, Holds
    <2>3. WatchdogHasOwner' /\ MissedByNoHolder'
      BY DEF WatchdogHasOwner, MissedByNoHolder, Holds
    <2>4. KeyHasTime' /\ FreshLease'
      BY DEF KeyHasTime, FreshLease
    <2>5. WatchedLease'
      BY DEF WatchedLease
    <2>6. QED
      BY <2>2, <2>3, <2>4, <2>5
  <1>10. CASE UNCHANGED vars
    BY <1>10 DEF vars, IInv, KeyHasTime, LeaseOutlivesHolder, OneBusyThread,
       WatchdogHasOwner, MissedByNoHolder, DeadTogether, FreshLease, WatchedLease,
       Busy, Holds
  <1>11. QED
    BY <1>1, <1>2, <1>3, <1>4, <1>5, <1>6, <1>7, <1>8, <1>9, <1>10
       DEF Next, ThreadStep, Watchdog

-----------------------------------------------------------------------------
\* Every reachable state is well typed, with or without the two assumptions.
THEOREM TypeCorrectness == Spec => []TypeOK
  <1>1. Init => TypeOK
    BY InitIInv DEF IInv
  <1>2. QED
    BY <1>1, NextTypeOK, PTL DEF Spec

\* Under the two assumptions the strengthened invariant always holds.
THEOREM InductiveInvariant == ASSUME Timely PROVE Spec => []IInv
  <1>1. IInv /\ [Next]_vars => IInv'
    BY NextIInv
  <1>2. QED
    BY InitIInv, <1>1, PTL DEF Spec

\* Under the two assumptions a holder never loses its key to time: unlock
\* neither throws nor finds the lease over.
THEOREM LeaseTheorem == ASSUME Timely PROVE Spec => []LeaseOutlivesHolder
  BY InductiveInvariant, PTL DEF IInv

\* Under the two assumptions the guarded operation is mutually exclusive
\* across all threads of all instances.
THEOREM MutualExclusionTheorem == ASSUME Timely PROVE Spec => []MutualExclusion
  <1>1. LeaseOutlivesHolder => MutualExclusion
    BY DEF LeaseOutlivesHolder, MutualExclusion
  <1>2. QED
    BY <1>1, LeaseTheorem, PTL

-----------------------------------------------------------------------------
(* RedisLockService implements LockService.                                *)

HoldersOf(p) == {t \in Thread : p[t] \in {"schedule", "body"}}

Holders == {t \in Thread : Holds(t)}

LEMMA HoldersAre == Holders = HoldersOf(pc) /\ Holders' = HoldersOf(pc')
  BY DEF Holders, Holds, HoldersOf

\* At most one thread holds the lock.
LEMMA OneHolder == ASSUME IInv, NEW t \in Thread, Holds(t)
                   PROVE  HoldersOf(pc) = {t}
  BY DEF IInv, LeaseOutlivesHolder, Holds, HoldersOf

\* A successful SETNX is a tryLock, the compare-and-delete and the crash of
\* the holder are an unlock, every other step leaves it where it is.
LEMMA StepRefinesLock == ASSUME Timely, IInv, [Next]_vars
                         PROVE  [Abstract!Next]_Holders
  <1>pc. pc = [t \in Thread |-> pc[t]]
    BY DEF IInv, TypeOK
  <1>same. ASSUME HoldersOf(pc') = HoldersOf(pc) PROVE [Abstract!Next]_Holders
    BY <1>same, HoldersAre
  <1>1. ASSUME NEW t \in Thread, SetIfAbsent(t) PROVE [Abstract!Next]_Holders
    <2>1. HoldersOf(pc) = {}
      BY <1>1, RedisLockAssumption
         DEF SetIfAbsent, IInv, LeaseOutlivesHolder, Holds, HoldersOf
    <2>2. HoldersOf(pc') = {t}
      BY <1>1, <1>pc, <2>1 DEF SetIfAbsent, Goto, HoldersOf
    <2>3. QED
      BY <2>1, <2>2, HoldersAre DEF Abstract!Next, Abstract!TryLock, Holders
  <1>2. ASSUME NEW t \in Thread, Schedule(t) PROVE [Abstract!Next]_Holders
    BY <1>2, <1>pc, <1>same DEF Schedule, Goto, HoldersOf
  <1>3. ASSUME NEW t \in Thread, CompareAndDelete(t) PROVE [Abstract!Next]_Holders
    <2>1. Holds(t)
      BY <1>3 DEF CompareAndDelete, Holds
    <2>2. HoldersOf(pc) = {t}
      BY <2>1, OneHolder
    <2>3. HoldersOf(pc') = {}
      BY <1>3, <1>pc, <2>2 DEF CompareAndDelete, Goto, HoldersOf
    <2>4. QED
      BY <2>2, <2>3, HoldersAre DEF Abstract!Next, Abstract!Unlock, Holders
  <1>4. ASSUME NEW t \in Thread, CancelWatchdog(t) PROVE [Abstract!Next]_Holders
    BY <1>4, <1>pc, <1>same DEF CancelWatchdog, Goto, HoldersOf
  <1>5. ASSUME NEW j \in Jvm, Watchdog(j) PROVE [Abstract!Next]_Holders
    BY <1>5, <1>same DEF Watchdog, Renew, CancelItself
  \* The key of a holder that crashes becomes nobody's.
  <1>6. ASSUME NEW j \in Jvm, Crash(j) PROVE [Abstract!Next]_Holders
    <2>1. HoldersOf(pc') = {t \in HoldersOf(pc) : JvmOf[t] # j}
      BY <1>6 DEF Crash, HoldersOf
    <2>2. CASE \E t \in HoldersOf(pc) : JvmOf[t] = j
      <3>1. PICK t \in Thread : HoldersOf(pc) = {t} /\ HoldersOf(pc') = {}
        BY <2>1, <2>2, OneHolder DEF HoldersOf, Holds
      <3>2. QED
        BY <3>1, HoldersAre DEF Abstract!Next, Abstract!Unlock, Holders
    <2>3. CASE ~ \E t \in HoldersOf(pc) : JvmOf[t] = j
      BY <2>1, <2>3, <1>same
    <2>4. QED
      BY <2>2, <2>3
  <1>7. ASSUME NEW j \in Jvm, Restart(j) PROVE [Abstract!Next]_Holders
    <2>1. HoldersOf(pc') = HoldersOf(pc)
      BY <1>7 DEF Restart, HoldersOf, IInv, DeadTogether
    <2>2. QED
      BY <2>1, <1>same
  <1>8. ASSUME Tick PROVE [Abstract!Next]_Holders
    BY <1>8, <1>same DEF Tick
  <1>9. ASSUME UNCHANGED vars PROVE [Abstract!Next]_Holders
    BY <1>9, <1>same DEF vars
  <1>10. QED
    BY <1>1, <1>2, <1>3, <1>4, <1>5, <1>6, <1>7, <1>8, <1>9 DEF Next, ThreadStep

\* Under the two assumptions RedisLockService implements LockService: whatever
\* the watchdogs, the clock and the crashes do, one holder follows another only
\* through an unlock or its own end.
THEOREM LockRefinement == ASSUME Timely PROVE Spec => ImplementsLock
  <1>1. Init => Abstract!Init
    BY DEF Init, Abstract!Init, Holds
  <1>2. IInv /\ [Next]_vars => [Abstract!Next]_Holders
    BY StepRefinesLock
  <1>3. QED
    BY <1>1, <1>2, InductiveInvariant, PTL
       DEF Spec, ImplementsLock, Abstract!Spec, Holders
=============================================================================

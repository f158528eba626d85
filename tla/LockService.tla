---------------------------- MODULE LockService ----------------------------
(***************************************************************************)
(* What the interface org.ironrhino.core.coordination.LockService promises *)
(* for one lock name: the operations between a tryLock that returns true   *)
(* and the matching unlock never overlap (docs/lock.adoc).  Names do not   *)
(* interact, so one is enough.  A tryLock that returns false, and an       *)
(* unlock that throws, change nothing.  StandaloneLock and RedisLock       *)
(* implement this module.                                                  *)
(***************************************************************************)
CONSTANT Thread     \* the callers of the service, of all instances

VARIABLE holders    \* the threads that hold the lock

Init == holders = {}

\* boolean tryLock(String name) returns true: nobody held the lock.
TryLock(t) == /\ holders = {}
              /\ holders' = {t}

\* void unlock(String name) by one that holds it.
Unlock(t) == /\ t \in holders
             /\ holders' = holders \ {t}

Next == \E t \in Thread : \/ TryLock(t)
                          \/ Unlock(t)

Spec == Init /\ [][Next]_holders
=============================================================================

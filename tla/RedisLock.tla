----------------------------- MODULE RedisLock -----------------------------
(***************************************************************************)
(* RedisLockService: a lock name is a Redis key whose value is the holder  *)
(* (instance id and thread id) and whose time to live is watchdogTimeout.  *)
(* Each JVM keeps at most one scheduled "watchdog" per name that renews    *)
(* the key every watchdogTimeout / 3, whoever holds it.  The threads run   *)
(* MutexAspect: one tryLock, the guarded operation, unlock in a finally    *)
(* block; a polling tryLock(name, timeout) or lock(name) repeats the same  *)
(* tryLock.                                                                *)
(*                                                                         *)
(* Time is counted in ticks.  A step of the service (scheduling the        *)
(* watchdog after SETNX, firing a watchdog that is due, acting on its      *)
(* result) happens at most Lag ticks late: Lag stands for garbage          *)
(* collection pauses, network delay and a busy scheduler thread.  The      *)
(* guarded operation takes any time.                                       *)
(*                                                                         *)
(* unlock deletes the key first and removes the watchdog from              *)
(* renewalFutures afterwards; the watchdog does the same after an EXPIRE   *)
(* that found no key.  With Races = TRUE another tryLock of the instance   *)
(* may come in between, as the code allows.  With Races = FALSE it may     *)
(* not: an assumption about the schedule, under which the lock is correct. *)
(***************************************************************************)
EXTENDS Integers, FiniteSets

CONSTANTS Jvm,        \* application instances that share the Redis server
          Thread,     \* threads, each belonging to one instance
          JvmOf,      \* the instance of a thread
          NoOne,      \* the key does not exist
          Ghost,      \* a holder id of an instance that crashed; a restarted
                      \* instance has a new random id (AppInfo._instanceId)
          Off,        \* the instance has no watchdog for the name
          TTL,        \* watchdogTimeout
          Lag,        \* how late a step of the service may be
          Races,      \* whether the removals from renewalFutures may be
                      \* overtaken by the next SETNX of the same instance
          MaxCrash    \* bound of the model: how many crashes happen

ASSUME RedisLockAssumption ==
    /\ JvmOf \in [Thread -> Jvm]
    /\ NoOne \notin Thread /\ Ghost \notin Thread /\ NoOne # Ghost
    /\ Off \notin Int
    /\ TTL \in Nat \ {0} /\ Lag \in Nat /\ MaxCrash \in Nat
    /\ Races \in BOOLEAN

\* Mutant: the watchdog sleeps for the whole lease.
WholeLease == TTL

\* The period of the watchdog.
Delay == TTL \div 3

VARIABLES holder,   \* the value of the key, NoOne when it does not exist
          ttl,      \* its remaining time to live, 0 when it does not exist
          due,      \* renewalFutures: ticks until the watchdog of each
                    \* instance fires (negative: it is late), or Off
          misses,   \* the instances whose watchdog has seen EXPIRE return
                    \* false and has not yet cancelled itself
          pc,       \* where each thread is
          crashes   \* crashes so far

vars == <<holder, ttl, due, misses, pc, crashes>>

TypeOK == /\ holder \in Thread \cup {NoOne, Ghost}
          /\ ttl \in 0 .. TTL
          /\ \A j \in Jvm : due[j] = Off \/ due[j] \in -Lag .. Delay
          /\ DOMAIN due = Jvm
          /\ misses \subseteq Jvm
          /\ pc \in [Thread -> {"idle", "schedule", "body", "cancel", "dead"}]
          /\ crashes \in 0 .. MaxCrash

Init == /\ holder = NoOne /\ ttl = 0
        /\ due = [j \in Jvm |-> Off]
        /\ misses = {}
        /\ pc = [t \in Thread |-> "idle"]
        /\ crashes = 0

Goto(t, l) == pc' = [pc EXCEPT ![t] = l]

-----------------------------------------------------------------------------
(* tryLock *)

\* No removal from renewalFutures is pending in the instance.
Settled(j) == /\ j \notin misses
              /\ \A t \in Thread : JvmOf[t] = j => pc[t] # "cancel"

\* SET key holder NX PX watchdogTimeout succeeds.  (When it fails the call
\* returns false and nothing changes.)
SetIfAbsent(t) == /\ pc[t] = "idle"
                  /\ holder = NoOne
                  /\ Races \/ Settled(JvmOf[t])
                  /\ holder' = t /\ ttl' = TTL
                  /\ Goto(t, "schedule")
                  /\ UNCHANGED <<due, misses, crashes>>

\* Mutant: no watchdog is started.
ScheduleForgotten(t) == /\ pc[t] = "schedule"
                        /\ Goto(t, "body")
                        /\ UNCHANGED <<holder, ttl, due, misses, crashes>>

\* renewalFutures.computeIfAbsent(name, schedule): a watchdog that is still
\* there is kept as it is.
Schedule(t) == LET j == JvmOf[t] IN
               /\ pc[t] = "schedule"
               /\ due' = [due EXCEPT ![j] = IF @ = Off THEN Delay ELSE @]
               /\ Goto(t, "body")
               /\ UNCHANGED <<holder, ttl, misses, crashes>>

-----------------------------------------------------------------------------
(* unlock *)

\* The compare-and-delete script.  1: the key was the caller's and is gone,
\* go on to cancel the watchdog.  0: someone else's, IllegalStateException.
\* 2: the key had expired.  The watchdog is left alone for 0 and 2.
CompareAndDelete(t) ==
    /\ pc[t] = "body"
    /\ \/ /\ holder = t
          /\ holder' = NoOne /\ ttl' = 0
          /\ Goto(t, "cancel")
       \/ /\ holder # t
          /\ Goto(t, "idle")
          /\ UNCHANGED <<holder, ttl>>
    /\ UNCHANGED <<due, misses, crashes>>

\* Mutant: the watchdog is left running.
CancelForgotten(t) == /\ pc[t] = "cancel"
                      /\ Goto(t, "idle")
                      /\ UNCHANGED <<holder, ttl, due, misses, crashes>>

\* renewalFutures.remove(name) and cancel(true): whatever watchdog the
\* instance has by now goes.  A watchdog that has just missed the key is
\* interrupted but still removes what it then finds in renewalFutures.
CancelWatchdog(t) == /\ pc[t] = "cancel"
                     /\ due' = [due EXCEPT ![JvmOf[t]] = Off]
                     /\ Goto(t, "idle")
                     /\ UNCHANGED <<holder, ttl, misses, crashes>>

-----------------------------------------------------------------------------
(* The watchdog *)

\* Mutant: the renewal adds to the time that is left.
RenewAdds(j) == /\ due[j] # Off /\ due[j] <= 0 /\ holder # NoOne
                /\ ttl' = ttl + TTL
                /\ due' = [due EXCEPT ![j] = Delay]
                /\ UNCHANGED <<holder, misses, pc, crashes>>

\* EXPIRE key watchdogTimeout, without a look at who holds the key; the next
\* run is Delay after this one ends.
Renew(j) == /\ due[j] # Off /\ due[j] <= 0 /\ j \notin misses
            /\ \/ /\ holder # NoOne
                  /\ ttl' = TTL
                  /\ due' = [due EXCEPT ![j] = Delay]
                  /\ UNCHANGED misses
               \/ /\ holder = NoOne
                  /\ misses' = misses \cup {j}
                  /\ UNCHANGED <<ttl, due>>
            /\ UNCHANGED <<holder, pc, crashes>>

\* EXPIRE returned false: the watchdog removes and cancels the entry of the
\* name, which need no longer be itself.
CancelItself(j) == /\ j \in misses
                   /\ misses' = misses \ {j}
                   /\ due' = [due EXCEPT ![j] = Off]
                   /\ UNCHANGED <<holder, ttl, pc, crashes>>

-----------------------------------------------------------------------------
(* Time, crashes and restarts *)

\* A step of the service that has been pending for Lag ticks comes first.
InTime == /\ \A t \in Thread : pc[t] = "schedule" => TTL - ttl < Lag
          /\ \A j \in Jvm : due[j] # Off => due[j] > -Lag

Tick == /\ InTime
        /\ holder # NoOne \/ \E j \in Jvm : due[j] # Off
        /\ ttl' = IF ttl > 0 THEN ttl - 1 ELSE 0
        /\ holder' = IF ttl > 1 THEN holder ELSE NoOne
        /\ due' = [j \in Jvm |-> IF due[j] = Off THEN Off ELSE due[j] - 1]
        /\ UNCHANGED <<misses, pc, crashes>>

\* The instance disappears with its threads and watchdog; its key remains.
Crash(j) == /\ crashes < MaxCrash
            /\ \E t \in Thread : JvmOf[t] = j /\ pc[t] # "dead"
            /\ crashes' = crashes + 1
            /\ pc' = [t \in Thread |-> IF JvmOf[t] = j THEN "dead" ELSE pc[t]]
            /\ due' = [due EXCEPT ![j] = Off]
            /\ misses' = misses \ {j}
            /\ holder' = IF holder \in {t \in Thread : JvmOf[t] = j}
                         THEN Ghost ELSE holder
            /\ UNCHANGED ttl

Restart(j) == /\ \E t \in Thread : JvmOf[t] = j /\ pc[t] = "dead"
              /\ pc' = [t \in Thread |-> IF JvmOf[t] = j THEN "idle" ELSE pc[t]]
              /\ UNCHANGED <<holder, ttl, due, misses, crashes>>

-----------------------------------------------------------------------------
ThreadStep(t) == \/ SetIfAbsent(t) \/ Schedule(t)
                 \/ CompareAndDelete(t) \/ CancelWatchdog(t)

Watchdog(j) == Renew(j) \/ CancelItself(j)

Next == \/ \E t \in Thread : ThreadStep(t)
        \/ \E j \in Jvm : Watchdog(j) \/ Crash(j) \/ Restart(j)
        \/ Tick

(***************************************************************************)
(* Time passes, a running instance takes the steps of the service it has   *)
(* begun, and its scheduler runs the watchdog.  The guarded operation need *)
(* not end and nobody need ask for the lock.                               *)
(***************************************************************************)
Fairness == /\ WF_vars(Tick)
            /\ \A t \in Thread : WF_vars(Schedule(t)) /\ WF_vars(CancelWatchdog(t))
            /\ \A j \in Jvm : WF_vars(Watchdog(j))

Spec == Init /\ [][Next]_vars

FairSpec == Spec /\ Fairness

-----------------------------------------------------------------------------
\* From a successful SETNX to the compare-and-delete a thread takes the lock
\* for its own.
Holds(t) == pc[t] \in {"schedule", "body"}

\* Two threads, of one instance or of two, never run the guarded operation
\* at the same time, however long it takes and whoever crashes.
MutualExclusion == \A t, u \in Thread : Holds(t) /\ Holds(u) => t = u

\* Whoever takes the lock for its own still has the key: the lease never runs
\* out under a holder, and unlock neither throws nor finds the key expired.
LeaseOutlivesHolder == \A t \in Thread : Holds(t) => holder = t

\* The key of a holder that crashed does not stay for ever: no instance that
\* lives on keeps renewing it.
CrashedKeyExpires == (holder = Ghost) ~> (holder # Ghost)

\* The service implements the promise of LockService, a crash being an unlock.
Abstract == INSTANCE LockService WITH holders <- {t \in Thread : Holds(t)}
ImplementsLock == Abstract!Spec

=============================================================================

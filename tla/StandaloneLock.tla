--------------------------- MODULE StandaloneLock ---------------------------
(***************************************************************************)
(* StandaloneLockService: one ConcurrentHashMap from a lock name to the id *)
(* of the thread that holds it, driven through every way the program uses  *)
(* a LockService:                                                          *)
(*   "try"    tryLock(name) and give up, as MutexAspect does;              *)
(*   "timed"  tryLock(name, timeout, unit), the polling default method;    *)
(*   "lock"   lock(name), the polling method with an endless timeout.      *)
(* Each map operation is one atomic step; a thread sleeps between polls    *)
(* and may be interrupted there.                                           *)
(***************************************************************************)
EXTENDS Naturals, FiniteSets

CONSTANTS Thread,       \* threads of the JVM
          NoOne,        \* the lock name is not a key of the map
          Mode,         \* the calls in use, a subset of {"try","timed","lock"}
          Interrupted   \* the polling calls whose sleep something interrupts

VARIABLES locks,  \* the value of the map under the lock's name
          pc,     \* where each thread is in its call
          mode,   \* the kind of call it is making
          failed  \* the threads whose unlock threw IllegalStateException

vars == <<locks, pc, mode, failed>>

\* Only the polling calls reach the deadline check and the sleep.
TypeOK == /\ locks \in Thread \cup {NoOne}
          /\ pc \in [Thread -> {"idle", "try", "check", "sleep", "body"}]
          /\ mode \in [Thread -> Mode]
          /\ failed \subseteq Thread
          /\ \A t \in Thread : pc[t] \in {"check", "sleep"} => mode[t] # "try"

\* The mode of a thread that is not waiting for an answer: a fixed one.
AnyMode == CHOOSE m \in Mode : TRUE

Init == /\ locks = NoOne
        /\ pc = [t \in Thread |-> "idle"]
        /\ mode = [t \in Thread |-> AnyMode]
        /\ failed = {}

\* A thread goes on to l; what it called matters until it has its answer.
Goto(t, l) == /\ pc' = [pc EXCEPT ![t] = l]
              /\ mode' = IF l \in {"idle", "body"} THEN [mode EXCEPT ![t] = AnyMode]
                                                  ELSE mode

\* A thread starts a call of one of the three kinds.
Call(t) == /\ pc[t] = "idle"
           /\ \E m \in Mode : mode' = [mode EXCEPT ![t] = m]
           /\ pc' = [pc EXCEPT ![t] = "try"]
           /\ UNCHANGED <<locks, failed>>

\* Mutant: put, which overwrites, instead of putIfAbsent.
TryLockOverwrites(t) == /\ pc[t] = "try"
                        /\ locks' = t
                        /\ Goto(t, "body")
                        /\ UNCHANGED failed

\* locks.putIfAbsent(name, id) == null: the call returns true.
TryLockSucceeds(t) == /\ pc[t] = "try"
                      /\ locks = NoOne
                      /\ locks' = t
                      /\ Goto(t, "body")
                      /\ UNCHANGED failed

\* The name is taken: "try" reports failure, the polling calls go on to
\* look at their deadline.
TryLockFails(t) == /\ pc[t] = "try"
                   /\ locks # NoOne
                   /\ Goto(t, IF mode[t] = "try" THEN "idle" ELSE "check")
                   /\ UNCHANGED <<locks, failed>>

\* The deadline has passed (never for lock()): return false.
PollTimesOut(t) == /\ pc[t] = "check"
                   /\ mode[t] = "timed"
                   /\ Goto(t, "idle")
                   /\ UNCHANGED <<locks, failed>>

PollSleeps(t) == /\ pc[t] = "check"
                 /\ Goto(t, "sleep")
                 /\ UNCHANGED <<locks, failed>>

PollWakes(t) == /\ pc[t] = "sleep"
                /\ Goto(t, "try")
                /\ UNCHANGED <<locks, failed>>

\* InterruptedException: the polling tryLock returns false.  lock() discards
\* that result, so its caller goes on as if it held the lock.
PollInterrupted(t) == /\ pc[t] = "sleep"
                      /\ mode[t] \in Interrupted
                      /\ Goto(t, IF mode[t] = "lock" THEN "body" ELSE "idle")
                      /\ UNCHANGED <<locks, failed>>

\* Mutant: remove(name), which does not look at the holder and is run by a
\* caller that timed out as well.
UnlockAnyway(t) == /\ pc[t] \in {"body", "check"}
                   /\ locks' = NoOne
                   /\ Goto(t, "idle")
                   /\ UNCHANGED failed

\* unlock in the caller's finally block: locks.remove(name, id), or
\* IllegalStateException when the caller is not the one stored there.
Unlock(t) == /\ pc[t] = "body"
             /\ locks' = IF locks = t THEN NoOne ELSE locks
             /\ failed' = IF locks = t THEN failed ELSE failed \cup {t}
             /\ Goto(t, "idle")

Step(t) == \/ Call(t)
           \/ TryLockSucceeds(t) \/ TryLockFails(t)
           \/ PollTimesOut(t) \/ PollSleeps(t) \/ PollWakes(t)
           \/ PollInterrupted(t)
           \/ Unlock(t)

Next == \E t \in Thread : Step(t)

(***************************************************************************)
(* A running thread is scheduled: it polls, finishes the guarded operation *)
(* and unlocks.  Nothing promises that a given poll meets a free lock.     *)
(***************************************************************************)
Fairness == \A t \in Thread : /\ WF_vars(TryLockSucceeds(t) \/ TryLockFails(t))
                              /\ WF_vars(PollSleeps(t) \/ PollTimesOut(t))
                              /\ WF_vars(PollWakes(t) \/ PollInterrupted(t))
                              /\ WF_vars(Unlock(t))

Spec == Init /\ [][Next]_vars /\ Fairness

-----------------------------------------------------------------------------
\* Two threads never run the guarded operation at the same time.
MutualExclusion == \A t, u \in Thread :
                      pc[t] = "body" /\ pc[u] = "body" => t = u

\* The service implements the promise of LockService.
Abstract == INSTANCE LockService WITH holders <- {t \in Thread : pc[t] = "body"}
ImplementsLock == Abstract!Spec
=============================================================================

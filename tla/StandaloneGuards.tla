-------------------------- MODULE StandaloneGuards --------------------------
(***************************************************************************)
(* Methods with two guards on one JVM, a lock and permits, one inside the  *)
(* other in either order.  A method that has both has MutexAspect (order   *)
(* -2000) outside and ConcurrencyAspect (order -1000) inside; a method     *)
(* that runs with a permit may call another that asks for the lock.  Other *)
(* methods use only the lock, or only the permits.  No thread asks for     *)
(* what it has.                                                            *)
(***************************************************************************)
EXTENDS Integers, FiniteSets

CONSTANTS Thread,       \* threads of the JVM
          LockMode,     \* how they ask for the lock
          InnerMode,    \* how those that have a permit ask for it
          Interrupted,  \* the polling calls whose sleep something interrupts
          PermitMode,   \* how they ask for a permit
          Limits,       \* the values the permits expression takes
          NoOne         \* no holder

VARIABLES locks, lockPc, lockMode, failed,              \* of StandaloneLock
          semaphore, permitPc, permitMode, permitLimit, \* of StandaloneConcurrency
          nested  \* the threads whose use of the lock is inside that of a permit

lockVars == <<locks, lockPc, lockMode, failed>>
permitVars == <<semaphore, permitPc, permitMode, permitLimit>>
vars == <<lockVars, permitVars, nested>>

Mutex == INSTANCE StandaloneLock
           WITH Mode <- LockMode, pc <- lockPc, mode <- lockMode

Permit == INSTANCE StandaloneConcurrency
            WITH Mode <- PermitMode, pc <- permitPc, mode <- permitMode,
                 limit <- permitLimit

TypeOK == Mutex!TypeOK /\ Permit!TypeOK /\ nested \subseteq Thread

Init == Mutex!Init /\ Permit!Init /\ nested = {}

\* A thread is in one call at a time, the innermost: that of the lock while it
\* uses no permit, or since it asked for the lock with one, and that of a permit
\* while it does not use the lock, or since it asked for one with the lock.
InLock(t) == \/ permitPc[t] = "idle"
             \/ permitPc[t] = "body" /\ (t \in nested \/ lockPc[t] = "idle")

InPermit(t) == lockPc[t] \in {"idle", "body"} /\ t \notin nested

\* Mutant: lock() instead of tryLock inside the use of a permit.
LockStepWaiting(t) == /\ InLock(t)
                      /\ Mutex!Step(t)
                      /\ IF permitPc[t] = "body" /\ lockPc'[t] # "idle"
                         THEN /\ lockPc[t] = "idle" => lockMode'[t] = "lock"
                              /\ nested' = nested \cup {t}
                         ELSE nested' = nested \ {t}
                      /\ UNCHANGED permitVars

\* A step of the lock's call.  One that begins with a permit is nested, and
\* its unlock in the finally block comes before the release.
LockStep(t) == /\ InLock(t)
               /\ Mutex!Step(t)
               /\ IF permitPc[t] = "body" /\ lockPc'[t] # "idle"
                  THEN /\ lockPc[t] = "idle" => lockMode'[t] \in InnerMode
                       /\ nested' = nested \cup {t}
                  ELSE nested' = nested \ {t}
               /\ UNCHANGED permitVars

\* A step of the permit's call.
PermitStep(t) == /\ InPermit(t)
                 /\ Permit!Step(t)
                 /\ UNCHANGED <<lockVars, nested>>

Next == \E t \in Thread : LockStep(t) \/ PermitStep(t)

(***************************************************************************)
(* A running thread is scheduled: it polls, runs the guarded operation and *)
(* leaves it, and an attempt has its answer.  A call with a timeout comes  *)
(* to its deadline, however often it sleeps before.  A waiting thread that *)
(* can have a permit gets on; nothing promises that a given poll meets a   *)
(* free lock, or that a thread that waits for a permit is not overtaken.   *)
(***************************************************************************)
Fairness == \A t \in Thread :
    /\ WF_lockVars(InLock(t) /\ (Mutex!TryLockSucceeds(t) \/ Mutex!TryLockFails(t)))
    /\ WF_lockVars(Mutex!PollSleeps(t) \/ Mutex!PollTimesOut(t))
    /\ SF_lockVars(Mutex!PollTimesOut(t))
    /\ WF_lockVars(Mutex!PollWakes(t) \/ Mutex!PollInterrupted(t))
    /\ WF_lockVars(InLock(t) /\ Mutex!Unlock(t))
    /\ WF_permitVars(Permit!GetSemaphore(t))
    /\ WF_permitVars(Permit!Acquire(t) \/ (permitMode[t] = "try" /\ Permit!Fail(t)))
    /\ WF_permitVars(InPermit(t) /\ Permit!Release(t))

Spec == Init /\ [][Next]_vars /\ Fairness

-----------------------------------------------------------------------------
\* The map names exactly the thread that is inside the lock, and no
\* unlock throws: neither a refused permit nor an interrupt leaves a lock
\* behind or frees another's.
MapNamesTheHolder ==
    /\ \A t \in Thread : lockPc[t] = "body" <=> locks = t
    /\ failed = {}

\* Both services keep their promises while they are used together.
ImplementsLock == Mutex!ImplementsLock
StandalonePermits == Permit!ImplementsPermits

\* A call of either guard has not been answered yet.
Waits(t) == lockPc[t] \in {"try", "check", "sleep"} \/ permitPc[t] \in {"get", "acquire"}

\* A thread has what it asked for and waits for nothing more.
Works(t) == ~Waits(t) /\ (lockPc[t] = "body" \/ permitPc[t] = "body")

\* The guards do not stop each other: a call gets its answer, or some thread runs
\* a guarded operation and waits for nothing.  Were the holder of the lock to wait
\* for a permit and all that have one for the lock, or were a lock or permit lost,
\* nobody would.
CallsGetOn == \A t \in Thread : Waits(t) ~> (~Waits(t) \/ \E u \in Thread : Works(u))
=============================================================================

----------------------- MODULE StandaloneConcurrency -----------------------
(***************************************************************************)
(* ConcurrencyAspect over StandaloneConcurrencyService, for one name: a    *)
(* java.util.concurrent.Semaphore, created with the limit of the first     *)
(* call that asks for the name and kept for ever.  A call waits for a      *)
(* permit ("block"), waits until a timeout ("timed"), or makes one attempt *)
(* ("try").                                                                *)
(***************************************************************************)
EXTENDS Integers, FiniteSets

CONSTANTS Thread,  \* threads of the JVM
          Limits,  \* the values the permits expression takes
          Mode     \* the calls in use

\* No semaphore has been created yet.
Absent == -1

VARIABLES semaphore,  \* permits left, or Absent
          pc, mode, limit

vars == <<semaphore, pc, mode, limit>>

At(l) == {t \in Thread : pc[t] = l}

TypeOK == /\ semaphore \in Nat \cup {Absent}
          /\ pc \in [Thread -> {"idle", "get", "acquire", "body"}]
          /\ mode \in [Thread -> Mode]
          /\ limit \in [Thread -> Limits]
          /\ semaphore = Absent => At("acquire") \cup At("body") = {}

\* The mode of a thread that is not waiting for an answer: a fixed one.
AnyMode == CHOOSE m \in Mode : TRUE

Init == /\ semaphore = Absent
        /\ pc = [t \in Thread |-> "idle"]
        /\ mode = [t \in Thread |-> AnyMode]
        /\ limit \in [Thread -> Limits]

\* A thread goes on to l; what it called matters until it has its answer.
Goto(t, l) == /\ pc' = [pc EXCEPT ![t] = l]
              /\ mode' = IF l \in {"idle", "body"} THEN [mode EXCEPT ![t] = AnyMode]
                                                  ELSE mode

\* The aspect evaluates the permits and picks the call.
Call(t) == /\ pc[t] = "idle"
           /\ \E m \in Mode, n \in Limits : /\ mode' = [mode EXCEPT ![t] = m]
                                            /\ limit' = [limit EXCEPT ![t] = n]
           /\ pc' = [pc EXCEPT ![t] = "get"]
           /\ UNCHANGED semaphore

\* Mutant: put instead of computeIfAbsent.
NewSemaphoreEachTime(t) == /\ pc[t] = "get"
                           /\ semaphore' = limit[t]
                           /\ Goto(t, "acquire")
                           /\ UNCHANGED limit

\* semaphores.computeIfAbsent(name, key -> new Semaphore(permits)).
GetSemaphore(t) == /\ pc[t] = "get"
                   /\ semaphore' = IF semaphore = Absent THEN limit[t] ELSE semaphore
                   /\ Goto(t, "acquire")
                   /\ UNCHANGED limit

\* A permit is there.
Acquire(t) == /\ pc[t] = "acquire"
              /\ semaphore > 0
              /\ semaphore' = semaphore - 1
              /\ Goto(t, "body")
              /\ UNCHANGED limit

\* No permit: one attempt fails; a waiting call times out (not acquire) or is
\* interrupted, and leaves without having taken anything.
Fail(t) == /\ pc[t] = "acquire"
           /\ mode[t] = "try" => semaphore = 0
           /\ Goto(t, "idle")
           /\ UNCHANGED <<semaphore, limit>>

\* release(name) in the finally block.
Release(t) == /\ pc[t] = "body"
              /\ semaphore' = semaphore + 1
              /\ Goto(t, "idle")
              /\ UNCHANGED limit

Step(t) == \/ Call(t) \/ GetSemaphore(t) \/ Acquire(t) \/ Fail(t) \/ Release(t)

Next == \E t \in Thread : Step(t)

\* A running call ends, a waiting thread that can have a permit gets on.
Fairness == \A t \in Thread : WF_vars(Release(t)) /\ WF_vars(GetSemaphore(t))
                                /\ WF_vars(Acquire(t))

Spec == Init /\ [][Next]_vars /\ Fairness

-----------------------------------------------------------------------------
\* The service implements the promise of Permits (docs/throttle.adoc).  With
\* limits that differ from call to call it does not: the semaphore keeps the
\* limit of the first call.
Abstract == INSTANCE Permits WITH running <- At("body")
ImplementsPermits == Abstract!Spec
=============================================================================

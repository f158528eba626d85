-------------------------- MODULE RedisConcurrency --------------------------
(***************************************************************************)
(* ConcurrencyAspect over RedisConcurrencyService, for one name: a Redis   *)
(* counter that a call increments, and decrements again in a second step   *)
(* when the result exceeds its limit.  The calls are                       *)
(*   "try"    tryAcquire, or the timed one with timeout <= 0: one attempt; *)
(*   "timed"  tryAcquire(name, permits, timeout, unit): polls for a while; *)
(*   "block"  acquire(name, permits): polls for ever.                      *)
(* The counter has no time to live: what a crashed instance added stays.   *)
(***************************************************************************)
EXTENDS Integers, FiniteSets

CONSTANTS Thread,    \* threads of all instances
          Limits,    \* the values the permits expression takes
          Mode,      \* the calls in use
          MaxCrash   \* bound of the model: how many threads die

ASSUME ConcurrencyAssumption == /\ IsFiniteSet(Thread)
                                /\ Limits \subseteq Nat
                                /\ Mode \subseteq {"try", "timed", "block"}
                                /\ MaxCrash \in Nat

VARIABLES counter,  \* the Redis counter
          pc,       \* where each thread is
          mode,     \* the kind of call it makes
          limit,    \* the permits its call was made with
          leaked    \* increments whose thread died (history)

vars == <<counter, pc, mode, limit, leaked>>

At(l) == {t \in Thread : pc[t] = l}

TypeOK == /\ counter \in Nat
          /\ pc \in [Thread -> {"idle", "incr", "body", "revert", "sleep"}]
          /\ mode \in [Thread -> Mode]
          /\ limit \in [Thread -> Limits]
          /\ leaked \in 0 .. MaxCrash

Init == /\ counter = 0
        /\ pc = [t \in Thread |-> "idle"]
        /\ mode \in [Thread -> Mode]
        /\ limit \in [Thread -> Limits]
        /\ leaked = 0

Goto(t, l) == pc' = [pc EXCEPT ![t] = l]

\* The aspect evaluates the permits and picks the call.
Call(t) == /\ pc[t] = "idle"
           /\ \E m \in Mode, n \in Limits : /\ mode' = [mode EXCEPT ![t] = m]
                                            /\ limit' = [limit EXCEPT ![t] = n]
           /\ Goto(t, "incr")
           /\ UNCHANGED <<counter, leaked>>

\* Mutant: value < permits + 2.
AdmitsOneMore(t) == /\ pc[t] = "incr"
                    /\ counter' = counter + 1
                    /\ Goto(t, IF counter <= limit[t] THEN "body" ELSE "revert")
                    /\ UNCHANGED <<mode, limit, leaked>>

\* increment(key, 1), admitted when value <= permits.
Increment(t) == /\ pc[t] = "incr"
                /\ counter' = counter + 1
                /\ Goto(t, IF counter < limit[t] THEN "body" ELSE "revert")
                /\ UNCHANGED <<mode, limit, leaked>>

\* Mutant: a polling call leaves its increment and polls again.
RevertForgotten(t) == /\ pc[t] = "revert"
                      /\ Goto(t, IF mode[t] = "try" THEN "idle" ELSE "sleep")
                      /\ UNCHANGED <<counter, mode, limit, leaked>>

\* increment(key, -1); one attempt ends here, the others sleep.
Revert(t) == /\ pc[t] = "revert"
             /\ counter' = counter - 1
             /\ Goto(t, IF mode[t] = "try" THEN "idle" ELSE "sleep")
             /\ UNCHANGED <<mode, limit, leaked>>

\* Poll again.
Wake(t) == /\ pc[t] = "sleep"
           /\ Goto(t, "incr")
           /\ UNCHANGED <<counter, mode, limit, leaked>>

\* The deadline has passed, or the sleep was interrupted (the exception
\* leaves the timed call; acquire swallows it and polls again).
GiveUp(t) == /\ pc[t] = "sleep"
             /\ mode[t] = "timed"
             /\ Goto(t, "idle")
             /\ UNCHANGED <<counter, mode, limit, leaked>>

\* release(name) in the finally block.
Release(t) == /\ pc[t] = "body"
              /\ counter' = counter - 1
              /\ Goto(t, "idle")
              /\ UNCHANGED <<mode, limit, leaked>>

\* The thread dies with its instance; a new one takes its place.
Crash(t) == /\ leaked < MaxCrash
            /\ pc[t] # "idle"
            /\ leaked' = IF pc[t] \in {"body", "revert"} THEN leaked + 1 ELSE leaked
            /\ Goto(t, "idle")
            /\ UNCHANGED <<counter, mode, limit>>

Next == \E t \in Thread : \/ Call(t) \/ Increment(t) \/ Revert(t)
                          \/ Wake(t) \/ GiveUp(t) \/ Release(t) \/ Crash(t)

Spec == Init /\ [][Next]_vars

-----------------------------------------------------------------------------
\* Every unit of the counter belongs to a running call, to a refused attempt
\* that has yet to take it back, or to a crash: no path of the polling loops
\* drops or doubles a revert.
CounterAccounts == counter = Cardinality(At("body") \cup At("revert")) + leaked

\* The service implements the promise of Permits: a call is admitted only
\* while fewer calls run than its own limit.  The increment of a refused call
\* never hides a running one, although increment and revert are two steps.
Abstract == INSTANCE Permits WITH running <- At("body")
ImplementsPermits == Abstract!Spec

\* A call with block = false does not wait: it makes one attempt, or, in the
\* code, polls until its timeout.
NonBlockingNeverSleeps == \A t \in Thread : pc[t] = "sleep" => mode[t] = "block"
=============================================================================

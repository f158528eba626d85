------------------------ MODULE RedisCyclicSequence ------------------------
(***************************************************************************)
(* RedisCyclicSequence: numbers of the form cycle || suffix (for example   *)
(* 20201212 || 0001) that restart with every cycle, drawn from one Redis   *)
(* counter by the threads of any number of instances.                      *)
(*                                                                         *)
(* The counter is the number cycle * Base + suffix, where cycle is the     *)
(* formatted date read as a number and Base is 10^paddingLength.  An       *)
(* answer is the pair <<cycle, n>> of the string's two parts; n has more   *)
(* than paddingLength digits once a cycle has used up its suffixes.        *)
(*                                                                         *)
(* INCR and TIME are sent in one pipeline, which is no transaction: other  *)
(* clients' commands may come between the two.                             *)
(***************************************************************************)
EXTENDS Integers, FiniteSets

CONSTANTS Thread,       \* calling threads, of all instances
          Base,         \* 10^paddingLength
          ClockSteps,   \* by how many cycles the Redis clock may move; a
                        \* negative step is a clock set back (a failover)
          FirstCycle,   \* the cycle in which the sequence is created
          LastCycle,    \* bound of the model: the last cycle
          MayOverflow   \* bound of the model: whether a cycle may use up its
                        \* suffixes

ASSUME SequenceAssumption == /\ IsFiniteSet(Thread)
                             /\ Base \in Nat /\ Base > 1
                             /\ ClockSteps \subseteq Int
                             /\ FirstCycle \in Nat
                             /\ LastCycle \in Nat /\ MayOverflow \in BOOLEAN
                             /\ FirstCycle <= LastCycle

MaxAttempts == 3

VARIABLES counter,   \* the value of the Redis key
          now,       \* the cycle the Redis clock is in
          pc,        \* where each thread is in nextStringValue
          value,     \* what INCR returned to it
          cycle,     \* what TIME returned to it, as a cycle
          attempts,  \* attempts left
          issued,    \* all answers given (history)
          answers,   \* how many answers were given (history)
          before     \* answers given before the thread's present call (history)

vars == <<counter, now, pc, value, cycle, attempts, issued, answers, before>>

Cycle == FirstCycle .. LastCycle

TypeOK == /\ counter \in Nat
          /\ now \in Cycle
          /\ pc \in [Thread -> {"idle", "incr", "time", "decide", "restart", "sleep"}]
          /\ value \in [Thread -> Nat]
          /\ cycle \in [Thread -> Cycle]
          /\ attempts \in [Thread -> 0 .. MaxAttempts]
          /\ issued \subseteq Cycle \X Int
          /\ answers \in Nat
          /\ before \in [Thread -> SUBSET issued]

\* afterPropertiesSet: setIfAbsent(current cycle || 0).
Init == /\ now = FirstCycle
        /\ counter = now * Base
        /\ pc = [t \in Thread |-> "idle"]
        /\ value = [t \in Thread |-> 0]
        /\ cycle = [t \in Thread |-> now]
        /\ attempts = [t \in Thread |-> 0]
        /\ issued = {}
        /\ answers = 0
        /\ before = [t \in Thread |-> {}]

Goto(t, l) == pc' = [pc EXCEPT ![t] = l]

\* Mutant: the attempts are not reset from call to call.
CallWithoutReset(t) == /\ pc[t] = "idle"
                       /\ before' = [before EXCEPT ![t] = issued]
                       /\ Goto(t, "incr")
                       /\ UNCHANGED <<counter, now, value, cycle, attempts, issued, answers>>

Call(t) == /\ pc[t] = "idle"
           /\ attempts' = [attempts EXCEPT ![t] = MaxAttempts]
           /\ before' = [before EXCEPT ![t] = issued]
           /\ Goto(t, "incr")
           /\ UNCHANGED <<counter, now, value, cycle, issued, answers>>

\* INCR key
Incr(t) == /\ pc[t] = "incr"
           /\ counter < (LastCycle + 1) * Base
           /\ MayOverflow \/ (counter + 1) % Base # 0
           /\ counter' = counter + 1
           /\ value' = [value EXCEPT ![t] = counter + 1]
           /\ Goto(t, "time")
           /\ UNCHANGED <<now, cycle, attempts, issued, answers, before>>

\* TIME
ReadTime(t) == /\ pc[t] = "time"
               /\ cycle' = [cycle EXCEPT ![t] = now]
               /\ Goto(t, "decide")
               /\ UNCHANGED <<counter, now, value, attempts, issued, answers, before>>

-----------------------------------------------------------------------------
(* The comparison of the counter's leading digits with the current cycle.  *)

InCycle(v, c) == c * Base < v /\ v < (c + 1) * Base  \* and the suffix is not 0

Ahead(v, c) == (c + 1) * Base <= v

\* Mutant: a counter ahead of the cycle is not told from one behind it.
OtherCycle(v, c) == ~InCycle(v, c)

Restarts(v, c) == v <= c * Base    \* an earlier cycle, or suffix 0

Answer(t, c, n) == /\ issued' = issued \cup {<<c, n>>}
                   /\ answers' = answers + 1
                   /\ Goto(t, "idle")

\* The same cycle: the counter is the answer.  Ahead of the cycle: the cycle
\* has overflowed, count on with a longer suffix.  Both are cycle || rest.
AnswerCounter(t) ==
    /\ pc[t] = "decide"
    /\ InCycle(value[t], cycle[t]) \/ Ahead(value[t], cycle[t])
    /\ Answer(t, cycle[t], value[t] - cycle[t] * Base)
    /\ UNCHANGED <<counter, now, value, cycle, attempts, before>>

GoRestart(t) == /\ pc[t] = "decide"
                /\ Restarts(value[t], cycle[t])
                /\ Goto(t, "restart")
                /\ UNCHANGED <<counter, now, value, cycle, attempts, issued,
                               answers, before>>

\* Mutant: SET instead of compare and set.
SetRestart(t) ==
    /\ pc[t] = "restart"
    /\ counter' = cycle[t] * Base + 1
    /\ Answer(t, cycle[t], 1)
    /\ UNCHANGED <<now, value, cycle, attempts, before>>

\* The compare-and-set script: restart at cycle || 1 unless the counter has
\* moved since this thread's INCR.
CompareAndSet(t) ==
    /\ pc[t] = "restart"
    /\ counter = value[t]
    /\ counter' = cycle[t] * Base + 1
    /\ Answer(t, cycle[t], 1)
    /\ UNCHANGED <<now, value, cycle, attempts, before>>

\* It had moved: sleep, or give up with MaxAttemptsExceededException.
CompareAndSetFails(t) ==
    /\ pc[t] = "restart"
    /\ counter # value[t]
    /\ attempts' = [attempts EXCEPT ![t] = @ - 1]
    /\ Goto(t, IF attempts[t] > 1 THEN "sleep" ELSE "idle")
    /\ UNCHANGED <<counter, now, value, cycle, issued, answers, before>>

Wake(t) == /\ pc[t] = "sleep"
           /\ Goto(t, "incr")
           /\ UNCHANGED <<counter, now, value, cycle, attempts, issued, answers, before>>

\* The calling instance dies, whatever it was doing.
Crash(t) == /\ pc[t] # "idle"
            /\ Goto(t, "idle")
            /\ UNCHANGED <<counter, now, value, cycle, attempts, issued, answers, before>>

ClockMoves == /\ \E d \in ClockSteps : now' = now + d
              /\ now' \in Cycle
              /\ UNCHANGED <<counter, pc, value, cycle, attempts, issued, answers, before>>

Next == \/ \E t \in Thread : \/ Call(t) \/ Incr(t) \/ ReadTime(t)
                             \/ AnswerCounter(t) \/ GoRestart(t)
                             \/ CompareAndSet(t) \/ CompareAndSetFails(t)
                             \/ Wake(t) \/ Crash(t)
        \/ ClockMoves

Spec == Init /\ [][Next]_vars

-----------------------------------------------------------------------------
\* No two calls get the same number, whatever the interleaving of INCR, TIME
\* and compare-and-set at a turn of the cycle, and however the clock moves.
UniqueNumbers == Cardinality(issued) = answers

\* The counter never goes back: a late restart never rewinds another's.
CounterGrows == [][counter' >= counter]_vars

Less(a, b) == a[1] < b[1] \/ (a[1] = b[1] /\ a[2] < b[2])

\* A call that starts after another has been answered gets a later number,
\* across the turn of the cycle too, as long as the clock is not set back.
LaterCallsGetLaterNumbers ==
    [][\A t \in Thread : answers' > answers /\ pc[t] # pc'[t]
          => \A a \in issued' \ issued : \A b \in before[t] : Less(b, a)]_vars
=============================================================================

------------------------------ MODULE Permits ------------------------------
(***************************************************************************)
(* What ConcurrencyService promises for one name (docs/throttle.adoc): a   *)
(* call is admitted only while fewer calls run than the limit that call    *)
(* was made with.  The limit is evaluated anew for each call.  A call that *)
(* ends, or whose instance dies, leaves the running set.                   *)
(***************************************************************************)
EXTENDS Naturals, FiniteSets

CONSTANTS Thread, Limits

VARIABLES running,  \* the threads inside the guarded operation
          limit     \* the limit of the present or last call of each thread

Init == running = {} /\ limit \in [Thread -> Limits]

Request(t) == /\ t \notin running
              /\ \E n \in Limits : limit' = [limit EXCEPT ![t] = n]
              /\ UNCHANGED running

Admit(t) == /\ t \notin running
            /\ Cardinality(running) < limit[t]
            /\ running' = running \cup {t}
            /\ UNCHANGED limit

Finish(t) == /\ t \in running
             /\ running' = running \ {t}
             /\ UNCHANGED limit

Next == \E t \in Thread : Request(t) \/ Admit(t) \/ Finish(t)

Spec == Init /\ [][Next]_<<running, limit>>
=============================================================================

------------------------- MODULE RowCyclicSequence -------------------------
(***************************************************************************)
(* MySQLCyclicSequence: numbers cycle || suffix kept in one row.  A call   *)
(* reads the time into the variable @TIMESTAMP of its connection, then     *)
(* increments the row if its LAST_UPDATED lies in the same cycle, or else  *)
(* reads the time again and restarts the row if it lies in another one.    *)
(* There is no transaction: each statement commits by itself.              *)
(*                                                                         *)
(* Times are modelled by the cycle they lie in, as in                      *)
(* DatabaseCyclicSequence.  LAST_INSERT_ID() and @TIMESTAMP belong to the  *)
(* connection, so that the answer is made in the step of its update.       *)
(***************************************************************************)
EXTENDS Integers

CONSTANTS Thread,      \* calling threads, of all instances
          ClockSteps,  \* by how many cycles the database's clock may move
          LastCycle,   \* bound of the model: the last cycle
          MaxSuffix    \* bound of the model: the largest suffix

maxAttempts == 3

VARIABLES VALUE,      \* of the row
          last,       \* LAST_UPDATED of the row
          clock,      \* the cycle the database's clock is in
          pc,         \* where each call is in nextStringValue
          timestamp,  \* @TIMESTAMP of its connection
          attempts,   \* remainingAttempts
          issued,     \* all answers given (history)
          repeated,   \* an answer was given twice (history)
          before,     \* answers given before the present call (history)
          overtaken,  \* calls about to restart a row that another call has
                      \* restarted since they read the time (history)
          turnedBack  \* such a call turned the row back (history)

vars == <<VALUE, last, clock, pc, timestamp, attempts, issued, repeated, before,
          overtaken, turnedBack>>

Cycle == 0 .. LastCycle

TypeOK == /\ VALUE \in 0 .. MaxSuffix /\ last \in Cycle /\ clock \in Cycle
          /\ pc \in [Thread -> {"idle", "set", "increment", "setAgain", "restart", "sleep"}]
          /\ timestamp \in [Thread -> Cycle]
          /\ attempts \in [Thread -> 0 .. maxAttempts]
          /\ issued \subseteq Cycle \X Nat /\ repeated \in BOOLEAN
          /\ before \in [Thread -> SUBSET issued]
          /\ overtaken \subseteq Thread /\ turnedBack \in BOOLEAN

\* MySQLSimpleSequence.createTable: a new row with the time of the database.
Init == /\ VALUE = 0 /\ last = 0 /\ clock = 0
        /\ pc = [t \in Thread |-> "idle"]
        /\ timestamp = [t \in Thread |-> 0]
        /\ attempts = [t \in Thread |-> 0]
        /\ issued = {} /\ repeated = FALSE
        /\ before = [t \in Thread |-> {}]
        /\ overtaken = {} /\ turnedBack = FALSE

Goto(t, l) == pc' = [pc EXCEPT ![t] = l]

\* Bound of the model: no call begins once a number was given twice.
Call(t) == /\ pc[t] = "idle" /\ ~repeated
           /\ attempts' = [attempts EXCEPT ![t] = maxAttempts]
           /\ before' = [before EXCEPT ![t] = issued]
           /\ Goto(t, "set")
           /\ UNCHANGED <<VALUE, last, clock, timestamp, issued, repeated, overtaken, turnedBack>>

\* Mutant: the time without GREATEST.
PlainTime == clock

\* GREATEST(LAST_UPDATED, UNIX_TIMESTAMP())
CurrentTime == IF last > clock THEN last ELSE clock

\* setVariableSql, before each of the two updates.
SetVariable(t) == /\ pc[t] \in {"set", "setAgain"}
                  /\ timestamp' = [timestamp EXCEPT ![t] = CurrentTime]
                  /\ Goto(t, IF pc[t] = "set" THEN "increment" ELSE "restart")
                  /\ UNCHANGED <<VALUE, last, clock, attempts, issued, repeated,
                                 before, overtaken, turnedBack>>

\* nextId: the number and the cycle of @TIMESTAMP.
Answer(t, n) == /\ VALUE' = n
                /\ last' = timestamp[t]
                /\ issued' = issued \cup {<<timestamp[t], n>>}
                /\ repeated' = (repeated \/ issued' = issued)
                /\ Goto(t, "idle")
                /\ UNCHANGED <<clock, timestamp, attempts, before>>

\* incrementSql
Increment(t) == /\ pc[t] = "increment"
                /\ last = timestamp[t]
                /\ VALUE < MaxSuffix
                /\ Answer(t, VALUE + 1)
                /\ UNCHANGED <<overtaken, turnedBack>>

\* 0 rows: the row is in another cycle.
IncrementFails(t) == /\ pc[t] = "increment"
                     /\ last # timestamp[t]
                     /\ Goto(t, "setAgain")
                     /\ UNCHANGED <<VALUE, last, clock, timestamp, attempts, issued,
                                    repeated, before, overtaken, turnedBack>>

\* The condition of restartSql is !=, not <.
OtherCycle(t) == last # timestamp[t]

\* restartSql
Restart(t) == /\ pc[t] = "restart"
              /\ OtherCycle(t)
              /\ Answer(t, 1)
              /\ overtaken' = (overtaken \cup {u \in Thread : pc[u] = "restart"}) \ {t}
              /\ turnedBack' = (turnedBack \/ (t \in overtaken /\ timestamp[t] < last))

\* 0 rows: another call has restarted it.  Sleep, or give up with
\* MaxAttemptsExceededException.
RestartFails(t) == /\ pc[t] = "restart"
                   /\ ~OtherCycle(t)
                   /\ attempts' = [attempts EXCEPT ![t] = @ - 1]
                   /\ Goto(t, IF attempts[t] > 1 THEN "sleep" ELSE "idle")
                   /\ overtaken' = overtaken \ {t}
                   /\ UNCHANGED <<VALUE, last, clock, timestamp, issued, repeated,
                                  before, turnedBack>>

Wake(t) == /\ pc[t] = "sleep"
           /\ Goto(t, "set")
           /\ UNCHANGED <<VALUE, last, clock, timestamp, attempts, issued, repeated,
                          before, overtaken, turnedBack>>

\* The calling instance dies, between two statements.
Crash(t) == /\ pc[t] # "idle"
            /\ Goto(t, "idle")
            /\ overtaken' = overtaken \ {t}
            /\ UNCHANGED <<VALUE, last, clock, timestamp, attempts, issued, repeated,
                           before, turnedBack>>

ClockMoves == /\ \E d \in ClockSteps : clock' = clock + d
              /\ clock' \in Cycle
              /\ UNCHANGED <<VALUE, last, pc, timestamp, attempts, issued, repeated,
                             before, overtaken, turnedBack>>

Next == \/ \E t \in Thread : \/ Call(t) \/ SetVariable(t)
                             \/ Increment(t) \/ IncrementFails(t)
                             \/ Restart(t) \/ RestartFails(t)
                             \/ Wake(t) \/ Crash(t)
        \/ ClockMoves

Spec == Init /\ [][Next]_vars

-----------------------------------------------------------------------------
\* No number is given twice, whatever the interleaving of the statements and
\* however the clock moves, as long as no call turns the row back to the cycle
\* it read the time in: then that cycle and the next are served again.
NumbersOnce == turnedBack \/ ~repeated

Less(a, b) == a[1] < b[1] \/ (a[1] = b[1] /\ a[2] < b[2])

\* A call that starts after another was answered gets a later number, even
\* when the clock was set back, as long as the row is not turned back.
LaterCallsGetLaterNumbers ==
    [][~turnedBack' => \A a \in issued' \ issued : \A t \in Thread :
          pc[t] # pc'[t] => \A b \in before[t] : Less(b, a)]_vars
=============================================================================

----------------------- MODULE DatabaseCyclicSequence -----------------------
(***************************************************************************)
(* AbstractSequenceCyclicSequence: numbers cycle || suffix drawn from a    *)
(* sequence object of the database, which restarts at 1 with every cycle.  *)
(* A row keeps LAST_UPDATED, the time of the last number; the call that    *)
(* finds it in an earlier cycle than the clock restarts the sequence,      *)
(* holding the row's lock.                                                 *)
(*                                                                         *)
(* Times are modelled by the cycle they lie in.  The database is external: *)
(* each statement is atomic, a query reads committed rows without waiting, *)
(* an update waits for the row's lock, NEXTVAL and ALTER SEQUENCE take     *)
(* effect at once and are not undone by a rollback.                        *)
(***************************************************************************)
EXTENDS Integers, FiniteSets

CONSTANTS Thread,      \* calling threads, of all instances
          NoOne,       \* nobody holds the row's lock
          ClockSteps,  \* by how many cycles the database's clock may move
          LastCycle,   \* bound of the model: the last cycle
          MaxSuffix,   \* bound of the model: the largest suffix
          MaxCrash,    \* bound of the model: how many calls may die
          Idle         \* whether a whole cycle may pass without a number

maxAttempts == 3

VARIABLES seq,       \* the last number taken from the sequence object
          last,      \* LAST_UPDATED of the row, as committed
          row,       \* the call that holds the row's lock
          clock,     \* the cycle the database's clock is in
          pc,        \* where each call is in nextStringValue
          now,       \* the time its first query returned
          result,    \* its Result: the number and the time last read
          attempts,  \* remainingAttempts
          crashes,
          issued,    \* all answers given (history)
          answers,   \* how many answers were given (history)
          before     \* answers given before the present call (history)

call == <<now, result, attempts>>
vars == <<seq, last, row, clock, pc, call, crashes, issued, answers, before>>

Cycle == 0 .. LastCycle

TypeOK == /\ seq \in Nat /\ last \in Cycle /\ clock \in Cycle
          /\ row \in Thread \cup {NoOne}
          /\ pc \in [Thread -> {"idle", "query", "update", "lock", "restart",
                                "requery", "commit", "sleep"}]
          /\ now \in [Thread -> Cycle]
          /\ result \in [Thread -> Cycle \X Nat]
          /\ attempts \in [Thread -> 0 .. maxAttempts]
          /\ crashes \in 0 .. MaxCrash
          /\ issued \subseteq Cycle \X Nat
          /\ answers \in Nat
          /\ before \in [Thread -> SUBSET issued]
          /\ \A t \in Thread : pc[t] \in {"restart", "requery", "commit"} <=> row = t

\* createOrUpgradeTable: the row is new, and so is the sequence.
Init == /\ seq = 0 /\ last = 0 /\ row = NoOne /\ clock = 0
        /\ pc = [t \in Thread |-> "idle"]
        /\ now = [t \in Thread |-> 0]
        /\ result = [t \in Thread |-> <<0, 0>>]
        /\ attempts = [t \in Thread |-> 0]
        /\ crashes = 0
        /\ issued = {} /\ answers = 0
        /\ before = [t \in Thread |-> {}]

Goto(t, l) == pc' = [pc EXCEPT ![t] = l]

\* CURRENT_TIMESTAMP, but never before LAST_UPDATED.
Current(lastUpdated) == IF lastUpdated > clock THEN lastUpdated ELSE clock

Call(t) == /\ pc[t] = "idle"
           /\ attempts' = [attempts EXCEPT ![t] = maxAttempts]
           /\ before' = [before EXCEPT ![t] = issued]
           /\ Goto(t, "query")
           /\ UNCHANGED <<seq, last, row, clock, now, result, crashes, issued, answers>>

\* queryTimestampWithSequence, and the branch on sameCycle.
Query(t) == /\ pc[t] = "query"
            /\ seq < MaxSuffix
            /\ seq' = seq + 1
            /\ now' = [now EXCEPT ![t] = Current(last)]
            /\ result' = [result EXCEPT ![t] = <<Current(last), seq + 1>>]
            /\ Goto(t, IF last = Current(last) THEN "update" ELSE "lock")
            /\ UNCHANGED <<last, row, clock, attempts, crashes, issued, answers, before>>

Answer(t) == /\ issued' = issued \cup {result[t]}
             /\ answers' = answers + 1
             /\ Goto(t, "idle")
             /\ UNCHANGED <<seq, clock, call, crashes, before>>

\* updateLastUpdated up to the start of the next cycle: 1 row, the number is
\* the answer.
Update(t) == /\ pc[t] = "update"
             /\ row = NoOne
             /\ last <= now[t]
             /\ last' = now[t]
             /\ Answer(t)
             /\ UNCHANGED row

\* The attempt came to nothing: sleep and try again, or throw
\* MaxAttemptsExceededException.
Retry(t) == /\ attempts' = [attempts EXCEPT ![t] = @ - 1]
            /\ Goto(t, IF attempts[t] > 1 THEN "sleep" ELSE "idle")
            /\ UNCHANGED <<seq, last, row, clock, now, result, crashes, issued,
                           answers, before>>

\* 0 rows: another call has turned the cycle since the query.
UpdateFails(t) == pc[t] = "update" /\ row = NoOne /\ last > now[t] /\ Retry(t)

-----------------------------------------------------------------------------
(* The turn of the cycle, in a transaction.                                *)

\* Under the lock: the row is still in an earlier cycle than the clock, and
\* than the time of the first query, which becomes LAST_UPDATED.
MayTurn(t) == last # Current(last) /\ last < now[t]

\* queryTimestampForUpdate and updateLastUpdated up to the start of the cycle.
\* The new LAST_UPDATED is now[t], not committed yet.
Lock(t) == /\ pc[t] = "lock"
           /\ row = NoOne
           /\ MayTurn(t)
           /\ row' = t
           /\ Goto(t, "restart")
           /\ UNCHANGED <<seq, last, clock, call, crashes, issued, answers, before>>

\* Another call has turned the cycle: commit and try again.
LockInVain(t) == pc[t] = "lock" /\ row = NoOne /\ ~MayTurn(t) /\ Retry(t)

\* ALTER SEQUENCE ... RESTART WITH 1
RestartSequence(t) == /\ pc[t] = "restart"
                      /\ seq' = 0
                      /\ Goto(t, "requery")
                      /\ UNCHANGED <<last, row, clock, call, crashes, issued,
                                     answers, before>>

\* queryTimestampWithSequence again; the transaction sees its own update.
Requery(t) == /\ pc[t] = "requery"
              /\ seq < MaxSuffix
              /\ seq' = seq + 1
              /\ result' = [result EXCEPT ![t] = <<Current(now[t]), seq + 1>>]
              /\ Goto(t, "commit")
              /\ UNCHANGED <<last, row, clock, now, attempts, crashes, issued,
                             answers, before>>

\* The finally block commits, and the number just read is the answer.
Commit(t) == /\ pc[t] = "commit"
             /\ last' = now[t]
             /\ row' = NoOne
             /\ Answer(t)

Wake(t) == /\ pc[t] = "sleep"
           /\ Goto(t, "query")
           /\ UNCHANGED <<seq, last, row, clock, call, crashes, issued, answers, before>>

\* The calling instance dies; the database rolls its transaction back.
Crash(t) == /\ pc[t] # "idle"
            /\ crashes < MaxCrash
            /\ crashes' = crashes + 1
            /\ row' = IF row = t THEN NoOne ELSE row
            /\ Goto(t, "idle")
            /\ UNCHANGED <<seq, last, clock, call, issued, answers, before>>

\* The clock gets a whole cycle ahead of LAST_UPDATED only with Idle.  It is
\* not set back over a restart that is half done, or that a crash may have left
\* half done: then the restarted sequence would serve the earlier cycle again.
ClockMoves == \E d \in ClockSteps :
                 /\ clock + d \in Cycle
                 /\ Idle \/ clock + d <= last + 1
                 /\ d < 0 => crashes = 0 /\ row = NoOne
                 /\ clock' = clock + d
                 /\ UNCHANGED <<seq, last, row, pc, call, crashes, issued, answers, before>>

Next == \/ \E t \in Thread : \/ Call(t) \/ Query(t)
                             \/ Update(t) \/ UpdateFails(t)
                             \/ Lock(t) \/ LockInVain(t)
                             \/ RestartSequence(t) \/ Requery(t) \/ Commit(t)
                             \/ Wake(t) \/ Crash(t)
        \/ ClockMoves

Spec == Init /\ [][Next]_vars

-----------------------------------------------------------------------------
\* No two calls get the same number, whatever the interleaving at a turn.  It
\* takes a sequence in steady use: with Idle it does not hold.
UniqueNumbers == Cardinality(issued) = answers

\* LAST_UPDATED never goes back to an earlier cycle: an update that comes late
\* does not undo a turn, which would make the next call restart again.
TurnsAreKept == [][last' >= last]_vars

Less(a, b) == a[1] < b[1] \/ (a[1] = b[1] /\ a[2] < b[2])

\* "keep monotonic incrementing": a call that starts after another has been
\* answered gets a later number, even when the clock has been set back.
LaterCallsGetLaterNumbers ==
    [][\A t \in Thread : answers' > answers /\ pc[t] # pc'[t]
          => \A b \in before[t] : Less(b, result[t])]_vars
=============================================================================

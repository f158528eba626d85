--------------------------- MODULE PollingControl ---------------------------
(***************************************************************************)
(* AbstractPollingControl and BasePollingControl: rows of a database table *)
(* that wait to be handled.  Every instance runs an enqueuer, which marks  *)
(* rows PROCESSING in a transaction and then pushes their ids on a Redis   *)
(* list, and workers, which pop an id, read its row, handle it and record  *)
(* the outcome if the row still has the status they read.  Rows that       *)
(* failed for a passing reason are queued again after a while, and so are  *)
(* rows that stay PROCESSING for long, for their id may have been lost.    *)
(*                                                                         *)
(* A transaction is one step, since it locks the rows it selects and skips *)
(* those that are locked; a Redis command is one step.  Between the steps  *)
(* of a thread anything may happen, and any thread may fail or be killed.  *)
(* Ids are ordered as the queries order them.  Rows are not deleted.       *)
(***************************************************************************)
EXTENDS Lists

CONSTANTS Ids,               \* the rows
          Enqueuers,         \* the threads that run doEnqueue, one for each instance
          Workers,           \* the threads that run doDequeue
          BatchSize,         \* batchSize
          MaxAttempts,       \* maxAttempts
          IntervalFactor,    \* intervalFactorInSeconds
          ResubmitInterval,  \* resubmitIntervalInSeconds
          RetryEvery,        \* temporary errors are retried in one of so many cycles
          ResubmitEvery,     \* and lost rows are resubmitted in one of so many
          MaxFailures        \* bound of the model: threads that fail or are killed

ASSUME PollingAssumption ==
  /\ Ids \subseteq Nat \ {0} /\ IsFiniteSet(Ids) /\ IsFiniteSet(Enqueuers)
  /\ BatchSize \in Nat \ {0} /\ MaxAttempts \in Nat \ {0}
  /\ IntervalFactor \in Nat /\ ResubmitInterval \in Nat
  /\ RetryEvery \in Nat \ {0, 1} /\ ResubmitEvery \in Nat \ {0, 1}
  /\ ResubmitEvery % RetryEvery = 0
  /\ MaxFailures \in Nat

VARIABLES row,       \* the table: status and attempts
          age,       \* the time since modifyDate of each row, up to MaxAge
          queue,     \* the Redis list, its left end first
          enqueuer,  \* where each doEnqueue is: its cycle, the mode of its pass,
                     \* the ids it has to push on the left and on the right
          worker,    \* where each doDequeue is: its id and the status it read
          late,      \* some row was old enough to be resubmitted before it was handled
          failures

vars == <<row, age, queue, enqueuer, worker, late, failures>>

Open == {"INITIALIZED", "PROCESSING", "TEMPORARY_ERROR"}
Ended == {"SUCCESSFUL", "FAILED"}

\* The age beyond which no query tells rows apart.
MaxAge == 1 + (IF ResubmitInterval > IntervalFactor * MaxAttempts
               THEN ResubmitInterval ELSE IntervalFactor * MaxAttempts)

Resting == [at |-> "idle", id |-> 0, status |-> "PROCESSING"]

TypeOK ==
  /\ row \in [Ids -> [status : Open \cup Ended, attempts : 0 .. MaxAttempts]]
  /\ age \in [Ids -> 0 .. MaxAge]
  /\ queue \in Seq(Ids)
  /\ enqueuer \in [Enqueuers -> [at : {"idle", "select", "cut", "prepend", "append"},
                                 cycle : 0 .. ResubmitEvery - 1,
                                 mode : {"normal", "retried", "resubmitted"},
                                 left : Seq(Ids), right : Seq(Ids)]]
  /\ worker \in [Workers -> [at : {"idle", "popped", "overdue", "handling"},
                             id : Ids \cup {0}, status : Open]]
  /\ late \in BOOLEAN
  /\ failures \in 0 .. MaxFailures

\* A row is new, or comes from a time when maxAttempts was larger.
Init == /\ row \in [Ids -> {[status |-> "INITIALIZED", attempts |-> 0],
                            [status |-> "TEMPORARY_ERROR", attempts |-> MaxAttempts]}]
        /\ age = [e \in Ids |-> 0]
        /\ queue = <<>>
        /\ enqueuer = [n \in Enqueuers |-> [at |-> "idle", cycle |-> 0, mode |-> "normal",
                                            left |-> <<>>, right |-> <<>>]]
        /\ worker = [w \in Workers |-> Resting]
        /\ late = FALSE
        /\ failures = 0
-----------------------------------------------------------------------------
(* The enqueuers *)

Wait(e) == IntervalFactor * (IF row[e].attempts < MaxAttempts THEN row[e].attempts ELSE MaxAttempts)

\* The rows the query of a pass selects.
Due(mode) ==
  {e \in Ids : \/ mode = "normal" /\ row[e].status = "INITIALIZED"
               \/ mode = "retried" /\ row[e].status = "TEMPORARY_ERROR" /\ age[e] > Wait(e)
               \/ mode = "resubmitted" /\ row[e].status = "PROCESSING" /\ age[e] > ResubmitInterval}

\* At most BatchSize of them, the first in the order of the query.
Batch(due) == {e \in due : Cardinality({d \in due : d < e}) < BatchSize}

BeginCycle(n) ==
  /\ enqueuer[n].at = "idle"
  /\ enqueuer' = [enqueuer EXCEPT ![n].at = "select", ![n].mode = "normal",
                                  ![n].cycle = (@ + 1) % ResubmitEvery]
  /\ UNCHANGED <<row, age, queue, worker, late, failures>>

\* Some rows in the order of their ids.
InOrder(rows) == {ids \in [1 .. Cardinality(rows) -> rows] :
                    \A i, j \in DOMAIN ids : i < j => ids[i] < ids[j]}

\* Mutant: modifyDate is left as it was.
SelectUntouched(n) ==
  LET batch == Batch(Due(enqueuer[n].mode))
  IN /\ enqueuer[n].at = "select"
     /\ batch # {}
     /\ row' = [e \in Ids |-> IF e \in batch THEN [row[e] EXCEPT !.status = "PROCESSING"]
                              ELSE row[e]]
     /\ \E ids \in InOrder(batch) :
          enqueuer' = [enqueuer EXCEPT ![n].left = ids,
                                       ![n].at = IF enqueuer[n].mode = "normal"
                                                 THEN "append" ELSE "cut"]
     /\ UNCHANGED <<age, queue, worker, late, failures>>

\* The transaction of a pass: what it selects is marked PROCESSING.
Select(n) ==
  LET batch == Batch(Due(enqueuer[n].mode))
  IN /\ enqueuer[n].at = "select"
     /\ batch # {}
     /\ row' = [e \in Ids |-> IF e \in batch THEN [row[e] EXCEPT !.status = "PROCESSING"]
                              ELSE row[e]]
     /\ age' = [e \in Ids |-> IF e \in batch THEN 0 ELSE age[e]]
     /\ \E ids \in InOrder(batch) :
          enqueuer' = [enqueuer EXCEPT ![n].left = ids,
                                       ![n].at = IF enqueuer[n].mode = "normal"
                                                 THEN "append" ELSE "cut"]
     /\ UNCHANGED <<queue, worker, late, failures>>

\* Mutant: the cycles that resubmit are not among those that retry.
EndPassOffByOne(n) ==
  /\ enqueuer[n].at = "select"
  /\ Due(enqueuer[n].mode) = {}
  /\ LET next == CASE enqueuer[n].mode = "normal" /\ enqueuer[n].cycle % RetryEvery = 1 -> "retried"
                   [] enqueuer[n].mode = "retried" /\ enqueuer[n].cycle % ResubmitEvery = 0 -> "resubmitted"
                   [] OTHER -> "none"
     IN enqueuer' = [enqueuer EXCEPT ![n].at = IF next = "none" THEN "idle" ELSE "select",
                                     ![n].mode = IF next = "none" THEN "normal" ELSE next]
  /\ UNCHANGED <<row, age, queue, worker, late, failures>>

\* No row is left for this pass: the next one, if it is its turn in this cycle.
EndPass(n) ==
  /\ enqueuer[n].at = "select"
  /\ Due(enqueuer[n].mode) = {}
  /\ LET next == CASE enqueuer[n].mode = "normal" /\ enqueuer[n].cycle % RetryEvery = 1 -> "retried"
                   [] enqueuer[n].mode = "retried" /\ enqueuer[n].cycle % ResubmitEvery = 1 -> "resubmitted"
                   [] OTHER -> "none"
     IN enqueuer' = [enqueuer EXCEPT ![n].at = IF next = "none" THEN "idle" ELSE "select",
                                     ![n].mode = IF next = "none" THEN "normal" ELSE next]
  /\ UNCHANGED <<row, age, queue, worker, late, failures>>

\* Mutant: ids are pushed again without a look at the queue.
PushAgain(n) == /\ enqueuer[n].at = "cut"
                /\ enqueuer' = [enqueuer EXCEPT ![n].at = "append"]
                /\ UNCHANGED <<row, age, queue, worker, late, failures>>

\* Deduplication: an id that is still in the queue is cut out of it.
Cut(n) ==
  LET ids == enqueuer[n].left
  IN /\ enqueuer[n].at = "cut"
     /\ queue' = WithoutFirsts(queue, ToSet(ids))
     /\ enqueuer' = [enqueuer EXCEPT
          ![n].at = IF \E i \in ToSet(ids) : Contains(queue, i) THEN "prepend" ELSE "append",
          ![n].right = Only(ids, ToSet(queue)),
          ![n].left = Only(ids, Ids \ ToSet(queue))]
     /\ UNCHANGED <<row, age, worker, late, failures>>

\* What was cut out goes to the right end, where it is the next to be popped.
Prepend(n) ==
  /\ enqueuer[n].at = "prepend"
  /\ queue' = queue \o enqueuer[n].right
  /\ enqueuer' = [enqueuer EXCEPT ![n].right = <<>>,
                                  ![n].at = IF enqueuer[n].left = <<>> THEN "select" ELSE "append"]
  /\ UNCHANGED <<row, age, worker, late, failures>>

Push(n) ==
  /\ enqueuer[n].at = "append"
  /\ queue' = Reverse(enqueuer[n].left) \o queue
  /\ enqueuer' = [enqueuer EXCEPT ![n].left = <<>>, ![n].at = "select"]
  /\ UNCHANGED <<row, age, worker, late, failures>>
-----------------------------------------------------------------------------
(* The workers *)

Pop(w) ==
  /\ worker[w].at = "idle"
  /\ queue # <<>>
  /\ queue' = Front(queue)
  /\ worker' = [worker EXCEPT ![w] = [at |-> "popped", id |-> Last(queue), status |-> @.status]]
  /\ UNCHANGED <<row, age, enqueuer, late, failures>>

\* The row is read: it may have ended, or have been tried too often.
Look(w) ==
  LET r == row[worker[w].id]
  IN /\ worker[w].at = "popped"
     /\ worker' = [worker EXCEPT
          ![w] = IF r.status \in Ended THEN Resting
                 ELSE [at |-> IF r.attempts >= MaxAttempts THEN "overdue" ELSE "handling",
                       id |-> @.id, status |-> r.status]]
     /\ UNCHANGED <<row, age, queue, enqueuer, late, failures>>

\* Mutant: update ... where id = ?1.
RecordAnyway(w, status, attempts) ==
  /\ row' = [row EXCEPT ![worker[w].id] = [status |-> status, attempts |-> attempts]]
  /\ age' = [age EXCEPT ![worker[w].id] = 0]
  /\ worker' = [worker EXCEPT ![w] = Resting]
  /\ UNCHANGED <<queue, enqueuer, late, failures>>

\* update ... where id = ?1 and status = ?2, with the status that was read.
Record(w, status, attempts) ==
  LET e == worker[w].id
  IN /\ IF row[e].status = worker[w].status
        THEN /\ row' = [row EXCEPT ![e] = [status |-> status, attempts |-> attempts]]
             /\ age' = [age EXCEPT ![e] = 0]
        ELSE UNCHANGED <<row, age>>
     /\ worker' = [worker EXCEPT ![w] = Resting]
     /\ UNCHANGED <<queue, enqueuer, late, failures>>

Attempts(w) == row[worker[w].id].attempts

GiveUp(w) == /\ worker[w].at = "overdue"
             /\ Record(w, "FAILED", Attempts(w))

Succeed(w) == /\ worker[w].at = "handling"
              /\ Record(w, "SUCCESSFUL", Attempts(w) + 1)

\* Mutant: one attempt too many.
FailOnceMore(w) ==
  /\ worker[w].at = "handling"
  /\ Record(w, IF Attempts(w) + 1 > MaxAttempts THEN "FAILED" ELSE "TEMPORARY_ERROR", Attempts(w) + 1)

\* The handler failed for a passing reason: conditionalUpdateStatusHql.
FailTemporarily(w) ==
  /\ worker[w].at = "handling"
  /\ Record(w, IF Attempts(w) + 1 >= MaxAttempts THEN "FAILED" ELSE "TEMPORARY_ERROR", Attempts(w) + 1)

FailPermanently(w) == /\ worker[w].at = "handling"
                      /\ Record(w, "FAILED", Attempts(w) + 1)
-----------------------------------------------------------------------------
(* Time and failures *)

\* The id of the row is still in somebody's hands.
Submitted(e) == \/ Contains(queue, e)
                \/ \E n \in Enqueuers : \/ Contains(enqueuer[n].left, e)
                                        \/ Contains(enqueuer[n].right, e)
                \/ \E w \in Workers : worker[w].at # "idle" /\ worker[w].id = e

Tick == /\ \E e \in Ids : row[e].status \in Open /\ age[e] < MaxAge
        /\ age' = [e \in Ids |-> IF age[e] < MaxAge THEN age[e] + 1 ELSE MaxAge]
        /\ late' = (late \/ \E e \in Ids : age[e] >= ResubmitInterval /\ Submitted(e))
        /\ UNCHANGED <<row, queue, enqueuer, worker, failures>>

\* doEnqueue ends with an exception, or its instance is killed.
EnqueuerFails(n) ==
  /\ failures < MaxFailures
  /\ enqueuer[n].at # "idle"
  /\ \E cycle \in {0, enqueuer[n].cycle} :
       enqueuer' = [enqueuer EXCEPT ![n] = [at |-> "idle", cycle |-> cycle, mode |-> "normal",
                                            left |-> <<>>, right |-> <<>>]]
  /\ failures' = failures + 1
  /\ UNCHANGED <<row, age, queue, worker, late>>

\* doDequeue ends with an exception of the database, or its instance is killed.
WorkerFails(w) ==
  /\ failures < MaxFailures
  /\ worker[w].at # "idle"
  /\ worker' = [worker EXCEPT ![w] = Resting]
  /\ failures' = failures + 1
  /\ UNCHANGED <<row, age, queue, enqueuer, late>>
-----------------------------------------------------------------------------
Enqueue(n) == \/ BeginCycle(n) \/ Select(n) \/ EndPass(n)
              \/ Cut(n) \/ Prepend(n) \/ Push(n)

Dequeue(w) == \/ Pop(w) \/ Look(w) \/ GiveUp(w) \/ Succeed(w)
              \/ FailTemporarily(w) \/ FailPermanently(w)

Next == \/ \E n \in Enqueuers : Enqueue(n) \/ EnqueuerFails(n)
        \/ \E w \in Workers : Dequeue(w) \/ WorkerFails(w)
        \/ Tick

\* Both tasks are scheduled for ever, a handler returns, and a worker that keeps
\* finding the queue filled gets to pop from it.
Fairness == /\ \A n \in Enqueuers : WF_vars(Enqueue(n))
            /\ \A w \in Workers : WF_vars(Dequeue(w)) /\ SF_vars(Pop(w))
            /\ WF_vars(Tick)

Spec == Init /\ [][Next]_vars /\ Fairness
-----------------------------------------------------------------------------
(* Properties *)

\* A row that has ended stays as it is: late answers of workers whose row was
\* resubmitted meanwhile are ignored, so one outcome at most is recorded.
EndedIsFinal == [][\A e \in Ids : row[e].status \in Ended => row'[e] = row[e]]_row

\* Resubmitting does not flood the queue: however slow the workers are, a row has
\* at most as many copies there as there are enqueuers.
FewCopies == \A e \in Ids : Occurrences(queue, e) <= Cardinality(Enqueuers)

\* As long as every row is handled before it is old enough to be resubmitted, no
\* two workers hold the same row, whoever fails.
OneWorker == late \/ \A v, w \in Workers :
               v # w /\ worker[v].at # "idle" /\ worker[w].at # "idle" => worker[v].id # worker[w].id

\* Every row ends, although threads fail with ids in their hands.
EveryRowEnds == \A e \in Ids : <>(row[e].status \in Ended)
=============================================================================

------------------------ MODULE PollingControlProofs ------------------------
(***************************************************************************)
(* A row that has ended stays as it is, the queue does not fill up with    *)
(* copies of an id, and as long as no row is late only one worker has it.  *)
(* For any rows, instances and workers, any bounds on attempts and         *)
(* intervals, any size of a batch and any failures.                        *)
(***************************************************************************)
EXTENDS PollingControl, ListTheorems

-----------------------------------------------------------------------------
(* Types                                                                   *)

\* A worker that holds an id holds a row's, and one that handles it will not
\* count an attempt too many: the row is not used up, or has ended meanwhile,
\* so that the update does not match it.
WorkersRight ==
  \A w \in Workers :
     worker[w].at # "idle" =>
        /\ worker[w].id \in Ids
        /\ worker[w].at = "handling" => \/ row[worker[w].id].attempts < MaxAttempts
                                        \/ row[worker[w].id].status \in Ended

TypeInv == TypeOK /\ WorkersRight

LEMMA Constants == /\ ResubmitInterval \in Nat /\ MaxAttempts \in Nat \ {0}
                   /\ MaxAge \in Nat /\ MaxAge > ResubmitInterval
                   /\ ResubmitEvery \in Nat \ {0}
  <1>1. IntervalFactor * MaxAttempts \in Nat
    BY PollingAssumption
  <1>2. QED
    BY <1>1, PollingAssumption DEF MaxAge

LEMMA InitTypeInv == Init => TypeInv
  <1> SUFFICES ASSUME Init PROVE TypeInv
    OBVIOUS
  <1>1. row \in [Ids -> [status : Open \cup Ended, attempts : 0 .. MaxAttempts]]
    BY Constants DEF Init, Open, Ended
  <1>2. age \in [Ids -> 0 .. MaxAge]
    BY Constants DEF Init
  <1>3. queue \in Seq(Ids)
    BY DEF Init
  <1>4. enqueuer \in [Enqueuers -> [at : {"idle", "select", "cut", "prepend", "append"},
                                    cycle : 0 .. ResubmitEvery - 1,
                                    mode : {"normal", "retried", "resubmitted"},
                                    left : Seq(Ids), right : Seq(Ids)]]
    BY Constants DEF Init
  <1>5. worker \in [Workers -> [at : {"idle", "popped", "overdue", "handling"},
                                id : Ids \cup {0}, status : Open]]
    BY DEF Init, Resting, Open
  <1>6. late \in BOOLEAN
    BY DEF Init
  <1>6a. failures \in 0 .. MaxFailures
    BY PollingAssumption DEF Init
  <1>7. WorkersRight
    BY DEF Init, WorkersRight, Resting
  <1>8. QED
    BY <1>1, <1>2, <1>3, <1>4, <1>5, <1>6, <1>6a, <1>7 DEF TypeInv, TypeOK

\* The rows of a batch, in order, are a list of rows.
LEMMA InOrderIsList ==
  ASSUME NEW rows \in SUBSET Ids, NEW ids \in InOrder(rows)
  PROVE  /\ ids \in Seq(Ids)
         /\ \A x : Contains(ids, x) => x \in rows
         /\ \A x : Occurrences(ids, x) <= 1
  <1>1. IsFiniteSet(rows)
    BY PollingAssumption, FS_Subset
  <1>2. PICK c \in Nat : c = Cardinality(rows)
    BY <1>1, FS_CardinalityType
  <1>3. /\ ids \in [1 .. c -> rows]
        /\ \A i, j \in 1 .. c : i < j => ids[i] < ids[j]
    BY <1>2 DEF InOrder
  <1>4. ids \in Seq(Ids) /\ Len(ids) = c
    BY <1>3
  <1>5. \A x : Contains(ids, x) => x \in rows
    BY <1>3, <1>4 DEF Contains
  <1>6. \A i, j \in 1 .. c : ids[i] = ids[j] => i = j
    <2> SUFFICES ASSUME NEW i \in 1 .. c, NEW j \in 1 .. c, ids[i] = ids[j], i # j PROVE FALSE
      OBVIOUS
    <2>1. ids[i] \in Nat /\ ids[j] \in Nat
      BY <1>3, PollingAssumption
    <2>2. ids[i] < ids[j] \/ ids[j] < ids[i]
      BY <1>3
    <2>3. QED
      BY <2>1, <2>2
  <1>7. \A x : Occurrences(ids, x) <= 1
    BY <1>4, <1>6, OccurrencesAtMostOne
  <1>8. QED
    BY <1>4, <1>5, <1>7

LEMMA BatchOfRows == \A mode : Batch(Due(mode)) \in SUBSET Ids /\ Batch(Due(mode)) \subseteq Due(mode)
  BY DEF Batch, Due

Enqueuing == [at : {"idle", "select", "cut", "prepend", "append"},
              cycle : 0 .. ResubmitEvery - 1,
              mode : {"normal", "retried", "resubmitted"},
              left : Seq(Ids), right : Seq(Ids)]

\* What a step of an enqueuer does to the enqueuers.
Enqueues(n, at, left, right) ==
  /\ enqueuer' \in [Enqueuers -> Enqueuing]
  /\ \A m \in Enqueuers \ {n} : enqueuer'[m] = enqueuer[m]
  /\ enqueuer'[n].at = at
  /\ enqueuer'[n].left = left
  /\ enqueuer'[n].right = right

LEMMA EnqueuerType ==
  ASSUME TypeOK, NEW n \in Enqueuers, NEW e \in Enqueuing,
         enqueuer' = [m \in Enqueuers |-> enqueuer'[m]],
         \A m \in Enqueuers \ {n} : enqueuer'[m] = enqueuer[m],
         enqueuer'[n] = e
  PROVE  Enqueues(n, e.at, e.left, e.right)
  BY DEF TypeOK, Enqueuing, Enqueues

LEMMA EnqueuerFields ==
  ASSUME TypeOK, NEW n \in Enqueuers
  PROVE  /\ enqueuer \in [Enqueuers -> Enqueuing]
         /\ enqueuer[n] \in Enqueuing
         /\ enqueuer[n].left \in Seq(Ids) /\ enqueuer[n].right \in Seq(Ids)
         /\ enqueuer[n].cycle \in 0 .. ResubmitEvery - 1
         /\ enqueuer[n].mode \in {"normal", "retried", "resubmitted"}
         /\ queue \in Seq(Ids)
  BY DEF TypeOK, Enqueuing

LEMMA BeginCycleStep ==
  ASSUME TypeOK, NEW n \in Enqueuers, BeginCycle(n)
  PROVE  Enqueues(n, "select", enqueuer[n].left, enqueuer[n].right)
  <1> DEFINE c == (enqueuer[n].cycle + 1) % ResubmitEvery
             e == [at |-> "select", cycle |-> c, mode |-> "normal",
                   left |-> enqueuer[n].left, right |-> enqueuer[n].right]
  <1>1. c \in 0 .. ResubmitEvery - 1
    BY EnqueuerFields, Constants
  <1>2. /\ enqueuer' = [m \in Enqueuers |-> enqueuer'[m]]
        /\ \A m \in Enqueuers \ {n} : enqueuer'[m] = enqueuer[m]
    BY EnqueuerFields DEF BeginCycle
  <1>2a. enqueuer'[n] = e
    BY EnqueuerFields DEF BeginCycle, Enqueuing
  <1> HIDE DEF c
  <1>3. e \in Enqueuing
    BY <1>1, EnqueuerFields DEF Enqueuing
  <1>4. QED
    BY <1>2, <1>3, <1>2a, EnqueuerType

LEMMA SelectStep ==
  ASSUME TypeOK, NEW n \in Enqueuers, Select(n)
  PROVE  \E ids \in Seq(Ids) :
           /\ \A x : Contains(ids, x) => x \in Batch(Due(enqueuer[n].mode))
           /\ \A x : Occurrences(ids, x) <= 1
           /\ Enqueues(n, IF enqueuer[n].mode = "normal" THEN "append" ELSE "cut",
                       ids, enqueuer[n].right)
  <1>1. PICK ids \in InOrder(Batch(Due(enqueuer[n].mode))) :
          enqueuer' = [enqueuer EXCEPT ![n].left = ids,
                                       ![n].at = IF enqueuer[n].mode = "normal"
                                                 THEN "append" ELSE "cut"]
    BY DEF Select
  <1>2. /\ ids \in Seq(Ids)
        /\ \A x : Contains(ids, x) => x \in Batch(Due(enqueuer[n].mode))
        /\ \A x : Occurrences(ids, x) <= 1
    BY BatchOfRows, InOrderIsList
  <1> DEFINE a == IF enqueuer[n].mode = "normal" THEN "append" ELSE "cut"
             e == [at |-> a, cycle |-> enqueuer[n].cycle, mode |-> enqueuer[n].mode,
                   left |-> ids, right |-> enqueuer[n].right]
  <1>3. /\ enqueuer' = [m \in Enqueuers |-> enqueuer'[m]]
        /\ \A m \in Enqueuers \ {n} : enqueuer'[m] = enqueuer[m]
    BY <1>1, EnqueuerFields
  <1>3a. enqueuer'[n] = e
    BY <1>1, EnqueuerFields DEF Enqueuing
  <1>4. a \in {"append", "cut"}
    OBVIOUS
  <1> HIDE DEF a
  <1>5. e \in Enqueuing
    BY <1>2, <1>4, EnqueuerFields DEF Enqueuing
  <1>6. Enqueues(n, a, ids, enqueuer[n].right)
    BY <1>3, <1>5, <1>3a, EnqueuerType
  <1>7. QED
    BY <1>2, <1>6 DEF a

LEMMA EndPassStep ==
  ASSUME TypeOK, NEW n \in Enqueuers, EndPass(n)
  PROVE  \E at \in {"idle", "select"} : Enqueues(n, at, enqueuer[n].left, enqueuer[n].right)
  <1> DEFINE next == CASE enqueuer[n].mode = "normal" /\ enqueuer[n].cycle % RetryEvery = 1 -> "retried"
                       [] enqueuer[n].mode = "retried" /\ enqueuer[n].cycle % ResubmitEvery = 1 -> "resubmitted"
                       [] OTHER -> "none"
             a == IF next = "none" THEN "idle" ELSE "select"
             m == IF next = "none" THEN "normal" ELSE next
             e == [at |-> a, cycle |-> enqueuer[n].cycle, mode |-> m,
                   left |-> enqueuer[n].left, right |-> enqueuer[n].right]
  <1>1. next \in {"retried", "resubmitted", "none"}
    OBVIOUS
  <1>2. enqueuer' = [enqueuer EXCEPT ![n].at = a, ![n].mode = m]
    BY DEF EndPass
  <1> HIDE DEF next
  <1>3. a \in {"idle", "select"} /\ m \in {"normal", "retried", "resubmitted"}
    BY <1>1
  <1> HIDE DEF a, m
  <1>4. /\ enqueuer' = [k \in Enqueuers |-> enqueuer'[k]]
        /\ \A k \in Enqueuers \ {n} : enqueuer'[k] = enqueuer[k]
    BY <1>2, EnqueuerFields
  <1>4a. enqueuer'[n] = e
    BY <1>2, EnqueuerFields DEF Enqueuing
  <1>5. e \in Enqueuing
    BY <1>3, EnqueuerFields DEF Enqueuing
  <1>6. Enqueues(n, a, enqueuer[n].left, enqueuer[n].right)
    BY <1>4, <1>5, <1>4a, EnqueuerType
  <1>7. QED
    BY <1>3, <1>6

\* Some of the ids of a list are ids.
LEMMA OnlyIds == ASSUME NEW s \in Seq(Ids), NEW S PROVE Only(s, S) \in Seq(Ids)
  <1>1. Only(s, S) \in Seq(Ids \cap S)
    BY OnlyType
  <1> DEFINE U == Ids \cap S
  <1>2. U \subseteq Ids
    OBVIOUS
  <1> HIDE DEF U
  <1>3. Seq(U) \subseteq Seq(Ids)
    BY <1>2, SeqMonotonic
  <1>4. QED
    BY <1>1, <1>3 DEF U

LEMMA CutStep ==
  ASSUME TypeOK, NEW n \in Enqueuers, Cut(n)
  PROVE  LET ids == enqueuer[n].left
         IN  \E at \in {"prepend", "append"} :
               /\ Enqueues(n, at, Only(ids, Ids \ ToSet(queue)), Only(ids, ToSet(queue)))
               /\ at = "append" => Only(ids, ToSet(queue)) = <<>>
               /\ queue' = WithoutFirsts(queue, ToSet(ids))
               /\ queue' \in Seq(Ids)
  <1> DEFINE ids == enqueuer[n].left
             a == IF \E i \in ToSet(ids) : Contains(queue, i) THEN "prepend" ELSE "append"
             l == Only(ids, Ids \ ToSet(queue))
             r == Only(ids, ToSet(queue))
             e == [at |-> a, cycle |-> enqueuer[n].cycle, mode |-> enqueuer[n].mode,
                   left |-> l, right |-> r]
  <1>1. /\ enqueuer' = [enqueuer EXCEPT ![n].at = a, ![n].right = r, ![n].left = l]
        /\ queue' = WithoutFirsts(queue, ToSet(ids))
    BY DEF Cut
  <1>2. a \in {"prepend", "append"}
    OBVIOUS
  <1>3. l \in Seq(Ids) /\ r \in Seq(Ids)
    BY OnlyIds, EnqueuerFields
  <1>4. a = "append" => r = <<>>
    <2> SUFFICES ASSUME a = "append" PROVE r = <<>>
      OBVIOUS
    <2>1. \A x : Contains(ids, x) => ~ Contains(queue, x)
      BY EnqueuerFields, ContainsToSet
    <2>2. \A x : Contains(ids, x) => (x \in ToSet(queue) <=> x \in {})
      BY <2>1, EnqueuerFields, ContainsToSet
    <2>3. ids \in Seq(Ids)
      BY EnqueuerFields
    <2> HIDE DEF ids
    <2>4. Only(ids, ToSet(queue)) = Only(ids, {})
      BY <2>2, <2>3, OnlySame
    <2>5. Only(ids, {}) = <<>>
      BY <2>3, OnlyNone
    <2>6. QED
      BY <2>4, <2>5
  <1>5. queue' \in Seq(Ids)
    BY <1>1, EnqueuerFields, WithoutFirstsType
  <1> HIDE DEF a, l, r
  <1>6. /\ enqueuer' = [m \in Enqueuers |-> enqueuer'[m]]
        /\ \A m \in Enqueuers \ {n} : enqueuer'[m] = enqueuer[m]
    BY <1>1, EnqueuerFields
  <1>6a. enqueuer'[n] = e
    BY <1>1, EnqueuerFields DEF Enqueuing
  <1>7. e \in Enqueuing
    BY <1>2, <1>3, EnqueuerFields DEF Enqueuing
  <1>8. Enqueues(n, a, l, r)
    BY <1>6, <1>7, <1>6a, EnqueuerType
  <1>9. QED
    BY <1>1, <1>2, <1>4, <1>5, <1>8 DEF l, r

LEMMA PrependStep ==
  ASSUME TypeOK, NEW n \in Enqueuers, Prepend(n)
  PROVE  /\ Enqueues(n, IF enqueuer[n].left = <<>> THEN "select" ELSE "append",
                     enqueuer[n].left, <<>>)
         /\ queue' = queue \o enqueuer[n].right
         /\ queue' \in Seq(Ids)
  <1> DEFINE a == IF enqueuer[n].left = <<>> THEN "select" ELSE "append"
             e == [at |-> a, cycle |-> enqueuer[n].cycle, mode |-> enqueuer[n].mode,
                   left |-> enqueuer[n].left, right |-> <<>>]
  <1>1. /\ enqueuer' = [enqueuer EXCEPT ![n].right = <<>>, ![n].at = a]
        /\ queue' = queue \o enqueuer[n].right
    BY DEF Prepend
  <1>2. a \in {"select", "append"}
    OBVIOUS
  <1>3. queue' \in Seq(Ids)
    BY <1>1, EnqueuerFields, ConcatProperties
  <1> HIDE DEF a
  <1>4. /\ enqueuer' = [m \in Enqueuers |-> enqueuer'[m]]
        /\ \A m \in Enqueuers \ {n} : enqueuer'[m] = enqueuer[m]
    BY <1>1, EnqueuerFields
  <1>4a. enqueuer'[n] = e
    BY <1>1, EnqueuerFields DEF Enqueuing
  <1>5. e \in Enqueuing
    BY <1>2, EnqueuerFields, EmptySeq DEF Enqueuing
  <1>6. Enqueues(n, a, enqueuer[n].left, <<>>)
    BY <1>4, <1>5, <1>4a, EnqueuerType
  <1>7. QED
    BY <1>1, <1>3, <1>6 DEF a

LEMMA PushStep ==
  ASSUME TypeOK, NEW n \in Enqueuers, Push(n)
  PROVE  /\ Enqueues(n, "select", <<>>, enqueuer[n].right)
         /\ queue' = Reverse(enqueuer[n].left) \o queue
         /\ Reverse(enqueuer[n].left) \in Seq(Ids)
         /\ queue' \in Seq(Ids)
  <1> DEFINE e == [at |-> "select", cycle |-> enqueuer[n].cycle, mode |-> enqueuer[n].mode,
                   left |-> <<>>, right |-> enqueuer[n].right]
  <1>1. /\ enqueuer' = [enqueuer EXCEPT ![n].left = <<>>, ![n].at = "select"]
        /\ queue' = Reverse(enqueuer[n].left) \o queue
    BY DEF Push
  <1>2. Reverse(enqueuer[n].left) \in Seq(Ids)
    BY EnqueuerFields, ReverseType
  <1>3. queue' \in Seq(Ids)
    BY <1>1, <1>2, EnqueuerFields, ConcatProperties
  <1>4. /\ enqueuer' = [m \in Enqueuers |-> enqueuer'[m]]
        /\ \A m \in Enqueuers \ {n} : enqueuer'[m] = enqueuer[m]
    BY <1>1, EnqueuerFields
  <1>4a. enqueuer'[n] = e
    BY <1>1, EnqueuerFields DEF Enqueuing
  <1>5. e \in Enqueuing
    BY EnqueuerFields, EmptySeq DEF Enqueuing
  <1>6. QED
    BY <1>1, <1>2, <1>3, <1>4, <1>5, <1>4a, EnqueuerType

LEMMA EnqueuerFailsStep ==
  ASSUME TypeOK, NEW n \in Enqueuers, EnqueuerFails(n)
  PROVE  Enqueues(n, "idle", <<>>, <<>>)
  <1>1. PICK c \in {0, enqueuer[n].cycle} :
          enqueuer' = [enqueuer EXCEPT ![n] = [at |-> "idle", cycle |-> c, mode |-> "normal",
                                               left |-> <<>>, right |-> <<>>]]
    BY DEF EnqueuerFails
  <1>2. c \in 0 .. ResubmitEvery - 1
    BY EnqueuerFields, Constants
  <1> DEFINE e == [at |-> "idle", cycle |-> c, mode |-> "normal", left |-> <<>>, right |-> <<>>]
  <1>3. e \in Enqueuing
    BY <1>2, EmptySeq DEF Enqueuing
  <1>4. /\ enqueuer' = [m \in Enqueuers |-> enqueuer'[m]]
        /\ \A m \in Enqueuers \ {n} : enqueuer'[m] = enqueuer[m]
        /\ enqueuer'[n] = e
    BY <1>1, EnqueuerFields
  <1>5. QED
    BY <1>3, <1>4, EnqueuerType
-----------------------------------------------------------------------------
(* Where the id of a row may be                                            *)

\* How often an enqueuer has it to push, whether it is about to push it without
\* another look at the queue, and the enqueuers that are.
Hand(enq, n, e) == Occurrences(enq[n].left, e) + Occurrences(enq[n].right, e)
Pushes(enq, n, e) == enq[n].at # "cut" /\ Hand(enq, n, e) > 0
Pushers(enq, e) == {n \in Enqueuers : Pushes(enq, n, e)}

\* Whether a worker has it.
Held(wrk, w, e) == wrk[w].at # "idle" /\ wrk[w].id = e

\* It is somewhere, and in one place only.
Out(q, enq, wrk, e) == \/ Occurrences(q, e) > 0
                       \/ \E n \in Enqueuers : Hand(enq, n, e) > 0
                       \/ \E w \in Workers : Held(wrk, w, e)

InOnePlace(q, enq, wrk, e) ==
  /\ Occurrences(q, e) <= 1
  /\ \A n \in Enqueuers : Hand(enq, n, e) > 0 =>
       /\ Hand(enq, n, e) = 1
       /\ Occurrences(q, e) = 0
       /\ \A m \in Enqueuers \ {n} : Hand(enq, m, e) = 0
       /\ \A w \in Workers : ~ Held(wrk, w, e)
  /\ \A w \in Workers : Held(wrk, w, e) =>
       /\ Occurrences(q, e) = 0
       /\ \A v \in Workers \ {w} : ~ Held(wrk, v, e)

LEMMA HandType == ASSUME NEW enq \in [Enqueuers -> Enqueuing], NEW n \in Enqueuers, NEW e
                  PROVE  Hand(enq, n, e) \in Nat
  <1>1. enq[n].left \in Seq(Ids) /\ enq[n].right \in Seq(Ids)
    BY DEF Enqueuing
  <1>2. Occurrences(enq[n].left, e) \in Nat /\ Occurrences(enq[n].right, e) \in Nat
    BY <1>1, OccurrencesType
  <1>3. QED
    BY <1>2 DEF Hand

\* What an enqueuer may do to the queue q and its own lists, other than to select:
\* nothing is copied; what it adds to the queue it does not go on to push; and
\* what it is going to push it was going to push before, or took out of the
\* queue, or did not find there.
Moves(q, p, enq, enq2, n) ==
  /\ \A m \in Enqueuers \ {n} : enq2[m] = enq[m]
  /\ \A e \in Ids :
       /\ Occurrences(p, e) + Hand(enq2, n, e) <= Occurrences(q, e) + Hand(enq, n, e)
       /\ \/ Occurrences(p, e) <= Occurrences(q, e)
          \/ /\ Occurrences(p, e) <= Occurrences(q, e) + 1
             /\ Pushes(enq, n, e) /\ ~ Pushes(enq2, n, e)
       /\ Pushes(enq2, n, e) => \/ Pushes(enq, n, e) /\ Occurrences(p, e) <= Occurrences(q, e)
                                \/ Occurrences(p, e) < Occurrences(q, e)
                                \/ Occurrences(p, e) = 0

\* So the id of a row neither turns up nor is in two places after such a step, if
\* it was not before.
LEMMA MovesOneToken ==
  ASSUME NEW q \in Seq(Ids), NEW p \in Seq(Ids), NEW enq \in [Enqueuers -> Enqueuing],
         NEW enq2 \in [Enqueuers -> Enqueuing], NEW wrk, NEW n \in Enqueuers,
         Moves(q, p, enq, enq2, n), NEW e \in Ids
  PROVE  /\ Out(p, enq2, wrk, e) => Out(q, enq, wrk, e)
         /\ InOnePlace(q, enq, wrk, e) => InOnePlace(p, enq2, wrk, e)
  <1>1. Occurrences(q, e) \in Nat /\ Occurrences(p, e) \in Nat
    BY OccurrencesType
  <1>2. \A m \in Enqueuers : Hand(enq, m, e) \in Nat /\ Hand(enq2, m, e) \in Nat
    BY HandType
  <1>3. \A m \in Enqueuers \ {n} : Hand(enq2, m, e) = Hand(enq, m, e)
    BY DEF Moves, Hand
  <1>4. Occurrences(p, e) + Hand(enq2, n, e) <= Occurrences(q, e) + Hand(enq, n, e)
    BY DEF Moves
  <1>5. Out(p, enq2, wrk, e) => Out(q, enq, wrk, e)
    BY <1>1, <1>2, <1>3, <1>4 DEF Out
  <1>6. ASSUME InOnePlace(q, enq, wrk, e) PROVE InOnePlace(p, enq2, wrk, e)
    <2>1. /\ Occurrences(q, e) <= 1
          /\ \A m \in Enqueuers : Hand(enq, m, e) > 0 =>
               /\ Hand(enq, m, e) = 1
               /\ Occurrences(q, e) = 0
               /\ \A k \in Enqueuers \ {m} : Hand(enq, k, e) = 0
               /\ \A w \in Workers : ~ Held(wrk, w, e)
      BY <1>6 DEF InOnePlace
    \* There is at most one, so that no more is left.
    <2>2. Occurrences(q, e) + Hand(enq, n, e) <= 1
      BY <1>1, <1>2, <2>1
    <2>3. Occurrences(p, e) + Hand(enq2, n, e) <= 1
      BY <1>1, <1>2, <1>4, <2>2
    <2>4. Occurrences(p, e) <= 1
      BY <1>1, <1>2, <2>3
    <2>5. ASSUME NEW m \in Enqueuers, Hand(enq2, m, e) > 0
          PROVE  /\ Hand(enq2, m, e) = 1
                 /\ Occurrences(p, e) = 0
                 /\ \A k \in Enqueuers \ {m} : Hand(enq2, k, e) = 0
                 /\ \A w \in Workers : ~ Held(wrk, w, e)
      <3>1. CASE m = n
        <4>1. Hand(enq2, n, e) = 1 /\ Occurrences(p, e) = 0
          BY <1>1, <1>2, <2>3, <2>5, <3>1
        <4>2. Occurrences(q, e) > 0 \/ Hand(enq, n, e) > 0
          BY <1>1, <1>2, <1>4, <4>1
        <4>3. \A k \in Enqueuers \ {n} : Hand(enq, k, e) = 0
          BY <1>1, <1>2, <2>1, <4>2
        <4>4. \A w \in Workers : ~ Held(wrk, w, e)
          BY <1>1, <1>2, <1>6, <4>2 DEF InOnePlace
        <4>5. QED
          BY <1>3, <3>1, <4>1, <4>3, <4>4
      <3>2. CASE m # n
        <4>1. Hand(enq2, m, e) = Hand(enq, m, e)
          BY <1>3, <3>2
        <4>2. /\ Hand(enq, m, e) = 1
              /\ Occurrences(q, e) = 0
              /\ \A k \in Enqueuers \ {m} : Hand(enq, k, e) = 0
              /\ \A w \in Workers : ~ Held(wrk, w, e)
          BY <2>1, <2>5, <4>1
        <4>3. Occurrences(p, e) = 0 /\ Hand(enq2, n, e) = 0
          BY <1>1, <1>2, <1>4, <3>2, <4>2
        <4>4. QED
          BY <1>3, <3>2, <4>1, <4>2, <4>3
      <3>3. QED
        BY <3>1, <3>2
    <2>6. ASSUME NEW w \in Workers, Held(wrk, w, e)
          PROVE  /\ Occurrences(p, e) = 0
                 /\ \A v \in Workers \ {w} : ~ Held(wrk, v, e)
      <3>1. /\ Occurrences(q, e) = 0
            /\ \A v \in Workers \ {w} : ~ Held(wrk, v, e)
        BY <1>6, <2>6 DEF InOnePlace
      <3>2. Hand(enq, n, e) = 0
        BY <1>2, <2>1, <2>6
      <3>3. QED
        BY <1>1, <1>2, <1>4, <3>1, <3>2
    <2>7. QED
      BY <2>4, <2>5, <2>6 DEF InOnePlace
  <1>7. QED
    BY <1>5, <1>6

\* Nor are there more copies, in the queue and about to be pushed, than enqueuers.
LEMMA MovesCounted ==
  ASSUME NEW q \in Seq(Ids), NEW p \in Seq(Ids), NEW enq \in [Enqueuers -> Enqueuing],
         NEW enq2 \in [Enqueuers -> Enqueuing], NEW n \in Enqueuers,
         Moves(q, p, enq, enq2, n), NEW e \in Ids,
         Occurrences(q, e) + Cardinality(Pushers(enq, e)) <= Cardinality(Enqueuers)
  PROVE  Occurrences(p, e) + Cardinality(Pushers(enq2, e)) <= Cardinality(Enqueuers)
  <1> DEFINE P == Pushers(enq, e)
             R == Pushers(enq2, e)
             D == P \ {n}
  <1>1. Occurrences(q, e) \in Nat /\ Occurrences(p, e) \in Nat
    BY OccurrencesType
  <1>2. \A m \in Enqueuers \ {n} : Pushes(enq2, m, e) = Pushes(enq, m, e)
    BY DEF Moves, Hand, Pushes
  <1>3. P \subseteq Enqueuers /\ R \subseteq Enqueuers /\ P \ {n} = D /\ R \ {n} = D
    BY <1>2 DEF Pushers
  <1>4. IsFiniteSet(Enqueuers)
    BY PollingAssumption
  <1>5. /\ \/ Occurrences(p, e) <= Occurrences(q, e)
           \/ Occurrences(p, e) <= Occurrences(q, e) + 1 /\ n \in P /\ n \notin R
        /\ n \in R => \/ n \in P /\ Occurrences(p, e) <= Occurrences(q, e)
                      \/ Occurrences(p, e) < Occurrences(q, e)
                      \/ Occurrences(p, e) = 0
    BY DEF Moves, Pushers
  <1>6. Occurrences(q, e) + Cardinality(P) <= Cardinality(Enqueuers)
    OBVIOUS
  <1> HIDE DEF P, R, D
  <1>7. IsFiniteSet(P) /\ IsFiniteSet(R)
    BY <1>3, <1>4, FS_Subset
  <1>8. /\ Cardinality(P) \in Nat /\ Cardinality(R) \in Nat /\ Cardinality(Enqueuers) \in Nat
        /\ Cardinality(R) <= Cardinality(Enqueuers)
    BY <1>3, <1>4, <1>7, FS_CardinalityType, FS_Subset
  <1>9. /\ n \in P => Cardinality(D) = Cardinality(P) - 1
        /\ n \in R => Cardinality(D) = Cardinality(R) - 1
    BY <1>3, <1>7, FS_RemoveElement
  <1>10. /\ n \notin P => D = P
         /\ n \notin R => D = R
    BY <1>3
  <1>11. CASE n \in P /\ n \in R
    <2>1. Cardinality(P) = Cardinality(R)
      BY <1>3, <1>8, <1>9, <1>11
    <2>2. QED
      BY <1>1, <1>5, <1>6, <1>8, <1>11, <2>1 DEF R
  <1>12. CASE n \in P /\ n \notin R
    <2>1. Cardinality(R) = Cardinality(P) - 1
      BY <1>3, <1>9, <1>10, <1>12
    <2>2. QED
      BY <1>1, <1>5, <1>6, <1>8, <1>12, <2>1 DEF R
  <1>13. CASE n \notin P /\ n \in R
    <2>1. Cardinality(R) = Cardinality(P) + 1
      BY <1>3, <1>8, <1>9, <1>10, <1>13
    <2>2. QED
      BY <1>1, <1>5, <1>6, <1>8, <1>13, <2>1 DEF R
  <1>14. CASE n \notin P /\ n \notin R
    <2>1. Cardinality(P) = Cardinality(R)
      BY <1>3, <1>10, <1>14
    <2>2. QED
      BY <1>1, <1>5, <1>6, <1>8, <1>14, <2>1 DEF R
  <1>15. QED
    BY <1>11, <1>12, <1>13, <1>14
-----------------------------------------------------------------------------
(* The steps of the enqueuers                                              *)

\* The lists of an enqueuer are empty when it does not use them, and have no id
\* twice.
Tidy(enq, n) == /\ enq[n].at # "prepend" => enq[n].right = <<>>
                /\ enq[n].at \in {"idle", "select"} => enq[n].left = <<>>
                /\ \A e \in Ids : Hand(enq, n, e) <= 1

Neat == \A n \in Enqueuers : Tidy(enqueuer, n)

LEMMA OthersTidy ==
  ASSUME NEW n \in Enqueuers, NEW at, NEW left, NEW right, Enqueues(n, at, left, right),
         Neat, Tidy(enqueuer', n)
  PROVE  Neat'
  BY DEF Neat, Tidy, Enqueues, Hand

LEMMA HandAfter ==
  ASSUME NEW n \in Enqueuers, NEW at, NEW left, NEW right, Enqueues(n, at, left, right), NEW e
  PROVE  Hand(enqueuer', n, e) = Occurrences(left, e) + Occurrences(right, e)
  BY DEF Enqueues, Hand

\* What a step other than a selection comes down to.
Moved(n) == /\ enqueuer' \in [Enqueuers -> Enqueuing]
            /\ queue' \in Seq(Ids)
            /\ Moves(queue, queue', enqueuer, enqueuer', n)
            /\ Neat'

\* A step that leaves the enqueuer without ids, and the queue as it was.
LEMMA EmptyMoves ==
  ASSUME TypeOK, Neat, NEW n \in Enqueuers, NEW at, Enqueues(n, at, <<>>, <<>>), queue' = queue
  PROVE  Moved(n)
  <1>1. \A e : Hand(enqueuer', n, e) = 0
    BY HandAfter, OccurrencesEmpty
  <1>2. enqueuer \in [Enqueuers -> Enqueuing] /\ queue \in Seq(Ids)
    BY EnqueuerFields
  <1>3. \A e : Hand(enqueuer, n, e) \in Nat /\ Occurrences(queue, e) \in Nat
    BY <1>2, HandType, OccurrencesType
  <1>4. Moves(queue, queue', enqueuer, enqueuer', n)
    BY <1>1, <1>3 DEF Moves, Pushes, Enqueues
  <1>5. Tidy(enqueuer', n)
    BY <1>1 DEF Tidy, Enqueues
  <1>6. Neat'
    BY <1>5, OthersTidy
  <1>7. QED
    BY <1>2, <1>4, <1>6 DEF Moved, Enqueues

LEMMA BeginCycleMoves ==
  ASSUME TypeOK, Neat, NEW n \in Enqueuers, BeginCycle(n) PROVE Moved(n)
  <1>1. enqueuer[n].left = <<>> /\ enqueuer[n].right = <<>> /\ queue' = queue
    BY DEF BeginCycle, Neat, Tidy
  <1>2. QED
    BY <1>1, BeginCycleStep, EmptyMoves

LEMMA EndPassMoves ==
  ASSUME TypeOK, Neat, NEW n \in Enqueuers, EndPass(n) PROVE Moved(n)
  <1>1. enqueuer[n].left = <<>> /\ enqueuer[n].right = <<>> /\ queue' = queue
    BY DEF EndPass, Neat, Tidy
  <1>2. QED
    BY <1>1, EndPassStep, EmptyMoves

LEMMA EnqueuerFailsMoves ==
  ASSUME TypeOK, Neat, NEW n \in Enqueuers, EnqueuerFails(n) PROVE Moved(n)
  <1>1. queue' = queue
    BY DEF EnqueuerFails
  <1>2. QED
    BY <1>1, EnqueuerFailsStep, EmptyMoves

\* What is cut out of the queue, once for each id, is to be pushed on the right,
\* and what was not there on the left.
LEMMA CutMoves ==
  ASSUME TypeOK, Neat, NEW n \in Enqueuers, Cut(n) PROVE Moved(n)
  <1> DEFINE ids == enqueuer[n].left
             q == ToSet(queue)
             l == Only(ids, Ids \ q)
             r == Only(ids, q)
  <1>1. PICK at \in {"prepend", "append"} :
          /\ Enqueues(n, at, l, r)
          /\ at = "append" => r = <<>>
          /\ queue' = WithoutFirsts(queue, ToSet(ids))
          /\ queue' \in Seq(Ids)
    BY CutStep
  <1>2. /\ enqueuer \in [Enqueuers -> Enqueuing] /\ queue \in Seq(Ids) /\ ids \in Seq(Ids)
        /\ enqueuer[n].at = "cut" /\ enqueuer[n].right = <<>>
    BY EnqueuerFields DEF Cut, Neat, Tidy
  <1>3. ASSUME NEW e \in Ids
        PROVE  /\ Hand(enqueuer', n, e) = Hand(enqueuer, n, e)
               /\ Occurrences(queue', e) = IF Hand(enqueuer, n, e) > 0 /\ Occurrences(queue, e) > 0
                                           THEN Occurrences(queue, e) - 1
                                           ELSE Occurrences(queue, e)
    <2>1. Hand(enqueuer', n, e) = Occurrences(l, e) + Occurrences(r, e)
      BY <1>1, HandAfter
    <2>2. Hand(enqueuer, n, e) = Occurrences(ids, e)
      <3>1. Occurrences(<<>>, e) = 0 /\ Occurrences(ids, e) \in Nat
        BY <1>2, OccurrencesEmpty, OccurrencesType
      <3>2. QED
        BY <1>2, <3>1 DEF Hand
    <2>3. /\ e \in q <=> Occurrences(queue, e) > 0
          /\ e \in ToSet(ids) <=> Occurrences(ids, e) > 0
          /\ Contains(queue, e) <=> Occurrences(queue, e) > 0
      BY <1>2, ContainsToSet, OccurrencesContains
    <2> DEFINE R == Ids \ q
    <2>4. e \in R <=> e \notin q
      OBVIOUS
    <2> HIDE DEF ids, q, R
    <2>5. /\ Occurrences(Only(ids, R), e) = IF e \in R THEN Occurrences(ids, e) ELSE 0
          /\ Occurrences(Only(ids, q), e) = IF e \in q THEN Occurrences(ids, e) ELSE 0
      BY <1>2, OccurrencesOnly
    <2>6. Occurrences(ids, e) \in Nat /\ Occurrences(queue, e) \in Nat
      BY <1>2, OccurrencesType
    <2>7. Hand(enqueuer', n, e) = Hand(enqueuer, n, e)
      <3>1. Hand(enqueuer', n, e) = Occurrences(Only(ids, R), e) + Occurrences(Only(ids, q), e)
        BY <2>1 DEF R
      <3>2. QED
        BY <3>1, <2>2, <2>4, <2>5, <2>6
    <2> DEFINE S == ToSet(ids)
    <2>8. e \in S <=> Occurrences(ids, e) > 0
      BY <2>3
    <2> HIDE DEF S
    <2>9. Occurrences(WithoutFirsts(queue, S), e) =
            IF e \in S /\ Contains(queue, e) THEN Occurrences(queue, e) - 1
            ELSE Occurrences(queue, e)
      BY <1>2, OccurrencesWithoutFirsts
    <2>10. queue' = WithoutFirsts(queue, S)
      BY <1>1 DEF S, ids
    <2>11. QED
      BY <2>2, <2>3, <2>7, <2>8, <2>9, <2>10
  <1>4. \A e : Hand(enqueuer, n, e) \in Nat /\ Occurrences(queue, e) \in Nat
    BY <1>2, HandType, OccurrencesType
  <1>5. Moves(queue, queue', enqueuer, enqueuer', n)
    <2>1. \A m \in Enqueuers \ {n} : enqueuer'[m] = enqueuer[m]
      BY <1>1 DEF Enqueues
    <2>2. ASSUME NEW e \in Ids
          PROVE  /\ Occurrences(queue', e) + Hand(enqueuer', n, e)
                      <= Occurrences(queue, e) + Hand(enqueuer, n, e)
                 /\ Occurrences(queue', e) <= Occurrences(queue, e)
                 /\ Hand(enqueuer', n, e) > 0 => \/ Occurrences(queue', e) < Occurrences(queue, e)
                                                 \/ Occurrences(queue', e) = 0
      BY <1>3, <1>4
    <2>3. QED
      BY <2>1, <2>2 DEF Moves, Pushes
  <1>6. Tidy(enqueuer', n)
    <2>1. enqueuer'[n].at = at /\ enqueuer'[n].right = r
      BY <1>1 DEF Enqueues
    <2>2. \A e \in Ids : Hand(enqueuer', n, e) <= 1
      BY <1>3 DEF Neat, Tidy
    <2>3. QED
      BY <1>1, <2>1, <2>2 DEF Tidy
  <1>7. Neat'
    BY <1>1, <1>6, OthersTidy
  <1>8. QED
    BY <1>1, <1>5, <1>7 DEF Moved, Enqueues

\* What is pushed is not in the enqueuer's hands any more.
LEMMA PrependMoves ==
  ASSUME TypeOK, Neat, NEW n \in Enqueuers, Prepend(n) PROVE Moved(n)
  <1> DEFINE l == enqueuer[n].left
             r == enqueuer[n].right
             at == IF l = <<>> THEN "select" ELSE "append"
  <1>1. /\ Enqueues(n, at, l, <<>>)
        /\ queue' = queue \o r /\ queue' \in Seq(Ids)
    BY PrependStep
  <1>2. /\ enqueuer \in [Enqueuers -> Enqueuing] /\ queue \in Seq(Ids)
        /\ l \in Seq(Ids) /\ r \in Seq(Ids)
        /\ enqueuer[n].at = "prepend"
    BY EnqueuerFields DEF Prepend
  <1>3. ASSUME NEW e \in Ids
        PROVE  /\ Occurrences(queue, e) \in Nat
               /\ Occurrences(l, e) \in Nat /\ Occurrences(r, e) \in Nat
               /\ Hand(enqueuer, n, e) = Occurrences(l, e) + Occurrences(r, e)
               /\ Hand(enqueuer, n, e) <= 1
               /\ Hand(enqueuer', n, e) = Occurrences(l, e)
               /\ Occurrences(queue', e) = Occurrences(queue, e) + Occurrences(r, e)
    <2>1. /\ Occurrences(queue, e) \in Nat
          /\ Occurrences(l, e) \in Nat /\ Occurrences(r, e) \in Nat
      BY <1>2, OccurrencesType
    <2>2. Hand(enqueuer, n, e) = Occurrences(l, e) + Occurrences(r, e)
      BY DEF Hand
    <2>3. Hand(enqueuer, n, e) <= 1
      BY DEF Neat, Tidy
    <2>4. Hand(enqueuer', n, e) = Occurrences(l, e) + Occurrences(<<>>, e)
      <3> HIDE DEF l, at
      <3>1. QED
        BY <1>1, HandAfter
    <2>5. Hand(enqueuer', n, e) = Occurrences(l, e)
      BY <2>1, <2>4, OccurrencesEmpty
    <2>6. Occurrences(queue', e) = Occurrences(queue, e) + Occurrences(r, e)
      <3> HIDE DEF r
      <3>1. QED
        BY <1>1, <1>2, OccurrencesConcat
    <2>7. QED
      BY <2>1, <2>2, <2>3, <2>5, <2>6
  <1>4. Moves(queue, queue', enqueuer, enqueuer', n)
    <2>1. \A m \in Enqueuers \ {n} : enqueuer'[m] = enqueuer[m]
      BY <1>1 DEF Enqueues
    <2> HIDE DEF l, r, at
    <2>2. ASSUME NEW e \in Ids
          PROVE  /\ Occurrences(queue', e) + Hand(enqueuer', n, e)
                      <= Occurrences(queue, e) + Hand(enqueuer, n, e)
                 /\ \/ Occurrences(queue', e) <= Occurrences(queue, e)
                    \/ /\ Occurrences(queue', e) <= Occurrences(queue, e) + 1
                       /\ Hand(enqueuer, n, e) > 0 /\ ~ Hand(enqueuer', n, e) > 0
                 /\ Hand(enqueuer', n, e) > 0 => /\ Hand(enqueuer, n, e) > 0
                                                 /\ Occurrences(queue', e) <= Occurrences(queue, e)
      BY <1>3
    <2>3. QED
      BY <1>2, <2>1, <2>2 DEF Moves, Pushes
  <1>5. Tidy(enqueuer', n)
    <2>1. /\ enqueuer'[n].at = at /\ enqueuer'[n].left = l /\ enqueuer'[n].right = <<>>
      BY <1>1 DEF Enqueues
    <2>2. \A e \in Ids : Hand(enqueuer', n, e) <= 1
      <3> HIDE DEF l, r, at
      <3>1. QED
        BY <1>3
    <2>3. QED
      BY <2>1, <2>2 DEF Tidy
  <1>6. Neat'
    BY <1>1, <1>5, OthersTidy
  <1>7. QED
    BY <1>1, <1>4, <1>6 DEF Moved, Enqueues

LEMMA PushMoves ==
  ASSUME TypeOK, Neat, NEW n \in Enqueuers, Push(n) PROVE Moved(n)
  <1> DEFINE l == enqueuer[n].left
             p == Reverse(l)
  <1>1. /\ Enqueues(n, "select", <<>>, enqueuer[n].right)
        /\ queue' = p \o queue /\ p \in Seq(Ids) /\ queue' \in Seq(Ids)
    BY PushStep
  <1>2. /\ enqueuer \in [Enqueuers -> Enqueuing] /\ queue \in Seq(Ids) /\ l \in Seq(Ids)
        /\ enqueuer[n].at = "append" /\ enqueuer[n].right = <<>>
    BY EnqueuerFields DEF Push, Neat, Tidy
  <1>3. Enqueues(n, "select", <<>>, <<>>)
    BY <1>1, <1>2
  <1>4. ASSUME NEW e \in Ids
        PROVE  /\ Occurrences(queue, e) \in Nat /\ Hand(enqueuer, n, e) \in Nat
               /\ Hand(enqueuer, n, e) <= 1
               /\ Hand(enqueuer', n, e) = 0
               /\ Occurrences(queue', e) = Occurrences(queue, e) + Hand(enqueuer, n, e)
    <2>1. /\ Occurrences(queue, e) \in Nat /\ Occurrences(l, e) \in Nat
          /\ Occurrences(<<>>, e) = 0
      BY <1>2, OccurrencesType, OccurrencesEmpty
    <2>2. Hand(enqueuer, n, e) = Occurrences(l, e)
      BY <1>2, <2>1 DEF Hand
    <2>3. Hand(enqueuer, n, e) <= 1
      BY DEF Neat, Tidy
    <2>4. Hand(enqueuer', n, e) = 0
      BY <1>3, <2>1, HandAfter
    <2>5. Occurrences(p, e) = Occurrences(l, e)
      BY <1>2, OccurrencesReverse
    <2>6. Occurrences(queue', e) = Occurrences(p, e) + Occurrences(queue, e)
      <3> HIDE DEF p
      <3>1. QED
        BY <1>1, <1>2, OccurrencesConcat
    <2>7. QED
      BY <2>1, <2>2, <2>3, <2>4, <2>5, <2>6
  <1>5. Moves(queue, queue', enqueuer, enqueuer', n)
    <2>1. \A m \in Enqueuers \ {n} : enqueuer'[m] = enqueuer[m]
      BY <1>3 DEF Enqueues
    <2> HIDE DEF l, p
    <2>2. ASSUME NEW e \in Ids
          PROVE  /\ Occurrences(queue', e) + Hand(enqueuer', n, e)
                      <= Occurrences(queue, e) + Hand(enqueuer, n, e)
                 /\ \/ Occurrences(queue', e) <= Occurrences(queue, e)
                    \/ /\ Occurrences(queue', e) <= Occurrences(queue, e) + 1
                       /\ Hand(enqueuer, n, e) > 0
                 /\ ~ Hand(enqueuer', n, e) > 0
      BY <1>4
    <2>3. QED
      BY <1>2, <2>1, <2>2 DEF Moves, Pushes
  <1>6. Tidy(enqueuer', n)
    <2>1. enqueuer'[n].left = <<>> /\ enqueuer'[n].right = <<>>
      BY <1>3 DEF Enqueues
    <2>2. \A e \in Ids : Hand(enqueuer', n, e) <= 1
      BY <1>4
    <2>3. QED
      BY <2>1, <2>2 DEF Tidy
  <1>7. Neat'
    BY <1>3, <1>6, OthersTidy
  <1>8. QED
    BY <1>1, <1>3, <1>5, <1>7 DEF Moved, Enqueues
-----------------------------------------------------------------------------
(* The inductive invariant                                                 *)

\* A row that was never selected is nowhere; an id has no more copies, in the
\* queue and about to be pushed, than there are enqueuers; and while no row was
\* late an id that is out is in one place, of a row that is being processed and
\* not old enough to be resubmitted.
Fresh == \A e \in Ids : row[e].status = "INITIALIZED" => ~ Out(queue, enqueuer, worker, e)

Counted == \A e \in Ids : Occurrences(queue, e) + Cardinality(Pushers(enqueuer, e))
                            <= Cardinality(Enqueuers)

Alone(e) == /\ InOnePlace(queue, enqueuer, worker, e)
            /\ Out(queue, enqueuer, worker, e) =>
                 row[e].status = "PROCESSING" /\ age[e] <= ResubmitInterval

IInv == TypeInv /\ Neat /\ Fresh /\ Counted /\ (late \/ \A e \in Ids : Alone(e))

\* What a step leaves of a row that has ended.
EndedKept == \A e \in Ids : row[e].status \in Ended => row'[e] = row[e]

Rows == [status : Open \cup Ended, attempts : 0 .. MaxAttempts]
Working == [at : {"idle", "popped", "overdue", "handling"}, id : Ids \cup {0}, status : Open]

LEMMA OtherFields ==
  ASSUME TypeOK
  PROVE  /\ row \in [Ids -> Rows] /\ age \in [Ids -> 0 .. MaxAge]
         /\ worker \in [Workers -> Working]
         /\ late \in BOOLEAN /\ failures \in 0 .. MaxFailures
  BY DEF TypeOK, Rows, Working

LEMMA TypeAgain ==
  ASSUME row' \in [Ids -> Rows], age' \in [Ids -> 0 .. MaxAge],
         queue' \in Seq(Ids), enqueuer' \in [Enqueuers -> Enqueuing],
         worker' \in [Workers -> Working],
         late' \in BOOLEAN, failures' \in 0 .. MaxFailures
  PROVE  TypeOK'
  BY DEF TypeOK, Rows, Working, Enqueuing

\* A step that leaves the table alone, brings no id out and copies none.
LEMMA TableKept ==
  ASSUME Fresh, late \/ \A e \in Ids : Alone(e),
         UNCHANGED <<row, age, late>>,
         \A e \in Ids :
           /\ Out(queue', enqueuer', worker', e) => Out(queue, enqueuer, worker, e)
           /\ InOnePlace(queue, enqueuer, worker, e) => InOnePlace(queue', enqueuer', worker', e)
  PROVE  Fresh' /\ (late \/ \A e \in Ids : Alone(e))' /\ EndedKept
  <1>1. Fresh'
    BY DEF Fresh
  <1>2. EndedKept
    BY DEF EndedKept
  <1>3. (late \/ \A e \in Ids : Alone(e))'
    BY DEF Alone
  <1>4. QED
    BY <1>1, <1>2, <1>3

LEMMA EnqueuerInv ==
  ASSUME IInv, NEW n \in Enqueuers, Moved(n), UNCHANGED <<row, age, worker, late>>,
         failures' \in 0 .. MaxFailures
  PROVE  IInv' /\ EndedKept
  <1>1. TypeOK
    BY DEF IInv, TypeInv
  <1>2. TypeOK'
    BY <1>1, OtherFields, TypeAgain DEF Moved
  <1>3. WorkersRight'
    BY DEF IInv, TypeInv, WorkersRight
  <1>4. /\ queue \in Seq(Ids) /\ enqueuer \in [Enqueuers -> Enqueuing]
        /\ queue' \in Seq(Ids) /\ enqueuer' \in [Enqueuers -> Enqueuing]
        /\ Moves(queue, queue', enqueuer, enqueuer', n)
    BY <1>1, EnqueuerFields DEF Moved
  <1>5. \A e \in Ids :
          /\ Out(queue', enqueuer', worker, e) => Out(queue, enqueuer, worker, e)
          /\ InOnePlace(queue, enqueuer, worker, e) => InOnePlace(queue', enqueuer', worker, e)
    BY <1>4, MovesOneToken
  <1>6. Counted'
    <2>1. Counted
      BY DEF IInv
    <2>2. \A e \in Ids : Occurrences(queue', e) + Cardinality(Pushers(enqueuer', e))
                           <= Cardinality(Enqueuers)
      BY <1>4, <2>1, MovesCounted DEF Counted
    <2>3. QED
      BY <2>2 DEF Counted
  <1>7. Fresh' /\ (late \/ \A e \in Ids : Alone(e))' /\ EndedKept
    BY <1>5, TableKept DEF IInv
  <1>8. QED
    BY <1>2, <1>3, <1>6, <1>7 DEF IInv, TypeInv, Moved

-----------------------------------------------------------------------------
(* Selecting                                                               *)

\* The transaction of a pass brings out ids of rows that were selected never
\* before, or failed, or have been PROCESSING for long.
LEMMA SelectInv ==
  ASSUME IInv, NEW n \in Enqueuers, Select(n)
  PROVE  IInv' /\ EndedKept
  <1> DEFINE mode == enqueuer[n].mode
             batch == Batch(Due(mode))
             at == IF mode = "normal" THEN "append" ELSE "cut"
  <1>1. TypeOK /\ WorkersRight /\ Neat /\ Fresh /\ Counted /\ (late \/ \A e \in Ids : Alone(e))
    BY DEF IInv, TypeInv
  <1>2. /\ row' = [e \in Ids |-> IF e \in batch THEN [row[e] EXCEPT !.status = "PROCESSING"]
                                 ELSE row[e]]
        /\ age' = [e \in Ids |-> IF e \in batch THEN 0 ELSE age[e]]
        /\ UNCHANGED <<queue, worker, late, failures>>
        /\ enqueuer[n].at = "select"
    BY DEF Select
  <1>3. PICK ids \in Seq(Ids) :
          /\ \A x : Contains(ids, x) => x \in batch
          /\ \A x : Occurrences(ids, x) <= 1
          /\ Enqueues(n, at, ids, enqueuer[n].right)
    BY <1>1, SelectStep
  <1>4. /\ enqueuer[n].left = <<>> /\ enqueuer[n].right = <<>>
        /\ enqueuer[n].mode \in {"normal", "retried", "resubmitted"}
        /\ queue \in Seq(Ids) /\ enqueuer \in [Enqueuers -> Enqueuing]
    BY <1>1, <1>2, EnqueuerFields DEF Neat, Tidy
  <1>5. /\ row \in [Ids -> Rows] /\ age \in [Ids -> 0 .. MaxAge]
        /\ worker \in [Workers -> Working]
        /\ late \in BOOLEAN /\ failures \in 0 .. MaxFailures
    BY <1>1, OtherFields
  <1>6. /\ \A e \in batch : e \in Due(mode)
        /\ batch \subseteq Ids
    BY BatchOfRows
  <1>7. \A e \in batch :
          \/ mode = "normal" /\ row[e].status = "INITIALIZED"
          \/ mode # "normal" /\ row[e].status = "TEMPORARY_ERROR"
          \/ mode # "normal" /\ row[e].status = "PROCESSING" /\ age[e] > ResubmitInterval
    BY <1>6 DEF Due
  <1> HIDE DEF batch
  <1>8. /\ row' \in [Ids -> Rows]
        /\ age' \in [Ids -> 0 .. MaxAge]
        /\ \A e \in Ids : row'[e].attempts = row[e].attempts
        /\ \A e \in Ids \ batch : row'[e] = row[e] /\ age'[e] = age[e]
        /\ \A e \in batch : row'[e].status = "PROCESSING" /\ age'[e] = 0
    <2>1. \A e \in Ids : [row[e] EXCEPT !.status = "PROCESSING"] \in Rows
      BY <1>5 DEF Rows, Open
    <2>2. row' \in [Ids -> Rows]
      BY <1>2, <1>5, <2>1
    <2>3. age' \in [Ids -> 0 .. MaxAge]
      BY <1>2, <1>5, Constants
    <2>4. /\ \A e \in Ids : row'[e].attempts = row[e].attempts
          /\ \A e \in batch : row'[e].status = "PROCESSING"
      BY <1>2, <1>5, <1>6 DEF Rows
    <2>5. \A e \in Ids \ batch : row'[e] = row[e] /\ age'[e] = age[e]
      BY <1>2
    <2>6. \A e \in batch : age'[e] = 0
      BY <1>2, <1>6
    <2>7. QED
      BY <2>2, <2>3, <2>4, <2>5, <2>6
  <1>9. EndedKept
    BY <1>7, <1>8 DEF EndedKept, Ended
  <1>10. TypeOK'
    BY <1>2, <1>3, <1>4, <1>5, <1>8, TypeAgain DEF Enqueues
  <1>11. WorkersRight'
    <2>1. \A e \in Ids : row[e].status \in Ended => row'[e].status \in Ended
      BY <1>9 DEF EndedKept
    <2>2. QED
      BY <1>1, <1>2, <1>8, <2>1 DEF WorkersRight
  \* An id selected comes out once.
  <1>12. /\ \A e : Hand(enqueuer, n, e) = 0
         /\ \A e \in Ids : /\ Hand(enqueuer', n, e) \in Nat /\ Hand(enqueuer', n, e) <= 1
                           /\ Hand(enqueuer', n, e) > 0 => e \in batch
         /\ \A m \in Enqueuers \ {n} : \A e : Hand(enqueuer', m, e) = Hand(enqueuer, m, e)
    <2>1. \A e : Hand(enqueuer, n, e) = 0
      BY <1>4, OccurrencesEmpty DEF Hand
    <2>2. ASSUME NEW e \in Ids
          PROVE  /\ Hand(enqueuer', n, e) \in Nat /\ Hand(enqueuer', n, e) <= 1
                 /\ Hand(enqueuer', n, e) > 0 => e \in batch
      <3>1. Enqueues(n, at, ids, <<>>)
        BY <1>3, <1>4
      <3>2. Hand(enqueuer', n, e) = Occurrences(ids, e) + Occurrences(<<>>, e)
        BY <3>1, HandAfter
      <3>3. Occurrences(ids, e) \in Nat /\ Occurrences(<<>>, e) = 0
        BY OccurrencesType, OccurrencesEmpty
      <3>4. Contains(ids, e) <=> Occurrences(ids, e) > 0
        BY OccurrencesContains
      <3>5. QED
        BY <1>3, <3>2, <3>3, <3>4
    <2>3. \A m \in Enqueuers \ {n} : \A e : Hand(enqueuer', m, e) = Hand(enqueuer, m, e)
      BY <1>3 DEF Enqueues, Hand
    <2>4. QED
      BY <2>1, <2>2, <2>3
  <1>13. Neat'
    <2>1. enqueuer'[n].at \notin {"idle", "select"} /\ enqueuer'[n].right = <<>>
      BY <1>3, <1>4 DEF Enqueues
    <2>2. Tidy(enqueuer', n)
      BY <1>12, <2>1 DEF Tidy
    <2>3. QED
      BY <1>1, <1>3, <2>2, OthersTidy
  \* What is not selected is where it was.
  <1>14. \A e \in Ids \ batch :
           /\ Out(queue', enqueuer', worker', e) => Out(queue, enqueuer, worker, e)
           /\ InOnePlace(queue, enqueuer, worker, e) => InOnePlace(queue', enqueuer', worker', e)
           /\ Pushers(enqueuer', e) = Pushers(enqueuer, e)
    <2> SUFFICES ASSUME NEW e \in Ids \ batch
                 PROVE  /\ Out(queue, enqueuer', worker, e) => Out(queue, enqueuer, worker, e)
                        /\ InOnePlace(queue, enqueuer, worker, e)
                             => InOnePlace(queue, enqueuer', worker, e)
                        /\ Pushers(enqueuer', e) = Pushers(enqueuer, e)
      BY <1>2
    <2>1. \A m \in Enqueuers : Hand(enqueuer', m, e) = Hand(enqueuer, m, e)
      BY <1>12
    <2>2. Out(queue, enqueuer', worker, e) => Out(queue, enqueuer, worker, e)
      BY <2>1 DEF Out
    <2>3. InOnePlace(queue, enqueuer, worker, e) => InOnePlace(queue, enqueuer', worker, e)
      BY <2>1 DEF InOnePlace
    <2>4. \A m \in Enqueuers : Pushes(enqueuer', m, e) <=> Pushes(enqueuer, m, e)
      <3>1. ~ Hand(enqueuer, n, e) > 0 /\ ~ Hand(enqueuer', n, e) > 0
        BY <1>12
      <3>2. \A m \in Enqueuers \ {n} : enqueuer'[m] = enqueuer[m]
        BY <1>3 DEF Enqueues
      <3>3. QED
        BY <2>1, <3>1, <3>2 DEF Pushes
    <2>5. Pushers(enqueuer', e) = Pushers(enqueuer, e)
      BY <2>4 DEF Pushers
    <2>6. QED
      BY <2>2, <2>3, <2>5
  <1>15. Fresh'
    BY <1>1, <1>8, <1>14 DEF Fresh
  \* A row selected for the first time has no copies.
  <1>16. Counted'
    <2> SUFFICES ASSUME NEW e \in Ids
                 PROVE  Occurrences(queue, e) + Cardinality(Pushers(enqueuer', e))
                          <= Cardinality(Enqueuers)
      BY <1>2 DEF Counted
    <2>1. Occurrences(queue, e) + Cardinality(Pushers(enqueuer, e)) <= Cardinality(Enqueuers)
      BY <1>1 DEF Counted
    <2>2. CASE e \notin batch
      BY <1>14, <2>1, <2>2
    <2>3. CASE e \in batch /\ mode # "normal"
      <3>1. enqueuer'[n].at = "cut" /\ ~ Hand(enqueuer, n, e) > 0
        BY <1>3, <1>12, <2>3 DEF Enqueues
      <3>2. \A m \in Enqueuers \ {n} : enqueuer'[m] = enqueuer[m]
        BY <1>3 DEF Enqueues
      <3>3. \A m \in Enqueuers : Pushes(enqueuer', m, e) <=> Pushes(enqueuer, m, e)
        BY <1>12, <3>1, <3>2 DEF Pushes
      <3>4. Pushers(enqueuer', e) = Pushers(enqueuer, e)
        BY <3>3 DEF Pushers
      <3>5. QED
        BY <2>1, <3>4
    <2>4. CASE e \in batch /\ mode = "normal"
      <3>1. ~ Out(queue, enqueuer, worker, e)
        BY <1>1, <1>7, <2>4 DEF Fresh
      <3>2. Occurrences(queue, e) \in Nat
        BY <1>4, OccurrencesType
      <3>3. Occurrences(queue, e) = 0
        BY <3>1, <3>2 DEF Out
      <3>4. Pushers(enqueuer', e) \subseteq Enqueuers
        BY DEF Pushers
      <3>5. Cardinality(Pushers(enqueuer', e)) <= Cardinality(Enqueuers)
        BY <3>4, FS_Subset, PollingAssumption
      <3>6. IsFiniteSet(Pushers(enqueuer', e))
        BY <3>4, FS_Subset, PollingAssumption
      <3>7. Cardinality(Pushers(enqueuer', e)) \in Nat
        BY <3>6, FS_CardinalityType
      <3>8. QED
        BY <3>3, <3>5, <3>7
    <2>5. QED
      BY <2>2, <2>3, <2>4
  \* As long as none was late, a row is selected only if its id is nowhere.
  <1>17. ASSUME ~ late, NEW e \in Ids PROVE Alone(e)'
    <2>1. Alone(e)
      BY <1>1, <1>17
    <2>2. CASE e \notin batch
      BY <1>8, <1>14, <2>1, <2>2 DEF Alone
    <2>3. CASE e \in batch
      <3>1. ~ Out(queue, enqueuer, worker, e)
        <4>1. CASE row[e].status = "INITIALIZED"
          BY <1>1, <4>1 DEF Fresh
        <4>2. CASE row[e].status = "TEMPORARY_ERROR"
          BY <2>1, <4>2 DEF Alone
        <4>3. CASE age[e] > ResubmitInterval
          <5>1. age[e] \in Nat /\ ResubmitInterval \in Nat
            BY <1>5, Constants
          <5>2. ~ age[e] <= ResubmitInterval
            BY <4>3, <5>1
          <5>3. QED
            BY <2>1, <5>2 DEF Alone
        <4>4. QED
          BY <1>7, <2>3, <4>1, <4>2, <4>3
      <3>2. Occurrences(queue, e) = 0
        <4>1. Occurrences(queue, e) \in Nat
          BY <1>4, OccurrencesType
        <4>2. QED
          BY <3>1, <4>1 DEF Out
      <3>3. \A m \in Enqueuers : Hand(enqueuer, m, e) = 0
        <4>1. \A m \in Enqueuers : Hand(enqueuer, m, e) \in Nat
          BY <1>4, HandType
        <4>2. QED
          BY <3>1, <4>1 DEF Out
      <3>4. \A w \in Workers : ~ Held(worker, w, e)
        BY <3>1 DEF Out
      <3>5. \A m \in Enqueuers \ {n} : Hand(enqueuer', m, e) = 0
        BY <1>12, <3>3
      <3>6. Hand(enqueuer', n, e) \in Nat /\ Hand(enqueuer', n, e) <= 1
        BY <1>12
      <3>7. InOnePlace(queue, enqueuer', worker, e)
        <4>1. \A m \in Enqueuers : Hand(enqueuer', m, e) > 0 =>
                m = n /\ Hand(enqueuer', n, e) = 1
          BY <3>5, <3>6
        <4>2. QED
          BY <3>2, <3>4, <3>5, <4>1 DEF InOnePlace
      <3>8. row'[e].status = "PROCESSING" /\ age'[e] <= ResubmitInterval
        BY <1>8, <2>3, Constants
      <3>9. QED
        BY <1>2, <3>7, <3>8 DEF Alone
    <2>4. QED
      BY <2>2, <2>3
  <1>18. (late \/ \A e \in Ids : Alone(e))'
    <2>1. CASE late
      BY <1>2, <2>1
    <2>2. CASE ~ late
      BY <1>17, <2>2
    <2>3. QED
      BY <2>1, <2>2
  <1>19. QED
    BY <1>9, <1>10, <1>11, <1>13, <1>15, <1>16, <1>18 DEF IInv, TypeInv
-----------------------------------------------------------------------------
(* The steps of the workers                                                *)

\* A worker that gets an id takes it out of the queue; what it has it may drop.
LEMMA HeldOneToken ==
  ASSUME NEW q \in Seq(Ids), NEW p \in Seq(Ids), NEW enq \in [Enqueuers -> Enqueuing],
         NEW wrk, NEW wrk2, NEW w \in Workers, NEW e \in Ids,
         \A v \in Workers \ {w} : wrk2[v] = wrk[v],
         Occurrences(p, e) <= Occurrences(q, e),
         Held(wrk2, w, e) => Held(wrk, w, e) \/ Occurrences(p, e) < Occurrences(q, e)
  PROVE  /\ Out(p, enq, wrk2, e) => Out(q, enq, wrk, e)
         /\ InOnePlace(q, enq, wrk, e) => InOnePlace(p, enq, wrk2, e)
  <1>1. Occurrences(q, e) \in Nat /\ Occurrences(p, e) \in Nat
    BY OccurrencesType
  <1>2. \A m \in Enqueuers : Hand(enq, m, e) \in Nat
    BY HandType
  <1>3. \A v \in Workers \ {w} : Held(wrk2, v, e) <=> Held(wrk, v, e)
    BY DEF Held
  <1>4. Occurrences(p, e) > 0 => Occurrences(q, e) > 0
    BY <1>1
  <1>5. Held(wrk2, w, e) => Held(wrk, w, e) \/ Occurrences(q, e) > 0
    BY <1>1
  <1>6. Out(p, enq, wrk2, e) => Out(q, enq, wrk, e)
    BY <1>3, <1>4, <1>5 DEF Out
  <1>7. ASSUME InOnePlace(q, enq, wrk, e) PROVE InOnePlace(p, enq, wrk2, e)
    <2>1. Occurrences(q, e) <= 1
      BY <1>7 DEF InOnePlace
    <2>2. Occurrences(p, e) <= 1
      BY <1>1, <2>1
    <2>3. Occurrences(q, e) = 0 => Occurrences(p, e) = 0 /\ ~ Occurrences(p, e) < Occurrences(q, e)
      BY <1>1
    <2>4. Occurrences(p, e) < Occurrences(q, e) => Occurrences(p, e) = 0 /\ ~ Occurrences(q, e) = 0
      BY <1>1, <2>1
    <2>5. ASSUME NEW n \in Enqueuers, Hand(enq, n, e) > 0
          PROVE  /\ Hand(enq, n, e) = 1
                 /\ Occurrences(p, e) = 0
                 /\ \A m \in Enqueuers \ {n} : Hand(enq, m, e) = 0
                 /\ \A v \in Workers : ~ Held(wrk2, v, e)
      <3>1. /\ Hand(enq, n, e) = 1
            /\ Occurrences(q, e) = 0
            /\ \A m \in Enqueuers \ {n} : Hand(enq, m, e) = 0
            /\ \A v \in Workers : ~ Held(wrk, v, e)
        BY <1>7, <2>5 DEF InOnePlace
      <3>2. \A v \in Workers : ~ Held(wrk2, v, e)
        BY <1>3, <2>3, <3>1
      <3>3. QED
        BY <2>3, <3>1, <3>2
    <2>6. ASSUME NEW v \in Workers, Held(wrk2, v, e)
          PROVE  /\ Occurrences(p, e) = 0
                 /\ \A u \in Workers \ {v} : ~ Held(wrk2, u, e)
      <3>1. CASE Held(wrk, v, e)
        <4>1. /\ Occurrences(q, e) = 0
              /\ \A u \in Workers \ {v} : ~ Held(wrk, u, e)
          BY <1>7, <3>1 DEF InOnePlace
        <4>2. QED
          BY <1>3, <2>3, <4>1
      <3>2. CASE ~ Held(wrk, v, e)
        <4>1. v = w /\ Occurrences(p, e) < Occurrences(q, e)
          BY <1>3, <2>6, <3>2
        <4>2. Occurrences(p, e) = 0 /\ ~ Occurrences(q, e) = 0
          BY <2>4, <4>1
        <4>3. \A u \in Workers : ~ Held(wrk, u, e)
          BY <1>7, <4>2 DEF InOnePlace
        <4>4. QED
          BY <1>3, <4>1, <4>2, <4>3
      <3>3. QED
        BY <3>1, <3>2
    <2>7. QED
      BY <2>2, <2>5, <2>6 DEF InOnePlace
  <1>8. QED
    BY <1>6, <1>7

\* A step of a worker that leaves the table alone.
LEMMA WorkerInv ==
  ASSUME IInv, NEW w \in Workers, NEW x \in Working, worker' = [worker EXCEPT ![w] = x],
         UNCHANGED <<row, age, enqueuer, late>>, queue' \in Seq(Ids),
         failures' \in 0 .. MaxFailures,
         x.at # "idle" =>
           /\ x.id \in Ids
           /\ x.at = "handling" => \/ row[x.id].attempts < MaxAttempts
                                   \/ row[x.id].status \in Ended,
         \A e \in Ids :
           /\ Occurrences(queue', e) <= Occurrences(queue, e)
           /\ x.at # "idle" /\ x.id = e =>
                Held(worker, w, e) \/ Occurrences(queue', e) < Occurrences(queue, e)
  PROVE  IInv' /\ EndedKept
  <1>1. TypeOK /\ WorkersRight /\ Counted /\ Neat
    BY DEF IInv, TypeInv
  <1>2. /\ queue \in Seq(Ids) /\ enqueuer \in [Enqueuers -> Enqueuing]
        /\ worker \in [Workers -> Working]
    BY <1>1, OtherFields DEF TypeOK, Enqueuing
  <1>3. /\ \A v \in Workers \ {w} : worker'[v] = worker[v]
        /\ worker'[w] = x
        /\ worker' \in [Workers -> Working]
    BY <1>2
  <1>4. TypeOK'
    BY <1>1, <1>2, <1>3, OtherFields, TypeAgain
  <1>5. WorkersRight'
    BY <1>1, <1>3 DEF WorkersRight
  <1>6. \A e \in Ids :
          /\ Out(queue', enqueuer', worker', e) => Out(queue, enqueuer, worker, e)
          /\ InOnePlace(queue, enqueuer, worker, e) => InOnePlace(queue', enqueuer', worker', e)
    <2> SUFFICES ASSUME NEW e \in Ids
                 PROVE  /\ Out(queue', enqueuer, worker', e) => Out(queue, enqueuer, worker, e)
                        /\ InOnePlace(queue, enqueuer, worker, e)
                             => InOnePlace(queue', enqueuer, worker', e)
      OBVIOUS
    <2>1. Held(worker', w, e) => Held(worker, w, e) \/ Occurrences(queue', e) < Occurrences(queue, e)
      BY <1>3 DEF Held
    <2>2. QED
      BY <1>2, <1>3, <2>1, HeldOneToken
  <1>7. Fresh' /\ (late \/ \A e \in Ids : Alone(e))' /\ EndedKept
    BY <1>6, TableKept DEF IInv
  <1>8. Counted'
    <2> SUFFICES ASSUME NEW e \in Ids
                 PROVE  Occurrences(queue', e) + Cardinality(Pushers(enqueuer, e))
                          <= Cardinality(Enqueuers)
      BY DEF Counted
    <2>1. Occurrences(queue, e) + Cardinality(Pushers(enqueuer, e)) <= Cardinality(Enqueuers)
      BY <1>1 DEF Counted
    <2>2. Occurrences(queue, e) \in Nat /\ Occurrences(queue', e) \in Nat
      BY <1>2, OccurrencesType
    <2>3. Pushers(enqueuer, e) \subseteq Enqueuers
      BY DEF Pushers
    <2>4. Cardinality(Pushers(enqueuer, e)) \in Nat /\ Cardinality(Enqueuers) \in Nat
      BY <2>3, FS_Subset, FS_CardinalityType, PollingAssumption
    <2>5. QED
      BY <2>1, <2>2, <2>4
  <1>9. Neat'
    BY <1>1 DEF Neat
  <1>10. QED
    BY <1>4, <1>5, <1>7, <1>8, <1>9 DEF IInv, TypeInv

LEMMA PopInv == ASSUME IInv, NEW w \in Workers, Pop(w) PROVE IInv' /\ EndedKept
  <1> DEFINE x == [at |-> "popped", id |-> Last(queue), status |-> worker[w].status]
  <1>1. TypeOK
    BY DEF IInv, TypeInv
  <1>2. /\ queue \in Seq(Ids) /\ worker \in [Workers -> Working] /\ failures \in 0 .. MaxFailures
    BY <1>1, OtherFields DEF TypeOK
  <1>3. /\ queue # <<>> /\ queue' = Front(queue)
        /\ worker' = [worker EXCEPT ![w] = x]
        /\ UNCHANGED <<row, age, enqueuer, late, failures>>
    BY DEF Pop
  <1>4. Front(queue) \in Seq(Ids) /\ Last(queue) \in Ids /\ queue = Append(Front(queue), Last(queue))
    BY <1>2, <1>3, FrontLast
  <1>5. x \in Working
    BY <1>2, <1>4 DEF Working
  <1> DEFINE f == Front(queue)
             i == Last(queue)
  <1> HIDE DEF f, i
  <1>6. f \in Seq(Ids) /\ i \in Ids /\ queue = Append(f, i) /\ queue' = f
    BY <1>3, <1>4 DEF f, i
  <1>7. ASSUME NEW e \in Ids
        PROVE  /\ Occurrences(queue', e) <= Occurrences(queue, e)
               /\ i = e => Occurrences(queue', e) < Occurrences(queue, e)
    <2>1. Occurrences(Append(f, i), e) = IF e = i THEN Occurrences(f, e) + 1 ELSE Occurrences(f, e)
      BY <1>6, OccurrencesAppend
    <2>2. Occurrences(f, e) \in Nat
      BY <1>6, OccurrencesType
    <2>3. QED
      BY <1>6, <2>1, <2>2
  <1>8. x.at = "popped" /\ x.id = i
    BY DEF i
  <1> HIDE DEF x
  <1>9. QED
    BY <1>2, <1>3, <1>5, <1>6, <1>7, <1>8, WorkerInv

LEMMA RestingType == Resting \in Working /\ Resting.at = "idle"
  BY DEF Resting, Working, Open

LEMMA LookInv == ASSUME IInv, NEW w \in Workers, Look(w) PROVE IInv' /\ EndedKept
  <1> DEFINE r == row[worker[w].id]
             y == [at |-> IF r.attempts >= MaxAttempts THEN "overdue" ELSE "handling",
                   id |-> worker[w].id, status |-> r.status]
  <1>1. TypeOK /\ WorkersRight
    BY DEF IInv, TypeInv
  <1>2. /\ queue \in Seq(Ids) /\ worker \in [Workers -> Working] /\ failures \in 0 .. MaxFailures
        /\ row \in [Ids -> Rows]
    BY <1>1, OtherFields DEF TypeOK
  <1>3. /\ worker[w].at = "popped"
        /\ worker' = [worker EXCEPT ![w] = IF r.status \in Ended THEN Resting ELSE y]
        /\ UNCHANGED <<row, age, queue, enqueuer, late, failures>>
    BY DEF Look
  <1>4. worker[w].id \in Ids /\ r \in Rows
    BY <1>1, <1>2, <1>3 DEF WorkersRight
  <1>5. \A e \in Ids : Occurrences(queue, e) <= Occurrences(queue, e)
    BY <1>2, OccurrencesType
  <1>6. CASE r.status \in Ended
    <2>1. worker' = [worker EXCEPT ![w] = Resting]
      BY <1>3, <1>6
    <2>2. QED
      BY <1>2, <1>3, <1>5, <2>1, RestingType, WorkerInv
  <1>7. CASE r.status \notin Ended
    <2>1. worker' = [worker EXCEPT ![w] = y]
      BY <1>3, <1>7
    <2>2. y \in Working
      BY <1>4, <1>7 DEF Rows, Working
    <2>3. y.at # "idle" /\ y.id = worker[w].id
      OBVIOUS
    <2>4. y.at = "handling" => row[y.id].attempts < MaxAttempts
      <3>1. r.attempts \in Nat /\ MaxAttempts \in Nat
        BY <1>4, Constants DEF Rows
      <3>2. QED
        BY <3>1
    <2> HIDE DEF y
    <2>5. \A e \in Ids : y.id = e => Held(worker, w, e)
      BY <1>3, <2>3 DEF Held
    <2>6. QED
      BY <1>2, <1>3, <1>4, <1>5, <2>1, <2>2, <2>3, <2>4, <2>5, WorkerInv
  <1>8. QED
    BY <1>6, <1>7

LEMMA WorkerFailsInv == ASSUME IInv, NEW w \in Workers, WorkerFails(w) PROVE IInv' /\ EndedKept
  <1>1. TypeOK
    BY DEF IInv, TypeInv
  <1>2. queue \in Seq(Ids) /\ failures \in 0 .. MaxFailures
    BY <1>1, OtherFields DEF TypeOK
  <1>3. \A e \in Ids : Occurrences(queue, e) <= Occurrences(queue, e)
    BY <1>2, OccurrencesType
  <1>4. /\ worker' = [worker EXCEPT ![w] = Resting]
        /\ UNCHANGED <<row, age, queue, enqueuer, late>>
        /\ failures' \in 0 .. MaxFailures
    BY <1>2, PollingAssumption DEF WorkerFails
  <1>5. QED
    BY <1>2, <1>3, <1>4, RestingType, WorkerInv

\* The outcome is recorded only if the row has the open status that was read; the
\* worker had the id, and as long as none was late nobody else.
LEMMA RecordInv ==
  ASSUME IInv, NEW w \in Workers, worker[w].at # "idle",
         NEW status \in {"SUCCESSFUL", "FAILED", "TEMPORARY_ERROR"}, NEW attempts,
         row[worker[w].id].status \in Open => attempts \in 0 .. MaxAttempts,
         status = "TEMPORARY_ERROR" => attempts < MaxAttempts,
         Record(w, status, attempts)
  PROVE  IInv' /\ EndedKept
  <1> DEFINE i == worker[w].id
             r == [status |-> status, attempts |-> attempts]
  <1>1. TypeOK /\ WorkersRight /\ Neat /\ Fresh /\ Counted /\ (late \/ \A e \in Ids : Alone(e))
    BY DEF IInv, TypeInv
  <1>2. /\ queue \in Seq(Ids) /\ worker \in [Workers -> Working] /\ failures \in 0 .. MaxFailures
        /\ row \in [Ids -> Rows] /\ age \in [Ids -> 0 .. MaxAge]
        /\ enqueuer \in [Enqueuers -> Enqueuing] /\ late \in BOOLEAN
    BY <1>1, OtherFields, EnqueuerFields DEF TypeOK, Enqueuing
  <1>3. /\ worker' = [worker EXCEPT ![w] = Resting]
        /\ UNCHANGED <<queue, enqueuer, late, failures>>
    BY DEF Record
  <1>4. i \in Ids
    BY <1>1 DEF WorkersRight
  <1>5. CASE row[i].status # worker[w].status
    <2>1. UNCHANGED <<row, age>>
      BY <1>5 DEF Record
    <2>2. \A e \in Ids : Occurrences(queue, e) <= Occurrences(queue, e)
      BY <1>2, OccurrencesType
    <2>3. QED
      BY <1>2, <1>3, <2>1, <2>2, RestingType, WorkerInv
  <1>6. CASE row[i].status = worker[w].status
    <2>1. row' = [row EXCEPT ![i] = r] /\ age' = [age EXCEPT ![i] = 0]
      BY <1>6 DEF Record
    <2>2. row[i].status \in Open
      BY <1>2, <1>6 DEF Working
    <2>3. r \in Rows
      BY <2>2 DEF Rows, Open, Ended
    <2> HIDE DEF r
    <2>4. /\ row' \in [Ids -> Rows] /\ age' \in [Ids -> 0 .. MaxAge]
          /\ row'[i] = r
          /\ \A e \in Ids \ {i} : row'[e] = row[e] /\ age'[e] = age[e]
      BY <1>2, <1>4, <2>1, <2>3, Constants
    <2>5. /\ \A v \in Workers \ {w} : worker'[v] = worker[v]
          /\ worker'[w].at = "idle"
          /\ worker' \in [Workers -> Working]
      BY <1>2, <1>3, RestingType
    <2>6. r.status = status /\ r.attempts = attempts
      BY DEF r
    <2>7. EndedKept
      <3>1. row[i].status \notin Ended
        BY <2>2 DEF Open, Ended
      <3>2. QED
        BY <2>4, <3>1 DEF EndedKept
    <2>8. TypeOK'
      BY <1>2, <1>3, <2>4, <2>5, TypeAgain
    <2>9. WorkersRight'
      <3>1. r.attempts < MaxAttempts \/ r.status \in Ended
        BY <2>6 DEF Ended
      <3>2. QED
        BY <1>1, <2>4, <2>5, <3>1 DEF WorkersRight
    <2>10. \A e \in Ids :
             /\ Out(queue, enqueuer, worker', e) => Out(queue, enqueuer, worker, e)
             /\ InOnePlace(queue, enqueuer, worker, e) => InOnePlace(queue, enqueuer, worker', e)
      <3> SUFFICES ASSUME NEW e \in Ids
                   PROVE  /\ Out(queue, enqueuer, worker', e) => Out(queue, enqueuer, worker, e)
                          /\ InOnePlace(queue, enqueuer, worker, e)
                               => InOnePlace(queue, enqueuer, worker', e)
        OBVIOUS
      <3>1. ~ Held(worker', w, e)
        BY <2>5 DEF Held
      <3>2. Occurrences(queue, e) <= Occurrences(queue, e)
        BY <1>2, OccurrencesType
      <3>3. QED
        BY <1>2, <2>5, <3>1, <3>2, HeldOneToken
    <2>11. Fresh'
      <3> SUFFICES ASSUME NEW e \in Ids, row'[e].status = "INITIALIZED"
                   PROVE  ~ Out(queue, enqueuer, worker', e)
        BY <1>3 DEF Fresh
      <3>1. e # i
        BY <2>4, <2>6
      <3>2. row[e].status = "INITIALIZED"
        BY <2>4, <3>1
      <3>3. QED
        BY <1>1, <2>10, <3>2 DEF Fresh
    <2>12. ASSUME ~ late, NEW e \in Ids PROVE Alone(e)'
      <3>1. Alone(e)
        BY <1>1, <2>12
      <3>2. CASE e # i
        BY <1>3, <2>4, <2>10, <3>1, <3>2 DEF Alone
      <3>3. CASE e = i
        <4>1. InOnePlace(queue, enqueuer, worker, e) /\ Held(worker, w, e)
          BY <3>1, <3>3 DEF Alone, Held
        <4>2. Occurrences(queue, e) = 0 /\ \A v \in Workers \ {w} : ~ Held(worker, v, e)
          BY <4>1 DEF InOnePlace
        <4>3. \A n \in Enqueuers : ~ Hand(enqueuer, n, e) > 0
          BY <4>1 DEF InOnePlace
        <4>4. \A v \in Workers : ~ Held(worker', v, e)
          BY <2>5, <4>2 DEF Held
        <4>5. ~ Out(queue, enqueuer, worker', e)
          BY <4>2, <4>3, <4>4 DEF Out
        <4>6. QED
          BY <1>3, <2>10, <4>1, <4>5 DEF Alone
      <3>4. QED
        BY <3>2, <3>3
    <2>13. (late \/ \A e \in Ids : Alone(e))'
      <3>1. CASE late
        BY <1>3, <3>1
      <3>2. CASE ~ late
        BY <2>12, <3>2
      <3>3. QED
        BY <3>1, <3>2
    <2>14. Counted' /\ Neat'
      BY <1>1, <1>3 DEF Counted, Neat
    <2>15. QED
      BY <2>7, <2>8, <2>9, <2>11, <2>13, <2>14 DEF IInv, TypeInv
  <1>7. QED
    BY <1>5, <1>6
LEMMA OutcomeInv ==
  ASSUME IInv, NEW w \in Workers,
         GiveUp(w) \/ Succeed(w) \/ FailTemporarily(w) \/ FailPermanently(w)
  PROVE  IInv' /\ EndedKept
  <1> DEFINE a == row[worker[w].id].attempts
  <1>1. TypeOK /\ WorkersRight
    BY DEF IInv, TypeInv
  <1>2. worker[w].at \in {"overdue", "handling"}
    BY DEF GiveUp, Succeed, FailTemporarily, FailPermanently
  <1>3. worker[w].id \in Ids
    BY <1>1, <1>2 DEF WorkersRight
  <1>4. a \in 0 .. MaxAttempts /\ MaxAttempts \in Nat
    BY <1>1, <1>3, OtherFields, Constants DEF Rows
  <1>5. worker[w].at = "handling" /\ row[worker[w].id].status \in Open => a < MaxAttempts
    BY <1>1, <1>3 DEF WorkersRight, Open, Ended
  <1>6. Attempts(w) = a
    BY DEF Attempts
  <1> HIDE DEF a
  <1>7. worker[w].at = "handling" /\ row[worker[w].id].status \in Open => a + 1 \in 0 .. MaxAttempts
    BY <1>4, <1>5
  <1>8. CASE GiveUp(w)
    <2>1. Record(w, "FAILED", a)
      BY <1>6, <1>8 DEF GiveUp
    <2>2. QED
      BY <1>2, <1>4, <2>1, RecordInv
  <1>9. CASE Succeed(w)
    <2>1. Record(w, "SUCCESSFUL", a + 1) /\ worker[w].at = "handling"
      BY <1>6, <1>9 DEF Succeed
    <2>2. QED
      BY <1>7, <2>1, RecordInv
  <1>10. CASE FailTemporarily(w)
    <2> DEFINE s == IF a + 1 >= MaxAttempts THEN "FAILED" ELSE "TEMPORARY_ERROR"
    <2>1. Record(w, s, a + 1) /\ worker[w].at = "handling"
      BY <1>6, <1>10 DEF FailTemporarily
    <2>2. /\ s \in {"SUCCESSFUL", "FAILED", "TEMPORARY_ERROR"}
          /\ s = "TEMPORARY_ERROR" => a + 1 < MaxAttempts
      BY <1>4
    <2> HIDE DEF s
    <2>3. QED
      BY <1>7, <2>1, <2>2, RecordInv
  <1>11. CASE FailPermanently(w)
    <2>1. Record(w, "FAILED", a + 1) /\ worker[w].at = "handling"
      BY <1>6, <1>11 DEF FailPermanently
    <2>2. QED
      BY <1>7, <2>1, RecordInv
  <1>12. QED
    BY <1>8, <1>9, <1>10, <1>11

-----------------------------------------------------------------------------
(* Time passing, and the theorems                                          *)

\* Only rows whose ids are nowhere get old, unless some row is late.
LEMMA TickInv == ASSUME IInv, Tick PROVE IInv' /\ EndedKept
  <1>1. TypeOK /\ WorkersRight /\ Neat /\ Fresh /\ Counted /\ (late \/ \A e \in Ids : Alone(e))
    BY DEF IInv, TypeInv
  <1>2. /\ queue \in Seq(Ids) /\ worker \in [Workers -> Working] /\ failures \in 0 .. MaxFailures
        /\ row \in [Ids -> Rows] /\ age \in [Ids -> 0 .. MaxAge]
        /\ enqueuer \in [Enqueuers -> Enqueuing] /\ late \in BOOLEAN
    BY <1>1, OtherFields, EnqueuerFields DEF TypeOK, Enqueuing
  <1>3. /\ age' = [e \in Ids |-> IF age[e] < MaxAge THEN age[e] + 1 ELSE MaxAge]
        /\ UNCHANGED <<row, queue, enqueuer, worker, failures>>
        /\ late' = (late \/ \E e \in Ids : age[e] >= ResubmitInterval /\ Submitted(e))
    BY DEF Tick
  <1>4. MaxAge \in Nat /\ ResubmitInterval \in Nat /\ MaxAge > ResubmitInterval
    BY Constants
  <1>5. age' \in [Ids -> 0 .. MaxAge]
    <2>1. \A e \in Ids : (IF age[e] < MaxAge THEN age[e] + 1 ELSE MaxAge) \in 0 .. MaxAge
      BY <1>2, <1>4
    <2>2. QED
      BY <1>3, <2>1
  <1>6. late' \in BOOLEAN
    BY <1>3
  <1>7. TypeOK'
    BY <1>2, <1>3, <1>5, <1>6, TypeAgain
  <1>8. WorkersRight' /\ Neat' /\ Fresh' /\ Counted' /\ EndedKept
    BY <1>1, <1>3 DEF WorkersRight, Neat, Fresh, Counted, EndedKept
  <1>9. ASSUME NEW e \in Ids, Out(queue, enqueuer, worker, e) PROVE Submitted(e)
    <2>1. CASE Occurrences(queue, e) > 0
      <3>1. Contains(queue, e)
        BY <1>2, <2>1, OccurrencesContains
      <3>2. QED
        BY <3>1 DEF Submitted
    <2>2. ASSUME NEW n \in Enqueuers, Hand(enqueuer, n, e) > 0 PROVE Submitted(e)
      <3> DEFINE l == enqueuer[n].left
                 r == enqueuer[n].right
      <3>1. l \in Seq(Ids) /\ r \in Seq(Ids)
        BY <1>1, EnqueuerFields
      <3>2. Hand(enqueuer, n, e) = Occurrences(l, e) + Occurrences(r, e)
        BY DEF Hand
      <3> HIDE DEF l, r
      <3>3. Occurrences(l, e) \in Nat /\ Occurrences(r, e) \in Nat
        BY <3>1, OccurrencesType
      <3>4. Occurrences(l, e) > 0 \/ Occurrences(r, e) > 0
        BY <2>2, <3>2, <3>3
      <3>5. Contains(l, e) \/ Contains(r, e)
        BY <3>1, <3>4, OccurrencesContains
      <3>6. QED
        BY <3>5 DEF Submitted, l, r
    <2>3. ASSUME NEW w \in Workers, Held(worker, w, e) PROVE Submitted(e)
      BY <2>3 DEF Submitted, Held
    <2>4. QED
      BY <1>9, <2>1, <2>2, <2>3 DEF Out
  <1>10. ASSUME ~ late', NEW e \in Ids PROVE Alone(e)'
    <2>1. /\ ~ late
          /\ ~ (age[e] >= ResubmitInterval /\ Submitted(e))
      BY <1>3, <1>10
    <2>2. Alone(e)
      BY <1>1, <2>1
    <2>3. ASSUME Out(queue, enqueuer, worker, e)
          PROVE  row[e].status = "PROCESSING" /\ age'[e] <= ResubmitInterval
      <3>1. ~ age[e] >= ResubmitInterval
        BY <1>9, <2>1, <2>3
      <3>2. age[e] \in Nat /\ age[e] < ResubmitInterval
        BY <1>2, <1>4, <3>1
      <3>3. age'[e] <= ResubmitInterval
        BY <1>3, <1>4, <3>2
      <3>4. QED
        BY <2>2, <2>3, <3>3 DEF Alone
    <2>4. QED
      BY <1>3, <2>2, <2>3 DEF Alone
  <1>11. (late \/ \A e \in Ids : Alone(e))'
    BY <1>10
  <1>12. QED
    BY <1>7, <1>8, <1>11 DEF IInv, TypeInv

LEMMA InitIInv == Init => IInv
  <1> SUFFICES ASSUME Init PROVE IInv
    OBVIOUS
  <1>1. TypeInv
    BY InitTypeInv
  <1>2. /\ queue = <<>>
        /\ \A n \in Enqueuers : enqueuer[n].at = "idle" /\ enqueuer[n].left = <<>>
                                /\ enqueuer[n].right = <<>>
        /\ \A w \in Workers : worker[w] = Resting
    BY DEF Init
  <1>3. \A n \in Enqueuers : \A e : Hand(enqueuer, n, e) = 0
    BY <1>2, OccurrencesEmpty DEF Hand
  <1>4. \A e : Occurrences(queue, e) = 0
    BY <1>2, OccurrencesEmpty
  <1>5. \A w \in Workers : \A e : ~ Held(worker, w, e)
    BY <1>2, RestingType DEF Held
  <1>6. Neat
    BY <1>2, <1>3 DEF Neat, Tidy
  <1>7. \A e : ~ Out(queue, enqueuer, worker, e) /\ InOnePlace(queue, enqueuer, worker, e)
    BY <1>3, <1>4, <1>5 DEF Out, InOnePlace
  <1>8. Fresh /\ \A e \in Ids : Alone(e)
    BY <1>7 DEF Fresh, Alone
  <1>9. Counted
    <2>1. \A e : Pushers(enqueuer, e) = {}
      BY <1>3 DEF Pushers, Pushes
    <2>2. Cardinality(Enqueuers) \in Nat
      BY PollingAssumption, FS_CardinalityType
    <2>3. QED
      BY <1>4, <2>1, <2>2, FS_EmptySet DEF Counted
  <1>10. QED
    BY <1>1, <1>6, <1>8, <1>9 DEF IInv

LEMMA NextIInv ==
  ASSUME IInv, [Next]_vars
  PROVE  IInv' /\ EndedKept
  <1>1. TypeOK /\ Neat
    BY DEF IInv, TypeInv
  <1>2. ASSUME NEW n \in Enqueuers, BeginCycle(n) PROVE IInv' /\ EndedKept
    <2>1. UNCHANGED <<row, age, worker, late, failures>>
      BY <1>2 DEF BeginCycle
    <2>2. failures' \in 0 .. MaxFailures
      BY <1>1, <2>1, OtherFields
    <2>3. QED
      BY <1>1, <1>2, <2>1, <2>2, BeginCycleMoves, EnqueuerInv
  <1>3. ASSUME NEW n \in Enqueuers, Select(n) PROVE IInv' /\ EndedKept
    BY <1>3, SelectInv
  <1>4. ASSUME NEW n \in Enqueuers, EndPass(n) PROVE IInv' /\ EndedKept
    <2>1. UNCHANGED <<row, age, worker, late, failures>>
      BY <1>4 DEF EndPass
    <2>2. failures' \in 0 .. MaxFailures
      BY <1>1, <2>1, OtherFields
    <2>3. QED
      BY <1>1, <1>4, <2>1, <2>2, EndPassMoves, EnqueuerInv
  <1>5. ASSUME NEW n \in Enqueuers, Cut(n) PROVE IInv' /\ EndedKept
    <2>1. UNCHANGED <<row, age, worker, late, failures>>
      BY <1>5 DEF Cut
    <2>2. failures' \in 0 .. MaxFailures
      BY <1>1, <2>1, OtherFields
    <2>3. QED
      BY <1>1, <1>5, <2>1, <2>2, CutMoves, EnqueuerInv
  <1>6. ASSUME NEW n \in Enqueuers, Prepend(n) PROVE IInv' /\ EndedKept
    <2>1. UNCHANGED <<row, age, worker, late, failures>>
      BY <1>6 DEF Prepend
    <2>2. failures' \in 0 .. MaxFailures
      BY <1>1, <2>1, OtherFields
    <2>3. QED
      BY <1>1, <1>6, <2>1, <2>2, PrependMoves, EnqueuerInv
  <1>7. ASSUME NEW n \in Enqueuers, Push(n) PROVE IInv' /\ EndedKept
    <2>1. UNCHANGED <<row, age, worker, late, failures>>
      BY <1>7 DEF Push
    <2>2. failures' \in 0 .. MaxFailures
      BY <1>1, <2>1, OtherFields
    <2>3. QED
      BY <1>1, <1>7, <2>1, <2>2, PushMoves, EnqueuerInv
  <1>8. ASSUME NEW n \in Enqueuers, EnqueuerFails(n) PROVE IInv' /\ EndedKept
    <2>1. /\ UNCHANGED <<row, age, worker, late>>
          /\ failures < MaxFailures /\ failures' = failures + 1
      BY <1>8 DEF EnqueuerFails
    <2>2. failures' \in 0 .. MaxFailures
      BY <1>1, <2>1, OtherFields, PollingAssumption
    <2>3. QED
      BY <1>1, <1>8, <2>1, <2>2, EnqueuerFailsMoves, EnqueuerInv
  <1>9. ASSUME NEW w \in Workers, Dequeue(w) \/ WorkerFails(w) PROVE IInv' /\ EndedKept
    BY <1>9, PopInv, LookInv, OutcomeInv, WorkerFailsInv DEF Dequeue
  <1>10. ASSUME Tick PROVE IInv' /\ EndedKept
    BY <1>10, TickInv
  <1>11. ASSUME UNCHANGED vars PROVE IInv' /\ EndedKept
    <2>1. UNCHANGED <<row, age, queue, enqueuer, worker, late, failures>>
      BY <1>11 DEF vars
    <2>2. TypeInv' /\ Neat' /\ Fresh' /\ Counted' /\ EndedKept
      BY <2>1 DEF IInv, TypeInv, TypeOK, WorkersRight, Neat, Fresh, Counted, EndedKept
    <2>3. (late \/ \A e \in Ids : Alone(e))'
      BY <2>1 DEF IInv, Alone
    <2>4. QED
      BY <2>2, <2>3 DEF IInv
  <1>12. QED
    BY <1>2, <1>3, <1>4, <1>5, <1>6, <1>7, <1>8, <1>9, <1>10, <1>11 DEF Next, Enqueue

LEMMA Invariance == Spec => []IInv
  <1>1. IInv /\ [Next]_vars => IInv'
    BY NextIInv
  <1>2. QED
    BY InitIInv, <1>1, PTL DEF Spec

\* The table, the queue, the enqueuers and the workers stay well typed; in
\* particular no row counts more attempts than maxAttempts.
THEOREM TypeCorrect == Spec => []TypeOK
  <1>1. IInv => TypeOK
    BY DEF IInv, TypeInv
  <1>2. QED
    BY Invariance, <1>1, PTL

\* Resubmitting does not flood the queue: enqueueNonGroup cuts an id out of the
\* queue before it pushes it again, so that each instance adds one copy at most.
THEOREM FewCopiesTheorem == Spec => []FewCopies
  <1>1. IInv => FewCopies
    <2> SUFFICES ASSUME IInv, NEW e \in Ids
                 PROVE  Occurrences(queue, e) <= Cardinality(Enqueuers)
      BY DEF FewCopies
    <2>1. Occurrences(queue, e) + Cardinality(Pushers(enqueuer, e)) <= Cardinality(Enqueuers)
      BY DEF IInv, Counted
    <2>2. Occurrences(queue, e) \in Nat
      BY OccurrencesType DEF IInv, TypeInv, TypeOK
    <2>3. Pushers(enqueuer, e) \subseteq Enqueuers
      BY DEF Pushers
    <2>4. Cardinality(Pushers(enqueuer, e)) \in Nat /\ Cardinality(Enqueuers) \in Nat
      BY <2>3, FS_Subset, FS_CardinalityType, PollingAssumption
    <2>5. QED
      BY <2>1, <2>2, <2>4
  <1>2. QED
    BY Invariance, <1>1, PTL

\* As long as every row is handled before it is old enough to be resubmitted, no
\* two workers have the same row, whichever threads fail with ids in their hands.
THEOREM OneWorkerTheorem == Spec => []OneWorker
  <1>1. IInv => OneWorker
    <2> SUFFICES ASSUME IInv, ~ late, NEW v \in Workers, NEW w \in Workers, v # w,
                        worker[v].at # "idle", worker[w].at # "idle",
                        worker[v].id = worker[w].id
                 PROVE  FALSE
      BY DEF OneWorker
    <2> DEFINE e == worker[v].id
    <2>1. e \in Ids
      BY DEF IInv, TypeInv, WorkersRight
    <2>2. Held(worker, v, e) /\ Held(worker, w, e)
      BY DEF Held
    <2>3. InOnePlace(queue, enqueuer, worker, e)
      BY <2>1 DEF IInv, Alone
    <2>4. QED
      BY <2>2, <2>3 DEF InOnePlace
  <1>2. QED
    BY Invariance, <1>1, PTL

\* A row that has ended stays as it is: doDequeue records an outcome only where
\* the row still has the open status it read, and doEnqueue selects open rows.
THEOREM EndedIsFinalTheorem == Spec => EndedIsFinal
  <1>1. IInv /\ [Next]_vars => [\A e \in Ids : row[e].status \in Ended => row'[e] = row[e]]_row
    BY NextIInv DEF EndedKept
  <1>2. QED
    BY Invariance, <1>1, PTL DEF Spec, EndedIsFinal
=============================================================================

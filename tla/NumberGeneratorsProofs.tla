----------------------- MODULE NumberGeneratorsProofs -----------------------
(***************************************************************************)
(* The numbers of the generators: none is given twice, and they come in    *)
(* order, for any threads, bounds and moves of the clock.  One inductive   *)
(* invariant per generator: first the Redis sequence, whose theorems are   *)
(* about RedisCyclicSequence itself, then the instances.                   *)
(***************************************************************************)
EXTENDS NumberGenerators, FiniteSetTheorems, TLAPS

-----------------------------------------------------------------------------
(* The Redis sequence.  An answer <<c, n>> stands for the counter          *)
(* value c * Base + n it was made from.  Every counter value is handed to  *)
(* at most one call, which answers with it at most once: the values that   *)
(* calls hold are pairwise different, none is the value of an answer, and  *)
(* none lies beyond the counter, from where the next values are taken.     *)

ValueOf(a) == a[1] * Base + a[2]

Holding(t) == pc[t] \in {"time", "decide", "restart"}

AnswersBehind == \A a \in issued : ValueOf(a) <= counter

HeldBehind == \A t \in Thread : Holding(t) => value[t] <= counter

HeldUnanswered == \A t \in Thread : Holding(t) =>
                     \A a \in issued : ValueOf(a) # value[t]

HeldDistinct == \A t, u \in Thread :
                   Holding(t) /\ Holding(u) /\ value[t] = value[u] => t = u

RestartsBehind == \A t \in Thread :
                     pc[t] = "restart" => Restarts(value[t], cycle[t])

\* A call under way has an attempt left, so that none counts below zero.
AttemptsLeft == \A t \in Thread : pc[t] # "idle" => attempts[t] > 0

IInv == /\ TypeOK /\ AttemptsLeft
        /\ IsFiniteSet(issued)
        /\ UniqueNumbers
        /\ AnswersBehind /\ HeldBehind
        /\ HeldUnanswered /\ HeldDistinct
        /\ RestartsBehind

\* A cycle times the base is a natural number.
LEMMA BaseType == /\ Base \in Nat
                  /\ \A c \in Cycle : c \in Nat /\ c * Base \in Nat
  BY SequenceAssumption DEF Cycle

\* The invariant holds in the initial state.
LEMMA InitIInv == Init => IInv
  <1> SUFFICES ASSUME Init PROVE IInv
    OBVIOUS
  <1>1. TypeOK /\ AttemptsLeft
    BY BaseType, SequenceAssumption DEF Init, TypeOK, AttemptsLeft, Cycle, MaxAttempts
  <1>2. IsFiniteSet(issued) /\ UniqueNumbers
    BY FS_EmptySet DEF Init, UniqueNumbers
  <1>3. QED
    BY <1>1, <1>2 DEF Init, IInv, AnswersBehind, HeldBehind, HeldUnanswered,
       HeldDistinct, RestartsBehind, Holding

\* Type correctness is preserved by every step.
LEMMA NextTypeOK ==
  TypeOK /\ AttemptsLeft /\ [Next]_vars => TypeOK' /\ AttemptsLeft'
  <1> SUFFICES ASSUME TypeOK, AttemptsLeft, [Next]_vars
               PROVE  TypeOK' /\ AttemptsLeft'
    OBVIOUS
  <1> USE SequenceAssumption, BaseType DEF TypeOK, AttemptsLeft, MaxAttempts, Goto
  <1>1. ASSUME NEW t \in Thread, Call(t) PROVE TypeOK' /\ AttemptsLeft'
    BY <1>1 DEF Call
  <1>2. ASSUME NEW t \in Thread, Incr(t) PROVE TypeOK' /\ AttemptsLeft'
    BY <1>2 DEF Incr
  <1>3. ASSUME NEW t \in Thread, ReadTime(t) PROVE TypeOK' /\ AttemptsLeft'
    BY <1>3 DEF ReadTime
  <1>4. ASSUME NEW t \in Thread, AnswerCounter(t) PROVE TypeOK' /\ AttemptsLeft'
    BY <1>4 DEF AnswerCounter, Answer
  <1>5. ASSUME NEW t \in Thread, GoRestart(t) PROVE TypeOK' /\ AttemptsLeft'
    BY <1>5 DEF GoRestart
  <1>6. ASSUME NEW t \in Thread, CompareAndSet(t) PROVE TypeOK' /\ AttemptsLeft'
    BY <1>6 DEF CompareAndSet, Answer
  <1>7. ASSUME NEW t \in Thread, CompareAndSetFails(t) PROVE TypeOK' /\ AttemptsLeft'
    BY <1>7 DEF CompareAndSetFails
  <1>8. ASSUME NEW t \in Thread, Wake(t) \/ Crash(t) PROVE TypeOK' /\ AttemptsLeft'
    BY <1>8 DEF Wake, Crash
  <1>9. ASSUME ClockMoves PROVE TypeOK' /\ AttemptsLeft'
    BY <1>9 DEF ClockMoves
  <1>10. CASE UNCHANGED vars
    BY <1>10 DEF vars
  <1>11. QED
    BY <1>1, <1>2, <1>3, <1>4, <1>5, <1>6, <1>7, <1>8, <1>9, <1>10 DEF Next

\* An answer made from a value that no answer has yet is a new one.
LEMMA NewAnswer ==
  ASSUME TypeOK, IsFiniteSet(issued), UniqueNumbers,
         NEW t \in Thread, NEW c \in Cycle, NEW n \in Int,
         \A a \in issued : ValueOf(a) # c * Base + n,
         Answer(t, c, n)
  PROVE  IsFiniteSet(issued') /\ UniqueNumbers'
  <1>1. <<c, n>> \notin issued
    BY DEF ValueOf
  <1>2. /\ IsFiniteSet(issued \cup {<<c, n>>})
        /\ Cardinality(issued \cup {<<c, n>>}) = Cardinality(issued) + 1
    BY <1>1, FS_AddElement
  <1>3. QED
    BY <1>2 DEF Answer, UniqueNumbers

\* Every step preserves the invariant.
LEMMA NextIInv == IInv /\ [Next]_vars => IInv'
  <1> SUFFICES ASSUME IInv, [Next]_vars PROVE IInv'
    OBVIOUS
  <1>type. TypeOK /\ AttemptsLeft /\ TypeOK' /\ AttemptsLeft'
    BY NextTypeOK DEF IInv
  <1> USE SequenceAssumption, BaseType, <1>type
  \* Steps that give no answer and leave the counter alone.
  <1>1. ASSUME NEW t \in Thread,
               \/ Call(t) \/ ReadTime(t) \/ CompareAndSetFails(t)
               \/ Wake(t) \/ Crash(t)
        PROVE  IInv'
    <2>1. /\ counter' = counter /\ issued' = issued /\ answers' = answers
          /\ value' = value
          /\ \A u \in Thread : Holding(u)' => Holding(u)
      BY <1>1 DEF Call, ReadTime, CompareAndSetFails, Wake, Crash, Goto, Holding,
                 TypeOK
    <2>2. \A u \in Thread : pc'[u] = "restart" =>
             pc[u] = "restart" /\ cycle'[u] = cycle[u]
      BY <1>1 DEF Call, ReadTime, CompareAndSetFails, Wake, Crash, Goto, TypeOK
    <2>3. QED
      BY <2>1, <2>2 DEF IInv, UniqueNumbers, AnswersBehind, HeldBehind,
         HeldUnanswered, HeldDistinct, RestartsBehind, Restarts, ValueOf
  <1>2. ASSUME NEW t \in Thread, GoRestart(t) PROVE IInv'
    BY <1>2 DEF GoRestart, Goto, TypeOK, IInv, UniqueNumbers, AnswersBehind,
       HeldBehind, HeldUnanswered, HeldDistinct, RestartsBehind, Holding,
       Restarts, ValueOf
  \* INCR hands out a value above all answers and all values held.
  <1>3. ASSUME NEW t \in Thread, Incr(t) PROVE IInv'
    <2> USE <1>3 DEF Incr, Goto, TypeOK, IInv
    <2>1. IsFiniteSet(issued') /\ UniqueNumbers'
      BY DEF UniqueNumbers
    <2>2. \A a \in issued : ValueOf(a) \in Int
      BY DEF ValueOf
    <2>3. AnswersBehind' /\ HeldUnanswered'
      BY <2>2 DEF AnswersBehind, HeldUnanswered, Holding, ValueOf
    <2>4. HeldBehind' /\ HeldDistinct'
      BY DEF HeldBehind, HeldDistinct, Holding
    <2>5. RestartsBehind'
      BY DEF RestartsBehind, Restarts
    <2>6. QED
      BY <2>1, <2>3, <2>4, <2>5
  \* A call that answers gives up the value it held.
  <1>4. ASSUME NEW t \in Thread, AnswerCounter(t) PROVE IInv'
    <2> USE <1>4 DEF AnswerCounter, IInv
    <2> DEFINE c == cycle[t]
               n == value[t] - c * Base
    <2>1. c \in Cycle /\ n \in Int /\ c * Base + n = value[t]
      BY DEF TypeOK
    <2>2. IsFiniteSet(issued') /\ UniqueNumbers'
      BY <2>1, NewAnswer DEF HeldUnanswered, Holding
    <2>3. issued' = issued \cup {<<c, n>>} /\ ValueOf(<<c, n>>) = value[t]
      BY <2>1 DEF Answer, ValueOf
    <2>4. \A u \in Thread : Holding(u)' <=> Holding(u) /\ u # t
      BY DEF Answer, Goto, Holding, TypeOK
    <2>5. AnswersBehind'
      BY <2>3 DEF AnswersBehind, HeldBehind, Holding, ValueOf
    <2>6. HeldUnanswered'
      BY <2>3, <2>4 DEF HeldUnanswered, HeldDistinct, Holding, ValueOf
    <2>7. HeldBehind' /\ HeldDistinct'
      BY <2>4 DEF HeldBehind, HeldDistinct
    <2>8. RestartsBehind'
      BY DEF RestartsBehind, Restarts, Answer, Goto, TypeOK
    <2>9. QED
      BY <2>2, <2>5, <2>6, <2>7, <2>8
  \* A restart takes a value above the counter it replaces.
  <1>5. ASSUME NEW t \in Thread, CompareAndSet(t) PROVE IInv'
    <2> USE <1>5 DEF CompareAndSet, IInv
    <2> DEFINE c == cycle[t]
    <2>1. c \in Cycle /\ counter' = c * Base + 1 /\ counter' > counter
      BY DEF TypeOK, RestartsBehind, Restarts
    <2>2. \A a \in issued : ValueOf(a) \in Int /\ ValueOf(a) < c * Base + 1
      BY <2>1 DEF AnswersBehind, ValueOf, TypeOK
    <2>3. IsFiniteSet(issued') /\ UniqueNumbers'
      BY <2>1, <2>2, NewAnswer
    <2>4. issued' = issued \cup {<<c, 1>>} /\ ValueOf(<<c, 1>>) = counter'
      BY <2>1 DEF Answer, ValueOf
    <2>5. \A u \in Thread : Holding(u)' <=> Holding(u) /\ u # t
      BY DEF Answer, Goto, Holding, TypeOK
    <2>6. AnswersBehind'
      BY <2>1, <2>2, <2>4 DEF AnswersBehind, ValueOf
    <2>7. HeldBehind' /\ HeldDistinct'
      BY <2>1, <2>5 DEF HeldBehind, HeldDistinct, TypeOK
    <2>8. HeldUnanswered'
      BY <2>1, <2>4, <2>5 DEF HeldUnanswered, HeldBehind, ValueOf, TypeOK
    <2>9. RestartsBehind'
      BY DEF RestartsBehind, Restarts, Answer, Goto, TypeOK
    <2>10. QED
      BY <2>3, <2>6, <2>7, <2>8, <2>9
  <1>6. CASE ClockMoves \/ UNCHANGED vars
    BY <1>6 DEF ClockMoves, vars, IInv, UniqueNumbers, AnswersBehind, HeldBehind,
       HeldUnanswered, HeldDistinct, RestartsBehind, Restarts, Holding, ValueOf
  <1>7. QED
    BY <1>1, <1>2, <1>3, <1>4, <1>5, <1>6 DEF Next

-----------------------------------------------------------------------------
\* Every reachable state is well typed.
THEOREM TypeCorrectness == Spec => []TypeOK
  BY InitIInv, NextTypeOK, PTL DEF Spec, IInv

\* No two calls get the same number.
THEOREM UniquenessTheorem == Spec => []UniqueNumbers
  BY InitIInv, NextIInv, PTL DEF Spec, IInv

\* The counter never goes back.
THEOREM CounterGrowsTheorem == Spec => CounterGrows
  <1>1. IInv /\ [Next]_vars => counter' >= counter
    BY SequenceAssumption, BaseType
       DEF IInv, TypeOK, RestartsBehind, Restarts, Next, vars, Call, Incr, ReadTime,
           AnswerCounter, GoRestart, CompareAndSet, CompareAndSetFails, Wake, Crash,
           ClockMoves
  <1>2. QED
    BY <1>1, InitIInv, NextIInv, PTL DEF Spec, CounterGrows

-----------------------------------------------------------------------------
(* The order of the answers, while the clock is not set back.              *)

TimeMovesOn == ClockSteps \subseteq Nat

\* A call's value comes after the answers given before it began, and the cycle
\* it reads is not an earlier one than theirs.
OrderInv ==
    /\ \A a \in issued : a[1] <= now /\ a[2] >= 1
    /\ \A t \in Thread : cycle[t] <= now
    /\ \A t \in Thread : \A b \in before[t] :
         /\ Holding(t) => ValueOf(b) < value[t]
         /\ pc[t] \in {"decide", "restart"} => b[1] <= cycle[t]

LEMMA InitOrder == Init => OrderInv
  BY SequenceAssumption DEF Init, OrderInv

\* An answer is later than those given before its call began.
AnswerLater == \A t \in Thread : answers' > answers /\ pc[t] # pc'[t]
                  => \A a \in issued' \ issued : \A b \in before[t] : Less(b, a)

LEMMA NextOrder == ASSUME TimeMovesOn, IInv, OrderInv, [Next]_vars
                   PROVE  OrderInv' /\ AnswerLater
  <1>type. TypeOK /\ TypeOK'
    BY NextTypeOK DEF IInv
  <1> USE SequenceAssumption, BaseType, <1>type DEF Goto
  <1>typed. /\ now \in Int /\ counter \in Int /\ answers \in Int
            /\ \A a \in issued : a[1] \in Int /\ a[2] \in Int /\ ValueOf(a) \in Int
            /\ \A t \in Thread : \A b \in before[t] : b \in issued
    BY DEF TypeOK, Cycle, ValueOf
  \* Steps that give no answer.
  <1>quiet. ASSUME issued' = issued, answers' = answers, now' >= now, now' \in Int,
                   \A t \in Thread : cycle'[t] <= now',
                   \A t \in Thread : \A b \in before'[t] :
                      /\ Holding(t)' => ValueOf(b) < value'[t]
                      /\ pc'[t] \in {"decide", "restart"} => b[1] <= cycle'[t]
            PROVE  OrderInv' /\ AnswerLater
    <2>1. \A a \in issued' : a[1] <= now' /\ a[2] >= 1
      BY <1>typed, <1>quiet DEF OrderInv
    <2>2. QED
      BY <1>typed, <1>quiet, <2>1 DEF OrderInv, AnswerLater, ValueOf
  <1>1. ASSUME NEW t \in Thread, Call(t) PROVE OrderInv' /\ AnswerLater
    BY <1>typed, <1>1, <1>quiet DEF Call, TypeOK, OrderInv, Holding
  <1>2. ASSUME NEW t \in Thread, Incr(t) PROVE OrderInv' /\ AnswerLater
    <2>1. \A b \in before[t] : ValueOf(b) < counter + 1
      BY <1>typed DEF IInv, AnswersBehind
    <2>2. QED
      BY <1>typed, <1>2, <1>quiet, <2>1 DEF Incr, TypeOK, OrderInv, Holding
  <1>3. ASSUME NEW t \in Thread, ReadTime(t) PROVE OrderInv' /\ AnswerLater
    BY <1>typed, <1>3, <1>quiet DEF ReadTime, TypeOK, OrderInv, Holding
  <1>4. ASSUME NEW t \in Thread,
               GoRestart(t) \/ CompareAndSetFails(t) \/ Wake(t) \/ Crash(t)
        PROVE  OrderInv' /\ AnswerLater
    BY <1>typed, <1>4, <1>quiet
       DEF GoRestart, CompareAndSetFails, Wake, Crash, TypeOK, OrderInv, Holding
  \* An answer later than those before, and not beyond the present cycle.
  <1>answer. ASSUME NEW t \in Thread, NEW c \in Cycle, NEW n \in Int, Answer(t, c, n),
                    c <= now, n >= 1, pc[t] # "idle", \A b \in before[t] : Less(b, <<c, n>>),
                    UNCHANGED <<now, value, cycle, before>>
             PROVE  OrderInv' /\ AnswerLater
    <2>1. /\ issued' = issued \cup {<<c, n>>}
          /\ \A u \in Thread : u # t => pc'[u] = pc[u]
          /\ pc'[t] = "idle"
      BY <1>answer DEF Answer, TypeOK
    <2>2. OrderInv'
      BY <1>typed, <1>answer, <2>1 DEF OrderInv, Holding, ValueOf
    <2>3. AnswerLater
      BY <1>answer, <2>1 DEF AnswerLater
    <2>4. QED
      BY <2>2, <2>3
  <1>5. ASSUME NEW t \in Thread, AnswerCounter(t) PROVE OrderInv' /\ AnswerLater
    <2>1. PICK c \in Cycle : c = cycle[t]
      BY DEF TypeOK
    <2>2. PICK v \in Int : v = value[t]
      BY DEF TypeOK
    <2>3. c * Base \in Int /\ c \in Int /\ (c + 1) * Base = c * Base + Base /\ c <= now
      BY <1>typed, <2>1 DEF OrderInv, TypeOK, Cycle
    <2>4. v - c * Base >= 1
      BY <1>5, <2>1, <2>2, <2>3 DEF AnswerCounter, InCycle, Ahead
    <2>5. ASSUME NEW b \in before[t] PROVE Less(b, <<c, v - c * Base>>)
      <3>1. b[1] <= c /\ b[1] * Base + b[2] < v /\ b[1] \in Int /\ b[2] \in Int
        BY <1>5, <1>typed, <2>1, <2>2 DEF OrderInv, AnswerCounter, Holding, ValueOf
      <3>2. b[1] = c => b[2] < v - c * Base
        BY <2>3, <3>1
      <3>3. QED
        BY <2>3, <3>1, <3>2 DEF Less
    <2>6. QED
      BY <1>5, <2>1, <2>2, <2>3, <2>4, <2>5, <1>answer DEF AnswerCounter
  <1>6. ASSUME NEW t \in Thread, CompareAndSet(t) PROVE OrderInv' /\ AnswerLater
    <2>1. PICK c \in Cycle : c = cycle[t]
      BY DEF TypeOK
    <2>2. PICK v \in Int : v = value[t]
      BY DEF TypeOK
    <2>3. c * Base \in Int /\ c \in Int /\ v <= c * Base /\ c <= now
      <3>1. c * Base \in Int /\ c \in Int
        BY DEF Cycle
      <3>2. c <= now
        BY <2>1 DEF OrderInv
      <3>3. v <= c * Base
        BY <1>6, <2>1, <2>2 DEF CompareAndSet, IInv, RestartsBehind, Restarts
      <3>4. QED
        BY <3>1, <3>2, <3>3
    <2>4. ASSUME NEW b \in before[t] PROVE Less(b, <<c, 1>>)
      <3>1. /\ b[1] <= c /\ b[1] * Base + b[2] < v /\ b[1] \in Int /\ b[2] \in Int
            /\ b[2] >= 1
        BY <1>6, <1>typed, <2>1, <2>2 DEF OrderInv, CompareAndSet, Holding, ValueOf
      <3>2. b[1] # c
        BY <2>3, <3>1
      <3>3. QED
        BY <2>3, <3>1, <3>2 DEF Less
    <2>5. QED
      BY <1>6, <2>1, <2>3, <2>4, <1>answer DEF CompareAndSet
  <1>7. CASE ClockMoves
    <2>1. now' >= now /\ now' \in Int
      BY <1>typed, <1>7 DEF TimeMovesOn, ClockMoves
    <2>2. \A t \in Thread : cycle'[t] <= now'
      <3>1. \A t \in Thread : cycle[t] \in Int /\ cycle[t] <= now
        BY DEF OrderInv, TypeOK, Cycle
      <3>2. QED
        BY <1>typed, <1>7, <2>1, <3>1 DEF ClockMoves
    <2>3. QED
      BY <1>7, <2>2, <1>quiet, <2>1 DEF ClockMoves, OrderInv, Holding
  <1>8. CASE UNCHANGED vars
    BY <1>typed, <1>8, <1>quiet DEF vars, OrderInv, Holding
  <1>9. QED
    BY <1>1, <1>2, <1>3, <1>4, <1>5, <1>6, <1>7, <1>8 DEF Next

\* A call that starts after another was answered gets a later number.
THEOREM OrderTheorem == ASSUME TimeMovesOn PROVE Spec => LaterCallsGetLaterNumbers
  <1>1. IInv /\ OrderInv /\ [Next]_vars => OrderInv' /\ AnswerLater
    BY NextOrder
  <1>2. AnswerLater <=> \A t \in Thread : answers' > answers /\ pc[t] # pc'[t]
                         => \A a \in issued' \ issued : \A b \in before[t] : Less(b, a)
    BY DEF AnswerLater
  <1>3. QED
    BY <1>1, <1>2, InitIInv, InitOrder, NextIInv, PTL DEF Spec, LaterCallsGetLaterNumbers

-----------------------------------------------------------------------------
(* Snowflake                                                               *)

W == 2 ^ workerIdBits
P == 2 ^ sequenceBits

\* How many workers there are and how many ids there are in a millisecond.
LEMMA Widths == W \in Nat /\ W > 0 /\ P \in Nat /\ P > 1 /\ workerId \in 0 .. W - 1
  BY NumberGeneratorsAssumption DEF W, P

\* An id is made of its parts: ids are ordered by time and then by sequence.
LEMMA IdOrder == ASSUME NEW a \in Int, NEW b \in Int, a < b,
                        NEW s \in Int, s < P, NEW u \in Nat
                 PROVE  Flake!Id(a, s) < Flake!Id(b, u)
  <1> DEFINE x == a * W + workerId
             y == b * W + workerId
  <1>1. x \in Int /\ y \in Int
    BY Widths
  <1>2. x < y
    <2>1. (b - a) * W >= W
      BY Widths
    <2>2. b * W - a * W = (b - a) * W
      BY Widths
    <2>3. a * W \in Int /\ b * W \in Int
      BY Widths
    <2>4. QED
      BY <2>1, <2>2, <2>3, Widths
  <1> HIDE DEF x, y
  <1>3. y * P - x * P = (y - x) * P
    BY <1>1, Widths
  <1>4. (y - x) * P >= P
    BY <1>1, <1>2, Widths
  <1>5. x * P \in Int /\ y * P \in Int
    BY <1>1, Widths
  <1>6. x * P + s < y * P + u
    BY <1>3, <1>4, <1>5, Widths
  <1>7. QED
    BY <1>6 DEF Flake!Id, x, y, W, P

\* Within a millisecond by the sequence.
LEMMA IdSameTime == ASSUME NEW a \in Int, NEW s \in Int, NEW u \in Int, s < u
                    PROVE  Flake!Id(a, s) < Flake!Id(a, u)
  <1>1. (a * W + workerId) * P \in Int
    BY Widths
  <1>2. QED
    BY <1>1 DEF Flake!Id, W, P

LEMMA IdType == ASSUME NEW a \in Int, NEW s \in Int PROVE Flake!Id(a, s) \in Int
  BY Widths DEF Flake!Id, W, P

FlakeTyped == /\ sClock \in Nat
              /\ sLastTimestamp \in Int /\ sLastTimestamp >= -1
              /\ sSequence \in 0 .. P - 1
              /\ sSleep \in Nat
              /\ sLatest \in Int
              /\ sPc \in {"idle", "spin", "sleep"}

\* The last id lies before the next millisecond, and while the call does not
\* spin it lies before the next of the present one.
LatestIsOld == /\ sLatest < Flake!Id(sLastTimestamp + 1, 0)
               /\ sPc # "spin" /\ sLastTimestamp >= 0
                     => sLatest <= Flake!Id(sLastTimestamp, sSequence)
               /\ sPc = "spin" => sSequence = 0

\* A sleep that the clock does not disturb lasts until the clock has caught up.
SleepIsEnough == sPc = "sleep" => sClock + sSleep > sLastTimestamp

FlakeInv == /\ FlakeTyped
            /\ LatestIsOld
            /\ ~sOverslept => sGrowing = TRUE /\ SleepIsEnough

LEMMA FlakeInit == Flake!Init => FlakeInv
  <1> SUFFICES ASSUME Flake!Init PROVE FlakeInv
    OBVIOUS
  <1> USE DEF Flake!Init
  <1>1. FlakeTyped
    BY Widths DEF FlakeTyped
  <1>2. sLatest < Flake!Id(sLastTimestamp + 1, 0)
    <2>1. Flake!Id(-1, P - 1) < Flake!Id(0, 0)
      BY IdOrder, Widths
    <2>2. workerId * P >= 0 /\ workerId * P \in Int
      BY Widths
    <2>3. Flake!Id(0, 0) = workerId * P
      BY Widths DEF Flake!Id, W, P
    <2>4. QED
      BY <2>2, <2>3
  <1>3. QED
    BY <1>1, <1>2 DEF FlakeInv, LatestIsOld, SleepIsEnough

\* The sequence wraps at the number of ids in a millisecond.
LEMMA NextSequence == ASSUME sSequence \in 0 .. P - 1
                      PROVE  /\ Flake!NextSequence \in 0 .. P - 1
                             /\ Flake!NextSequence # 0 => Flake!NextSequence = sSequence + 1
  <1>1. Flake!NextSequence = (sSequence + 1) % P
    BY Widths DEF Flake!NextSequence, Flake!sequenceMask, P
  <1>2. (sSequence + 1) % P \in 0 .. P - 1
    BY Widths
  <1>3. CASE sSequence + 1 < P
    BY <1>1, <1>2, <1>3, Widths
  <1>4. CASE sSequence + 1 = P
    BY <1>1, <1>2, <1>4, Widths
  <1>5. QED
    BY <1>1, <1>2, <1>3, <1>4, Widths

LEMMA FlakeStep == FlakeInv /\ [Flake!Next]_flakeVars => FlakeInv'
  <1> SUFFICES ASSUME FlakeInv, [Flake!Next]_flakeVars PROVE FlakeInv'
    OBVIOUS
  <1>typed. FlakeTyped
    BY DEF FlakeInv
  \* An id greater than the last leaves the invariant as it is.
  <1>answer. ASSUME NEW a \in Nat, NEW s \in 0 .. P - 1, Flake!Answer(a, s),
                    sOverslept \/ Flake!Id(a, s) > sLatest
             PROVE  FlakeInv'
    <2> USE DEF Flake!Answer
    <2>1. Flake!Id(a, s) \in Int
      BY <1>answer, Widths, IdType
    <2>2. FlakeTyped'
      BY <1>answer, <1>typed, <2>1 DEF FlakeTyped
    <2>3. Flake!Id(a, s) < Flake!Id(a + 1, 0)
      BY <1>answer, Widths, IdOrder
    <2>4. LatestIsOld'
      BY <1>answer, <2>1, <2>3 DEF LatestIsOld
    <2>5. ASSUME ~sOverslept PROVE sGrowing' = TRUE
      <3>1. sGrowing = TRUE
        BY <2>5 DEF FlakeInv
      <3>2. (sLatest' > sLatest) = TRUE
        BY <1>answer, <2>5
      <3>3. QED
        BY <1>answer, <3>1, <3>2
    <2>6. SleepIsEnough' /\ sOverslept' = sOverslept
      BY <1>answer DEF SleepIsEnough
    <2>7. QED
      BY <2>2, <2>4, <2>5, <2>6 DEF FlakeInv
  \* The first id of a later millisecond is greater than the last.
  <1>later. ASSUME NEW a \in Int, a > sLastTimestamp, NEW s \in Nat
            PROVE  Flake!Id(a, s) > sLatest
    <2>1. Flake!Id(sLastTimestamp + 1, 0) <= Flake!Id(a, s)
      <3>1. CASE a = sLastTimestamp + 1 /\ s = 0
        BY <1>typed, <3>1, IdType DEF FlakeTyped
      <3>2. CASE a = sLastTimestamp + 1 /\ 0 < s
        BY <1>typed, <3>2, IdType, IdSameTime DEF FlakeTyped
      <3>3. CASE sLastTimestamp + 1 < a
        BY <1>typed, <3>3, IdType, IdOrder, Widths DEF FlakeTyped
      <3>4. QED
        BY <1>typed, <1>later, <3>1, <3>2, <3>3 DEF FlakeTyped
    <2>2. Flake!Id(sLastTimestamp + 1, 0) \in Int /\ Flake!Id(a, s) \in Int
      <3>1. sLastTimestamp + 1 \in Int /\ a \in Int /\ s \in Int /\ 0 \in Int
        BY <1>later, <1>typed DEF FlakeTyped
      <3>2. QED
        BY <3>1, IdType
    <2>3. QED
      BY <1>typed, <2>1, <2>2 DEF FlakeInv, LatestIsOld, FlakeTyped
  \* Steps that give no id and leave the fields alone, but for the time.
  <1>quiet. ASSUME sSequence' = sSequence, sLastTimestamp' = sLastTimestamp,
                   sLatest' = sLatest,
                   sGrowing = TRUE => sGrowing' = TRUE,
                   FlakeTyped',
                   sPc' = sPc \/ (sPc' # "spin" /\ sPc # "spin"),
                   ~sOverslept' => ~sOverslept /\ SleepIsEnough'
            PROVE  FlakeInv'
    <2>1. LatestIsOld'
      BY <1>quiet DEF FlakeInv, LatestIsOld
    <2>2. ASSUME ~sOverslept' PROVE sGrowing' = TRUE
      BY <1>quiet, <2>2 DEF FlakeInv
    <2>3. QED
      BY <1>quiet, <2>1, <2>2 DEF FlakeInv
  <1>1. CASE Flake!Later
    <2>1. PICK s \in {0, 1} : Flake!Answer(sClock, s)
      BY <1>1 DEF Flake!Later, Flake!FirstSequence
    <2>2. sClock > sLastTimestamp
      BY <1>1 DEF Flake!Later
    <2>3. QED
      BY <1>typed, <2>1, <2>2, <1>answer, <1>later, Widths DEF FlakeTyped
  <1>2. CASE Flake!SameTime
    <2>1. Flake!Id(sLastTimestamp, sSequence) < Flake!Id(sClock, Flake!NextSequence)
      BY <1>typed, <1>2, NextSequence, IdSameTime DEF FlakeTyped, Flake!SameTime
    <2>2. sLatest <= Flake!Id(sLastTimestamp, sSequence)
      BY <1>typed, <1>2 DEF FlakeTyped, FlakeInv, LatestIsOld, Flake!SameTime
    <2>3. Flake!Id(sClock, Flake!NextSequence) > sLatest
      <3>1. sClock \in Int /\ sLastTimestamp \in Int /\ sSequence \in Int /\ sLatest \in Int
        BY <1>typed, Widths DEF FlakeTyped
      <3>2. Flake!NextSequence \in Int
        BY <1>typed, NextSequence, Widths DEF FlakeTyped
      <3>3. /\ Flake!Id(sClock, Flake!NextSequence) \in Int
            /\ Flake!Id(sLastTimestamp, sSequence) \in Int
        BY <3>1, <3>2, IdType
      <3>4. QED
        BY <2>1, <2>2, <3>1, <3>3
    <2>4. QED
      BY <1>typed, <1>2, <2>3, <1>answer, NextSequence DEF FlakeTyped, Flake!SameTime
  <1>3. CASE Flake!Exhausted
    <2>1. FlakeTyped'
      BY <1>typed, <1>3, Widths DEF FlakeTyped, Flake!Exhausted
    <2>2. LatestIsOld' /\ SleepIsEnough'
      BY <1>3 DEF FlakeInv, LatestIsOld, SleepIsEnough, Flake!Exhausted
    <2>3. QED
      BY <1>3, <2>1, <2>2 DEF FlakeInv, Flake!Exhausted
  <1>4. CASE Flake!Spin
    <2>1. sSequence \in Nat /\ sClock \in Int
      BY <1>typed, Widths DEF FlakeTyped
    <2>2. Flake!Id(sClock, sSequence) > sLatest
      BY <2>1, <1>4, <1>later DEF Flake!Spin
    <2>3. QED
      BY <1>typed, <1>4, <2>2, <1>answer DEF FlakeTyped, Flake!Spin
  <1>5. CASE Flake!Sleep
    <2>1. FlakeTyped' /\ SleepIsEnough'
      BY <1>typed, <1>5 DEF FlakeTyped, SleepIsEnough, Flake!Sleep, Flake!SleepTime
    <2>2. QED
      BY <1>5, <2>1, <1>quiet DEF Flake!Sleep
  <1>6. CASE Flake!Refuse
    BY <1>6, <1>quiet DEF Flake!Refuse, Flake!vars, FlakeInv, FlakeTyped, SleepIsEnough
  <1>7. CASE Flake!Awake
    <2>1. PICK s \in {0, 1} : Flake!Answer(sClock, s)
      BY <1>7 DEF Flake!Awake, Flake!FirstSequence
    <2>2. ~sOverslept => sClock > sLastTimestamp
      BY <1>typed, <1>7 DEF FlakeInv, FlakeTyped, SleepIsEnough, Flake!Awake
    <2>3. QED
      BY <1>typed, <2>1, <2>2, <1>answer, <1>later, Widths DEF FlakeTyped
  <1>8. CASE Flake!Interrupted
    <2>1. FlakeTyped' /\ SleepIsEnough'
      BY <1>typed, <1>8 DEF FlakeTyped, SleepIsEnough, Flake!Interrupted
    <2>2. QED
      BY <1>8, <2>1, <1>quiet DEF Flake!Interrupted
  <1>9. CASE Flake!Tick
    <2>1. FlakeTyped'
      BY <1>typed, <1>9 DEF FlakeTyped, Flake!Tick
    <2>2. SleepIsEnough => SleepIsEnough'
      BY <1>typed, <1>9 DEF FlakeTyped, SleepIsEnough, Flake!Tick
    <2>3. ~sOverslept' => ~sOverslept /\ SleepIsEnough'
      BY <1>9, <2>2 DEF FlakeInv, Flake!Tick
    <2>4. /\ sSequence' = sSequence /\ sLastTimestamp' = sLastTimestamp
          /\ sLatest' = sLatest /\ sPc' = sPc
          /\ sGrowing = TRUE => sGrowing' = TRUE
      BY <1>9 DEF Flake!Tick
    <2>5. QED
      BY <2>1, <2>3, <2>4, <1>quiet
  <1>10. CASE Flake!SetBack
    <2>1. FlakeTyped'
      BY <1>typed, <1>10 DEF FlakeTyped, Flake!SetBack, Flake!Time
    <2>2. ASSUME ~sOverslept' PROVE ~sOverslept /\ SleepIsEnough'
      <3>1. ~(sOverslept \/ sPc = "sleep")
        BY <1>10, <2>2 DEF Flake!SetBack
      <3>2. QED
        BY <1>10, <3>1 DEF SleepIsEnough, Flake!SetBack
    <2>3. /\ sSequence' = sSequence /\ sLastTimestamp' = sLastTimestamp
          /\ sLatest' = sLatest /\ sPc' = sPc
          /\ sGrowing = TRUE => sGrowing' = TRUE
      BY <1>10 DEF Flake!SetBack
    <2>4. QED
      BY <2>1, <2>2, <2>3, <1>quiet
  <1>11. CASE UNCHANGED flakeVars
    <2>1. /\ sSequence' = sSequence /\ sLastTimestamp' = sLastTimestamp
          /\ sLatest' = sLatest /\ sPc' = sPc
          /\ sGrowing = TRUE => sGrowing' = TRUE
      BY <1>11 DEF flakeVars
    <2>2. FlakeTyped'
      BY <1>typed, <1>11 DEF flakeVars, FlakeTyped
    <2>3. ASSUME ~sOverslept' PROVE ~sOverslept /\ SleepIsEnough'
      BY <1>11, <2>3 DEF flakeVars, FlakeInv, SleepIsEnough
    <2>4. QED
      BY <2>1, <2>2, <2>3, <1>quiet
  <1>12. QED
    BY <1>1, <1>2, <1>3, <1>4, <1>5, <1>6, <1>7, <1>8, <1>9, <1>10, <1>11
       DEF Flake!Next

-----------------------------------------------------------------------------
(* The row                                                                 *)

RowTyped == /\ rValue \in Int /\ rLast \in Int /\ rClock \in Int
            /\ rPc \in [Thread -> {"idle", "set", "increment", "setAgain", "restart", "sleep"}]
            /\ rTimestamp \in [Thread -> Int]
            /\ rIssued \subseteq Int \X Int
            /\ rBefore \in [Thread -> SUBSET rIssued]

\* No number given is later than the one the row holds.
RowIsLatest == \A b \in rIssued : b[1] < rLast \/ (b[1] = rLast /\ b[2] <= rValue)

\* A call that is about to restart a row which nobody has restarted since it
\* read the time does not restart it in an earlier cycle.
RestartsForward == \A t \in Thread :
    rPc[t] = "restart" /\ t \notin rOvertaken => rTimestamp[t] >= rLast

RowInv == /\ RowTyped
          /\ ~rTurnedBack => ~rRepeated /\ RowIsLatest /\ RestartsForward

LEMMA RowInit == Row!Init => RowInv
  <1> SUFFICES ASSUME Row!Init PROVE RowInv
    OBVIOUS
  <1>1. RowTyped
    BY DEF Row!Init, RowTyped
  <1>2. RowIsLatest /\ RestartsForward /\ ~rRepeated
    BY DEF Row!Init, RowIsLatest, RestartsForward
  <1>3. QED
    BY <1>1, <1>2 DEF RowInv

\* An answer is later than all before, as long as the row is not turned back.
NewIsLatest == \A a \in rIssued' \ rIssued : \A b \in rIssued : Row!Less(b, a)

\* A step that gives no number and leaves the row alone.
RowKept == /\ rValue' = rValue /\ rLast' = rLast /\ rIssued' = rIssued
           /\ rTurnedBack => rTurnedBack'
           /\ rRepeated' => rRepeated

LEMMA RowStep == ASSUME RowInv, [Row!Next]_rowVars
                 PROVE  RowInv' /\ (~rTurnedBack' => NewIsLatest)
  <1> USE DEF RowTyped, Row!Goto
  <1>typed. RowTyped
    BY DEF RowInv
  \* Steps of a call that neither change the row nor the answers.
  <1>quiet. ASSUME RowTyped', RowKept, RestartsForward => RestartsForward'
            PROVE  RowInv' /\ (~rTurnedBack' => NewIsLatest)
    <2> USE DEF RowKept
    <2>1. RowIsLatest => RowIsLatest'
      BY <1>quiet DEF RowIsLatest
    <2>2. NewIsLatest
      BY <1>quiet DEF NewIsLatest
    <2>3. QED
      BY <1>quiet, <2>1, <2>2 DEF RowInv
  \* An answer later than what the row holds.
  <1>answer. ASSUME NEW t \in Thread, NEW n \in Int, Row!Answer(t, n),
                    ~rTurnedBack' => /\ ~rTurnedBack
                                     /\ \/ rTimestamp[t] > rLast
                                        \/ rTimestamp[t] = rLast /\ n > rValue
                                     /\ RestartsForward'
             PROVE  RowInv' /\ (~rTurnedBack' => NewIsLatest)
    <2> USE DEF Row!Answer
    <2>1. RowTyped'
      BY <1>typed, <1>answer
    <2>2. /\ rIssued' = rIssued \cup {<<rTimestamp[t], n>>}
          /\ rLast' = rTimestamp[t] /\ rValue' = n
          /\ rTimestamp[t] \in Int
      BY <1>typed, <1>answer
    <2>3. ASSUME ~rTurnedBack' PROVE ~rRepeated' /\ RowIsLatest' /\ NewIsLatest
      <3>1. RowIsLatest /\ ~rRepeated
        BY <1>answer, <2>3 DEF RowInv
      <3>2. \A b \in rIssued : Row!Less(b, <<rTimestamp[t], n>>)
        BY <1>typed, <1>answer, <2>2, <2>3, <3>1 DEF RowIsLatest, Row!Less
      <3>3. NewIsLatest
        BY <2>2, <3>2 DEF NewIsLatest
      <3>4. <<rTimestamp[t], n>> \notin rIssued
        BY <1>answer, <2>2, <3>2 DEF Row!Less
      <3>5. ~rRepeated'
        <4>1. rIssued' # rIssued
          BY <2>2, <3>4
        <4>2. QED
          BY <1>answer, <3>1, <4>1
      <3>6. RowIsLatest'
        BY <1>typed, <1>answer, <2>2, <3>2 DEF RowIsLatest, Row!Less
      <3>7. QED
        BY <3>3, <3>5, <3>6
    <2>4. QED
      BY <1>answer, <2>1, <2>3 DEF RowInv
  <1>1. ASSUME NEW t \in Thread, Row!Call(t)
        PROVE  RowInv' /\ (~rTurnedBack' => NewIsLatest)
    <2>1. RowTyped' /\ (RestartsForward => RestartsForward')
      BY <1>typed, <1>1 DEF Row!Call, RestartsForward
    <2>2. RowKept
      BY <1>1 DEF RowKept, Row!Call
    <2>3. QED
      BY <2>1, <2>2, <1>quiet
  <1>2. ASSUME NEW t \in Thread, Row!SetVariable(t)
        PROVE  RowInv' /\ (~rTurnedBack' => NewIsLatest)
    <2>1. RowTyped' /\ (RestartsForward => RestartsForward')
      BY <1>typed, <1>2 DEF Row!SetVariable, Row!CurrentTime, RestartsForward
    <2>2. RowKept
      BY <1>2 DEF RowKept, Row!SetVariable, Row!CurrentTime
    <2>3. QED
      BY <2>1, <2>2, <1>quiet
  <1>3. ASSUME NEW t \in Thread, Row!Increment(t)
        PROVE  RowInv' /\ (~rTurnedBack' => NewIsLatest)
    <2>1. Row!Answer(t, rValue + 1) /\ rTimestamp[t] = rLast
      BY <1>3 DEF Row!Increment
    <2>2. rTurnedBack' = rTurnedBack /\ rOvertaken' = rOvertaken
      BY <1>3 DEF Row!Increment
    <2>3. RestartsForward => RestartsForward'
      BY <1>typed, <2>1, <2>2 DEF RestartsForward, Row!Answer
    <2>4. QED
      BY <1>typed, <2>1, <2>2, <2>3, <1>answer DEF RowInv
  <1>4. ASSUME NEW t \in Thread, Row!IncrementFails(t)
        PROVE  RowInv' /\ (~rTurnedBack' => NewIsLatest)
    <2>1. RowTyped' /\ (RestartsForward => RestartsForward')
      BY <1>typed, <1>4 DEF Row!IncrementFails, RestartsForward
    <2>2. RowKept
      BY <1>4 DEF RowKept, Row!IncrementFails
    <2>3. QED
      BY <2>1, <2>2, <1>quiet
  <1>5. ASSUME NEW t \in Thread, Row!Restart(t)
        PROVE  RowInv' /\ (~rTurnedBack' => NewIsLatest)
    <2>1. Row!Answer(t, 1) /\ rTimestamp[t] # rLast /\ rPc[t] = "restart"
      BY <1>5 DEF Row!Restart, Row!OtherCycle
    <2>2. RestartsForward'
      BY <1>typed, <1>5 DEF RestartsForward, Row!Restart, Row!Answer
    <2>3. ASSUME ~rTurnedBack'
          PROVE  ~rTurnedBack /\ ~(t \in rOvertaken /\ rTimestamp[t] < rLast)
      BY <1>5, <2>3 DEF Row!Restart
    <2>4. ASSUME ~rTurnedBack' PROVE rTimestamp[t] > rLast
      BY <1>typed, <2>1, <2>3, <2>4 DEF RowInv, RestartsForward
    <2>5. QED
      BY <2>1, <2>2, <2>3, <2>4, <1>answer
  <1>6. ASSUME NEW t \in Thread, Row!RestartFails(t)
        PROVE  RowInv' /\ (~rTurnedBack' => NewIsLatest)
    <2>1. RowTyped' /\ (RestartsForward => RestartsForward')
      BY <1>typed, <1>6 DEF Row!RestartFails, RestartsForward
    <2>2. RowKept
      BY <1>6 DEF RowKept, Row!RestartFails
    <2>3. QED
      BY <2>1, <2>2, <1>quiet
  <1>7. ASSUME NEW t \in Thread, Row!Wake(t)
        PROVE  RowInv' /\ (~rTurnedBack' => NewIsLatest)
    <2>1. RowTyped' /\ (RestartsForward => RestartsForward')
      BY <1>typed, <1>7 DEF Row!Wake, RestartsForward
    <2>2. RowKept
      BY <1>7 DEF RowKept, Row!Wake
    <2>3. QED
      BY <2>1, <2>2, <1>quiet
  <1>8. ASSUME NEW t \in Thread, Row!Crash(t)
        PROVE  RowInv' /\ (~rTurnedBack' => NewIsLatest)
    <2>1. RowTyped' /\ (RestartsForward => RestartsForward')
      BY <1>typed, <1>8 DEF Row!Crash, RestartsForward
    <2>2. RowKept
      BY <1>8 DEF RowKept, Row!Crash
    <2>3. QED
      BY <2>1, <2>2, <1>quiet
  <1>9. CASE Row!ClockMoves
    <2>1. RowTyped' /\ (RestartsForward => RestartsForward')
      BY <1>typed, <1>9, NumberGeneratorsAssumption DEF Row!ClockMoves, RestartsForward
    <2>2. RowKept
      BY <1>9 DEF RowKept, Row!ClockMoves
    <2>3. QED
      BY <2>1, <2>2, <1>quiet
  <1>10. CASE UNCHANGED rowVars
    <2>1. RowTyped' /\ (RestartsForward => RestartsForward')
      BY <1>typed, <1>10 DEF rowVars, RestartsForward
    <2>2. RowKept
      BY <1>10 DEF RowKept, rowVars
    <2>3. QED
      BY <2>1, <2>2, <1>quiet
  <1>11. QED
    BY <1>1, <1>2, <1>3, <1>4, <1>5, <1>6, <1>7, <1>8, <1>9, <1>10 DEF Row!Next

-----------------------------------------------------------------------------
(* The sequence object of the database                                     *)

DatabaseTyped ==
    /\ dSeq \in Int /\ dLast \in Int /\ dClock \in Int /\ dCrashes \in Nat
    /\ dPc \in [Thread -> {"idle", "query", "update", "lock", "restart", "requery",
                           "commit", "sleep"}]
    /\ dNow \in [Thread -> Int]
    /\ dResult \in [Thread -> Int \X Int]
    /\ dIssued \subseteq Int \X Int /\ dAnswers \in Int
    /\ dBefore \in [Thread -> SUBSET dIssued]
    /\ dRow \in Thread \cup {NoOne}
    /\ \A t \in Thread : dPc[t] \in {"restart", "requery", "commit"} <=> dRow = t

\* In steady use the clock and the times read from it are at most one cycle
\* ahead of the row, and just one while a call turns the cycle.
OneAhead ==
    /\ dClock <= dLast + 1
    /\ \A t \in Thread :
         /\ dNow[t] <= dLast + 1
         /\ dRow = t => dNow[t] = dLast + 1 /\ dClock = dLast + 1
         /\ dPc[t] = "update" => dNow[t] <= dLast /\ dResult[t][1] = dNow[t]
         /\ dPc[t] = "commit" => dResult[t][1] = dNow[t] /\ dResult[t][2] <= dSeq

\* The sequence may still serve the cycle of the row.  It may not once it was
\* restarted, and then the clock is ahead of the row and stays so.
Serves == \/ dClock <= dLast
          \/ dCrashes = 0 /\ \A t \in Thread : dPc[t] \notin {"requery", "commit"}

\* A number that was given, or is about to be.
Spent(b) == /\ b[1] <= dLast
            /\ Serves /\ b[1] = dLast => b[2] <= dSeq

NumbersSpent == /\ \A b \in dIssued : Spent(b)
                /\ \A t \in Thread : dPc[t] = "update" => Spent(dResult[t])

NumbersApart ==
    \A t \in Thread : dPc[t] = "update" =>
        /\ dResult[t] \notin dIssued
        /\ \A u \in Thread : dPc[u] = "update" /\ dResult[u] = dResult[t] => u = t
        /\ \A b \in dBefore[t] : Database!Less(b, dResult[t])

AnswersCounted == IsFiniteSet(dIssued) /\ Cardinality(dIssued) = dAnswers

DatabaseInv == /\ DatabaseTyped /\ OneAhead
               /\ NumbersSpent /\ NumbersApart /\ AnswersCounted

LEMMA DatabaseInit == Database!Init => DatabaseInv
  <1> SUFFICES ASSUME Database!Init PROVE DatabaseInv
    OBVIOUS
  <1> USE DEF Database!Init
  <1>1. DatabaseTyped
    BY NumberGeneratorsAssumption DEF DatabaseTyped
  <1>2. OneAhead
    BY NumberGeneratorsAssumption DEF OneAhead
  <1>3. NumbersSpent /\ NumbersApart
    BY DEF NumbersSpent, NumbersApart
  <1>4. AnswersCounted
    BY FS_EmptySet DEF AnswersCounted
  <1>5. QED
    BY <1>1, <1>2, <1>3, <1>4 DEF DatabaseInv

\* What a step promises: the row does not go back, and an answer is later than
\* those that were given before its call began.
DatabaseOrder ==
    /\ dLast' >= dLast
    /\ \A t \in Thread : dAnswers' > dAnswers /\ dPc[t] # dPc'[t]
          => \A b \in dBefore[t] : Database!Less(b, dResult[t])

\* A number not given yet counts as one answer more.
LEMMA DatabaseAnswer ==
  ASSUME DatabaseTyped, AnswersCounted, NEW t \in Thread, Database!Answer(t),
         dResult[t] \notin dIssued
  PROVE  AnswersCounted'
  <1>1. /\ IsFiniteSet(dIssued \cup {dResult[t]})
        /\ Cardinality(dIssued \cup {dResult[t]}) = Cardinality(dIssued) + 1
    BY FS_AddElement DEF AnswersCounted
  <1>2. dIssued' = dIssued \cup {dResult[t]} /\ dAnswers' = dAnswers + 1
    BY DEF Database!Answer
  <1>3. QED
    BY <1>1, <1>2 DEF AnswersCounted

\* Type correctness, and that the clock stays near the row.
LEMMA DatabaseClock == ASSUME DatabaseTyped, OneAhead, [Database!Next]_databaseVars
                       PROVE  DatabaseTyped' /\ OneAhead' /\ dLast' >= dLast
  <1> USE NumberGeneratorsAssumption
      DEF DatabaseTyped, OneAhead, Database!Goto, Database!call
  <1>1. ASSUME NEW t \in Thread, Database!Call(t)
        PROVE  DatabaseTyped' /\ OneAhead' /\ dLast' >= dLast
    BY <1>1 DEF Database!Call
  <1>2. ASSUME NEW t \in Thread, Database!Query(t)
        PROVE  DatabaseTyped' /\ OneAhead' /\ dLast' >= dLast
    BY <1>2 DEF Database!Query, Database!Current
  <1>3. ASSUME NEW t \in Thread, Database!Update(t)
        PROVE  DatabaseTyped' /\ OneAhead' /\ dLast' >= dLast
    BY <1>3 DEF Database!Update, Database!Answer
  <1>4. ASSUME NEW t \in Thread, Database!UpdateFails(t) \/ Database!LockInVain(t)
        PROVE  DatabaseTyped' /\ OneAhead' /\ dLast' >= dLast
    BY <1>4 DEF Database!UpdateFails, Database!LockInVain, Database!Retry
  <1>5. ASSUME NEW t \in Thread, Database!Lock(t)
        PROVE  DatabaseTyped' /\ OneAhead' /\ dLast' >= dLast
    <2>1. dNow[t] = dLast + 1 /\ dClock = dLast + 1
      BY <1>5 DEF Database!Lock, Database!MayTurn, Database!Current
    <2>2. DatabaseTyped' /\ dLast' = dLast
      BY <1>5 DEF Database!Lock
    <2>3. OneAhead'
      BY <1>5, <2>1 DEF Database!Lock
    <2>4. QED
      BY <2>2, <2>3
  <1>6. ASSUME NEW t \in Thread, Database!RestartSequence(t)
        PROVE  DatabaseTyped' /\ OneAhead' /\ dLast' >= dLast
    BY <1>6 DEF Database!RestartSequence
  <1>7. ASSUME NEW t \in Thread, Database!Requery(t)
        PROVE  DatabaseTyped' /\ OneAhead' /\ dLast' >= dLast
    BY <1>7 DEF Database!Requery, Database!Current
  <1>8. ASSUME NEW t \in Thread, Database!Commit(t)
        PROVE  DatabaseTyped' /\ OneAhead' /\ dLast' >= dLast
    BY <1>8 DEF Database!Commit, Database!Answer
  <1>9. ASSUME NEW t \in Thread, Database!Wake(t)
        PROVE  DatabaseTyped' /\ OneAhead' /\ dLast' >= dLast
    BY <1>9 DEF Database!Wake
  <1>10. ASSUME NEW t \in Thread, Database!Crash(t)
         PROVE  DatabaseTyped' /\ OneAhead' /\ dLast' >= dLast
    BY <1>10 DEF Database!Crash
  <1>11. CASE Database!ClockMoves
    BY <1>11 DEF Database!ClockMoves
  <1>12. CASE UNCHANGED databaseVars
    BY <1>12 DEF databaseVars
  <1>13. QED
    BY <1>1, <1>2, <1>3, <1>4, <1>5, <1>6, <1>7, <1>8, <1>9, <1>10, <1>11, <1>12
       DEF Database!Next

\* Every step preserves the invariant and keeps the order.
LEMMA DatabaseStep == ASSUME DatabaseInv, [Database!Next]_databaseVars
                      PROVE  DatabaseInv' /\ DatabaseOrder
  <1> USE DEF Database!Goto, Database!call
  <1>typed. /\ DatabaseTyped /\ OneAhead /\ DatabaseTyped' /\ OneAhead'
            /\ dLast' >= dLast
    BY DatabaseClock DEF DatabaseInv
  \* Steps that give no number and find no new one to give.
  <1>quiet. ASSUME dLast' = dLast, dIssued' = dIssued, dAnswers' = dAnswers,
                   Serves' => Serves /\ dSeq' >= dSeq,
                   \A u \in Thread : dPc'[u] = "update" =>
                      /\ dPc[u] = "update" /\ dResult'[u] = dResult[u]
                      /\ dBefore'[u] = dBefore[u]
            PROVE  DatabaseInv' /\ DatabaseOrder
    <2>1. NumbersSpent'
      BY <1>typed, <1>quiet DEF DatabaseInv, NumbersSpent, Spent, DatabaseTyped
    <2>2. NumbersApart'
      BY <1>quiet DEF DatabaseInv, NumbersApart
    <2>3. AnswersCounted' /\ DatabaseOrder
      BY <1>typed, <1>quiet DEF DatabaseInv, AnswersCounted, DatabaseOrder, DatabaseTyped
    <2>4. QED
      BY <1>typed, <2>1, <2>2, <2>3 DEF DatabaseInv
  <1>1. ASSUME NEW t \in Thread, Database!Call(t) PROVE DatabaseInv' /\ DatabaseOrder
    <2>1. Serves' => Serves /\ dSeq' >= dSeq
      BY <1>typed, <1>1 DEF Database!Call, Serves, DatabaseTyped
    <2>2. QED
      BY <1>typed, <1>1, <1>quiet, <2>1 DEF Database!Call, DatabaseTyped
  \* A number that is to be given comes after all of the row's cycle.
  <1>2. ASSUME NEW t \in Thread, Database!Query(t) PROVE DatabaseInv' /\ DatabaseOrder
    <2>1. Serves' => Serves /\ dSeq' >= dSeq
      BY <1>typed, <1>2 DEF Database!Query, Serves, DatabaseTyped
    <2>2. /\ dLast' = dLast /\ dIssued' = dIssued /\ dAnswers' = dAnswers
          /\ dBefore' = dBefore
          /\ \A u \in Thread : u # t => dPc'[u] = dPc[u] /\ dResult'[u] = dResult[u]
      BY <1>typed, <1>2 DEF Database!Query, DatabaseTyped
    <2>3. CASE dLast = Database!Current(dLast)
      <3>1. Serves
        BY <1>typed, <2>3 DEF Serves, Database!Current, DatabaseTyped
      <3>2. dResult'[t] = <<dLast, dSeq + 1>> /\ dSeq' = dSeq + 1
        BY <1>typed, <1>2, <2>3 DEF Database!Query, DatabaseTyped
      <3>3. ASSUME NEW b \in Int \X Int, Spent(b)
            PROVE  b # <<dLast, dSeq + 1>> /\ Database!Less(b, <<dLast, dSeq + 1>>)
        <4>1. b[1] \in Int /\ b[2] \in Int /\ dLast \in Int /\ dSeq \in Int
          BY <1>typed, <3>3 DEF DatabaseTyped
        <4>2. b[1] < dLast \/ (b[1] = dLast /\ b[2] < dSeq + 1)
          BY <3>1, <3>3, <4>1 DEF Spent
        <4>3. QED
          BY <4>1, <4>2 DEF Database!Less
      <3>4. NumbersSpent'
        <4>1. ASSUME NEW b \in Int \X Int, Spent(b) PROVE Spent(b)'
          BY <1>typed, <2>1, <2>2, <4>1 DEF Spent, DatabaseTyped
        <4>2. Spent(dResult[t])'
          BY <1>typed, <2>2, <3>2 DEF Spent, DatabaseTyped
        <4>3. \A b \in dIssued' : Spent(b)'
          BY <1>typed, <2>2, <4>1 DEF DatabaseInv, NumbersSpent, DatabaseTyped
        <4>4. ASSUME NEW u \in Thread, dPc'[u] = "update" PROVE Spent(dResult[u])'
          <5>1. CASE u = t
            BY <4>2, <5>1
          <5>2. CASE u # t
            <6>1. dPc[u] = "update" /\ dResult'[u] = dResult[u] /\ dResult[u] \in Int \X Int
              BY <1>typed, <2>2, <4>4, <5>2 DEF DatabaseTyped
            <6>2. Spent(dResult[u])
              BY <6>1 DEF DatabaseInv, NumbersSpent
            <6>3. QED
              BY <1>typed, <2>1, <2>2, <6>1, <6>2 DEF Spent, DatabaseTyped
          <5>3. QED
            BY <5>1, <5>2
        <4>5. QED
          BY <4>3, <4>4 DEF NumbersSpent
      <3>5. NumbersApart'
        <4>1. /\ \A b \in dIssued : b # dResult'[t] /\ Database!Less(b, dResult'[t])
              /\ \A u \in Thread : dPc[u] = "update" => dResult[u] # dResult'[t]
          BY <1>typed, <3>2, <3>3 DEF DatabaseInv, NumbersSpent, DatabaseTyped
        <4>2. \A b \in dBefore[t] : b \in dIssued
          BY <1>typed DEF DatabaseTyped
        <4>3. QED
          BY <2>2, <4>1, <4>2 DEF DatabaseInv, NumbersApart
      <3>6. AnswersCounted' /\ DatabaseOrder
        BY <1>typed, <2>2 DEF DatabaseInv, AnswersCounted, DatabaseOrder, DatabaseTyped
      <3>7. QED
        BY <1>typed, <3>4, <3>5, <3>6 DEF DatabaseInv
    <2>4. CASE dLast # Database!Current(dLast)
      <3>1. dPc'[t] # "update"
        BY <1>typed, <1>2, <2>4 DEF Database!Query, DatabaseTyped
      <3>2. QED
        BY <1>quiet, <2>1, <2>2, <3>1
    <2>5. QED
      BY <2>3, <2>4
  \* The number read is given, if its cycle is still that of the row.
  <1>3. ASSUME NEW t \in Thread, Database!Update(t) PROVE DatabaseInv' /\ DatabaseOrder
    <2>1. /\ dPc[t] = "update" /\ dPc'[t] = "idle"
          /\ dIssued' = dIssued \cup {dResult[t]}
          /\ dResult' = dResult /\ dSeq' = dSeq /\ dBefore' = dBefore
          /\ \A u \in Thread : u # t => dPc'[u] = dPc[u]
      BY <1>typed, <1>3 DEF Database!Update, Database!Answer, DatabaseTyped
    <2>2. dLast' = dLast
      <3>1. dLast' = dNow[t] /\ dLast <= dNow[t]
        BY <1>3 DEF Database!Update
      <3>2. dNow[t] <= dLast /\ dNow[t] \in Int /\ dLast \in Int
        BY <1>typed, <2>1 DEF DatabaseTyped, OneAhead
      <3>3. QED
        BY <3>1, <3>2
    <2>3. Serves' => Serves
      BY <1>typed, <1>3, <2>1, <2>2 DEF Database!Update, Database!Answer, Serves
    <2>4. NumbersSpent'
      BY <1>typed, <2>1, <2>2, <2>3 DEF DatabaseInv, NumbersSpent, Spent
    <2>5. NumbersApart'
      BY <2>1 DEF DatabaseInv, NumbersApart
    <2>6. AnswersCounted'
      BY <1>typed, <1>3, <2>1, DatabaseAnswer DEF DatabaseInv, NumbersApart, Database!Update
    <2>7. DatabaseOrder
      BY <1>typed, <2>1 DEF DatabaseInv, NumbersApart, DatabaseOrder
    <2>8. QED
      BY <1>typed, <2>4, <2>5, <2>6, <2>7 DEF DatabaseInv
  <1>4. ASSUME NEW t \in Thread, Database!UpdateFails(t) \/ Database!LockInVain(t)
        PROVE DatabaseInv' /\ DatabaseOrder
    <2>1. Serves' => Serves /\ dSeq' >= dSeq
      BY <1>typed, <1>4 DEF Database!UpdateFails, Database!LockInVain, Database!Retry,
         Serves, DatabaseTyped
    <2>2. QED
      BY <1>typed, <1>4, <1>quiet, <2>1
         DEF Database!UpdateFails, Database!LockInVain, Database!Retry, DatabaseTyped
  <1>5. ASSUME NEW t \in Thread, Database!Lock(t) PROVE DatabaseInv' /\ DatabaseOrder
    <2>1. Serves' => Serves /\ dSeq' >= dSeq
      BY <1>typed, <1>5 DEF Database!Lock, Serves, DatabaseTyped
    <2>2. QED
      BY <1>typed, <1>5, <1>quiet, <2>1 DEF Database!Lock, DatabaseTyped
  \* From here on the sequence serves the next cycle.
  <1>6. ASSUME NEW t \in Thread, Database!RestartSequence(t)
        PROVE DatabaseInv' /\ DatabaseOrder
    <2>1. ~Serves'
      BY <1>typed, <1>6 DEF Database!RestartSequence, Serves, DatabaseTyped, OneAhead
    <2>2. QED
      BY <1>typed, <1>6, <1>quiet, <2>1 DEF Database!RestartSequence, DatabaseTyped
  <1>7. ASSUME NEW t \in Thread, Database!Requery(t) PROVE DatabaseInv' /\ DatabaseOrder
    <2>1. Serves' => Serves /\ dSeq' >= dSeq
      BY <1>typed, <1>7 DEF Database!Requery, Serves, DatabaseTyped
    <2>2. QED
      BY <1>typed, <1>7, <1>quiet, <2>1 DEF Database!Requery, DatabaseTyped
  \* The number read under the lock is the first of its cycle to be given.
  <1>8. ASSUME NEW t \in Thread, Database!Commit(t) PROVE DatabaseInv' /\ DatabaseOrder
    <2>1. /\ dPc[t] = "commit" /\ dPc'[t] = "idle" /\ dRow = t
          /\ dIssued' = dIssued \cup {dResult[t]}
          /\ dResult' = dResult /\ dSeq' = dSeq /\ dBefore' = dBefore
          /\ \A u \in Thread : u # t => dPc'[u] = dPc[u]
      BY <1>typed, <1>8 DEF Database!Commit, Database!Answer, DatabaseTyped
    <2>2. /\ dLast' = dLast + 1
          /\ dResult[t][1] = dLast + 1 /\ dResult[t][2] <= dSeq
      BY <1>typed, <1>8, <2>1 DEF Database!Commit, DatabaseTyped, OneAhead
    <2>3. /\ \A b \in dIssued : b[1] <= dLast /\ b \in Int \X Int
          /\ \A u \in Thread : dPc[u] = "update" => dResult[u][1] <= dLast
      BY <1>typed DEF DatabaseInv, NumbersSpent, Spent, DatabaseTyped
    <2>4. dResult[t] \notin dIssued
      BY <1>typed, <2>2, <2>3 DEF DatabaseTyped
    <2>5. NumbersSpent'
      BY <1>typed, <2>1, <2>2, <2>3 DEF NumbersSpent, Spent, DatabaseTyped
    <2>6. NumbersApart'
      <3>1. \A u \in Thread : dPc'[u] = "update" => dPc[u] = "update" /\ dResult[u] # dResult[t]
        BY <1>typed, <2>1, <2>2, <2>3 DEF DatabaseTyped
      <3>2. QED
        BY <2>1, <3>1 DEF DatabaseInv, NumbersApart
    <2>7. AnswersCounted'
      BY <1>typed, <1>8, <2>4, DatabaseAnswer DEF DatabaseInv, Database!Commit
    <2>8. \A b \in dBefore[t] : Database!Less(b, dResult[t])
      <3>1. \A b \in dBefore[t] : b \in dIssued
        BY <1>typed DEF DatabaseTyped
      <3>2. QED
        BY <1>typed, <2>2, <2>3, <3>1 DEF Database!Less, DatabaseTyped
    <2>9. DatabaseOrder
      BY <1>typed, <2>1, <2>8 DEF DatabaseOrder
    <2>10. QED
      BY <1>typed, <2>5, <2>6, <2>7, <2>9 DEF DatabaseInv
  <1>9. ASSUME NEW t \in Thread, Database!Wake(t) PROVE DatabaseInv' /\ DatabaseOrder
    <2>1. Serves' => Serves /\ dSeq' >= dSeq
      BY <1>typed, <1>9 DEF Database!Wake, Serves, DatabaseTyped
    <2>2. QED
      BY <1>typed, <1>9, <1>quiet, <2>1 DEF Database!Wake, DatabaseTyped
  \* A call that dies with a restart half done leaves the clock ahead.
  <1>10. ASSUME NEW t \in Thread, Database!Crash(t) PROVE DatabaseInv' /\ DatabaseOrder
    <2>1. Serves' => Serves /\ dSeq' >= dSeq
      BY <1>typed, <1>10 DEF Database!Crash, Serves, DatabaseTyped
    <2>2. QED
      BY <1>typed, <1>10, <1>quiet, <2>1 DEF Database!Crash, DatabaseTyped
  <1>11. CASE Database!ClockMoves
    <2>1. /\ dLast' = dLast /\ dIssued' = dIssued /\ dAnswers' = dAnswers
          /\ dSeq' = dSeq /\ dPc' = dPc /\ dCrashes' = dCrashes /\ dRow' = dRow
          /\ dResult' = dResult /\ dBefore' = dBefore
      BY <1>11 DEF Database!ClockMoves
    <2>2. dClock' < dClock => dCrashes = 0 /\ dRow = NoOne
      BY <1>typed, <1>11, NumberGeneratorsAssumption DEF Database!ClockMoves, DatabaseTyped
    <2>3. Serves' => Serves
      BY <1>typed, <2>1, <2>2, NumberGeneratorsAssumption DEF Serves, DatabaseTyped
    <2>4. QED
      BY <1>typed, <1>quiet, <2>1, <2>3 DEF DatabaseTyped
  <1>12. CASE UNCHANGED databaseVars
    <2>1. Serves' => Serves /\ dSeq' >= dSeq
      BY <1>typed, <1>12 DEF databaseVars, Serves, DatabaseTyped
    <2>2. QED
      BY <1>typed, <1>12, <1>quiet, <2>1 DEF databaseVars, DatabaseTyped
  <1>13. QED
    BY <1>1, <1>2, <1>3, <1>4, <1>5, <1>6, <1>7, <1>8, <1>9, <1>10, <1>11, <1>12
       DEF Database!Next

-----------------------------------------------------------------------------
(* The segments of the simple sequence                                     *)

Callers == DOMAIN Home

LEMMA HomeType == \A t \in Callers : Home[t] \in Segment!Instance
  BY DEF Segment!Instance, Callers

InLock == {"fetch", "max", "next", "read", "write", "return"}

\* The threads inside nextLongValue hold the lock of their instance.
SegmentTyped ==
    /\ gValue \in Int /\ gEra \in Int
    /\ gNextId \in [Segment!Instance -> Int] /\ gMaxId \in [Segment!Instance -> Int]
    /\ gSegmentEra \in [Segment!Instance -> Int]
    /\ gPc \in [Callers -> InLock \cup {"idle", "restartNext", "restartMax"}]
    /\ gRead \in [Callers -> Int]
    /\ gIssued \subseteq Int \X Int
    /\ gLock \subseteq Callers
    /\ \A t \in Callers : t \in gLock <=> gPc[t] \in InLock
    /\ \A t, u \in Callers : t \in gLock /\ u \in gLock /\ Home[t] = Home[u] => t = u

\* What the two fields are at the places of the code, as long as no restart
\* overlaps a call.
SegmentFields ==
    /\ \A t, u \in Callers :
         t \in gLock /\ Home[u] = Home[t] => gPc[u] # "restartMax"
    /\ \A t \in Callers :
         /\ gPc[t] = "restartMax" => gNextId[Home[t]] = 0
         /\ gPc[t] = "fetch" => gNextId[Home[t]] = gMaxId[Home[t]]
         /\ gPc[t] \in {"read", "write"} => gNextId[Home[t]] < gMaxId[Home[t]]
         /\ gPc[t] = "write" => gRead[t] = gNextId[Home[t]]
         /\ gPc[t] = "return" => gNextId[Home[t]] <= gMaxId[Home[t]]
    /\ \A i \in Segment!Instance :
         (\A t \in Callers : Home[t] = i => gPc[t] \notin InLock \cup {"restartMax"})
            => gNextId[i] <= gMaxId[i]

LEMMA SegmentLocal ==
  ASSUME SegmentTyped, ~gOverlapped => SegmentFields, [Segment!Next]_segmentVars
  PROVE  SegmentTyped' /\ (~gOverlapped' => ~gOverlapped /\ SegmentFields')
  <1> USE NumberGeneratorsAssumption, HomeType
      DEF SegmentTyped, InLock, Segment!Goto
  <1>1. ASSUME NEW t \in Callers, Segment!Enter(t)
        PROVE  SegmentTyped' /\ (~gOverlapped' => ~gOverlapped /\ SegmentFields')
    <2>1. SegmentTyped'
      BY <1>1 DEF Segment!Enter, Segment!Free, Segment!Busy
    <2>2. ASSUME ~gOverlapped'
          PROVE  ~gOverlapped /\ ~Segment!Emptying(Home[t])
      BY <1>1, <2>2 DEF Segment!Enter
    <2>3. ASSUME ~gOverlapped' PROVE SegmentFields'
      <3>1. SegmentFields /\ \A u \in Callers : Home[u] = Home[t] => gPc[u] # "restartMax"
        BY <2>2, <2>3 DEF Segment!Emptying, Callers
      <3>2. \A u \in Callers : Home[u] = Home[t] => u \notin gLock
        BY <1>1 DEF Segment!Enter, Segment!Free, Segment!Busy
      <3>3. gNextId[Home[t]] <= gMaxId[Home[t]]
        BY <3>1, <3>2 DEF SegmentFields
      <3>4. QED
        BY <1>1, <3>1, <3>2, <3>3 DEF SegmentFields, Segment!Enter
    <2>4. QED
      BY <2>1, <2>2, <2>3
  <1>2. ASSUME NEW t \in Callers, Segment!Fetch(t)
        PROVE  SegmentTyped' /\ (~gOverlapped' => ~gOverlapped /\ SegmentFields')
    <2>1. SegmentTyped' /\ (gOverlapped' <=> gOverlapped)
      BY <1>2 DEF Segment!Fetch
    <2>2. SegmentFields => SegmentFields'
      BY <1>2 DEF SegmentFields, Segment!Fetch
    <2>3. QED
      BY <2>1, <2>2
  <1>3. ASSUME NEW t \in Callers, Segment!FetchFails(t)
        PROVE  SegmentTyped' /\ (~gOverlapped' => ~gOverlapped /\ SegmentFields')
    <2>1. SegmentTyped' /\ (gOverlapped' <=> gOverlapped)
      BY <1>3 DEF Segment!FetchFails
    <2>2. SegmentFields => SegmentFields'
      BY <1>3 DEF SegmentFields, Segment!FetchFails
    <2>3. QED
      BY <2>1, <2>2
  <1>4. ASSUME NEW t \in Callers, Segment!SetMax(t)
        PROVE  SegmentTyped' /\ (~gOverlapped' => ~gOverlapped /\ SegmentFields')
    <2>1. SegmentTyped' /\ (gOverlapped' <=> gOverlapped)
      BY <1>4 DEF Segment!SetMax
    <2>2. SegmentFields => SegmentFields'
      BY <1>4 DEF SegmentFields, Segment!SetMax
    <2>3. QED
      BY <2>1, <2>2
  <1>5. ASSUME NEW t \in Callers, Segment!SetNext(t)
        PROVE  SegmentTyped' /\ (~gOverlapped' => ~gOverlapped /\ SegmentFields')
    <2>1. SegmentTyped' /\ (gOverlapped' <=> gOverlapped)
      BY <1>5 DEF Segment!SetNext, Segment!FirstId
    <2>2. SegmentFields => SegmentFields'
      BY <1>5 DEF SegmentFields, Segment!SetNext, Segment!FirstId
    <2>3. QED
      BY <2>1, <2>2
  <1>6. ASSUME NEW t \in Callers, Segment!ReadNext(t)
        PROVE  SegmentTyped' /\ (~gOverlapped' => ~gOverlapped /\ SegmentFields')
    <2>1. SegmentTyped' /\ (gOverlapped' <=> gOverlapped)
      BY <1>6 DEF Segment!ReadNext
    <2>2. SegmentFields => SegmentFields'
      BY <1>6 DEF SegmentFields, Segment!ReadNext
    <2>3. QED
      BY <2>1, <2>2
  <1>7. ASSUME NEW t \in Callers, Segment!WriteNext(t)
        PROVE  SegmentTyped' /\ (~gOverlapped' => ~gOverlapped /\ SegmentFields')
    <2>1. SegmentTyped' /\ (gOverlapped' <=> gOverlapped)
      BY <1>7 DEF Segment!WriteNext
    <2>2. SegmentFields => SegmentFields'
      BY <1>7 DEF SegmentFields, Segment!WriteNext
    <2>3. QED
      BY <2>1, <2>2
  <1>8. ASSUME NEW t \in Callers, Segment!Return(t)
        PROVE  SegmentTyped' /\ (~gOverlapped' => ~gOverlapped /\ SegmentFields')
    <2>1. SegmentTyped' /\ (gOverlapped' <=> gOverlapped)
      BY <1>8 DEF Segment!Return
    <2>2. SegmentFields => SegmentFields'
      BY <1>8 DEF SegmentFields, Segment!Return
    <2>3. QED
      BY <2>1, <2>2
  <1>9. ASSUME NEW t \in Callers, Segment!Restart(t)
        PROVE  SegmentTyped' /\ (~gOverlapped' => ~gOverlapped /\ SegmentFields')
    <2>1. SegmentTyped' /\ (gOverlapped' <=> gOverlapped)
      BY <1>9 DEF Segment!Restart
    <2>2. SegmentFields => SegmentFields'
      BY <1>9 DEF SegmentFields, Segment!Restart
    <2>3. QED
      BY <2>1, <2>2
  <1>10. ASSUME NEW t \in Callers, Segment!RestartNext(t)
         PROVE  SegmentTyped' /\ (~gOverlapped' => ~gOverlapped /\ SegmentFields')
    <2>1. SegmentTyped'
      BY <1>10 DEF Segment!RestartNext
    <2>2. ASSUME ~gOverlapped' PROVE ~gOverlapped /\ ~Segment!Busy(Home[t])
      BY <1>10, <2>2 DEF Segment!RestartNext
    <2>3. ASSUME ~gOverlapped' PROVE SegmentFields'
      <3>1. SegmentFields /\ \A u \in Callers : Home[u] = Home[t] => u \notin gLock
        BY <2>2, <2>3 DEF Segment!Busy
      <3>2. QED
        BY <1>10, <3>1 DEF SegmentFields, Segment!RestartNext
    <2>4. QED
      BY <2>1, <2>2, <2>3
  <1>11. ASSUME NEW t \in Callers, Segment!RestartMax(t)
         PROVE  SegmentTyped' /\ (~gOverlapped' => ~gOverlapped /\ SegmentFields')
    <2>1. SegmentTyped' /\ (gOverlapped' <=> gOverlapped)
      BY <1>11 DEF Segment!RestartMax
    <2>2. SegmentFields => SegmentFields'
      BY <1>11 DEF SegmentFields, Segment!RestartMax
    <2>3. QED
      BY <2>1, <2>2
  <1>12. CASE UNCHANGED segmentVars
    <2>1. SegmentTyped' /\ (gOverlapped' <=> gOverlapped)
      BY <1>12 DEF segmentVars
    <2>2. SegmentFields => SegmentFields'
      BY <1>12 DEF SegmentFields, segmentVars
    <2>3. QED
      BY <2>1, <2>2
  <1>13. QED
    BY <1>1, <1>2, <1>3, <1>4, <1>5, <1>6, <1>7, <1>8, <1>9, <1>10, <1>11, <1>12
       DEF Segment!Next, Callers

\* The number n is still to be given from the segment of instance i.
ToGive(i, n) ==
    /\ \A t \in Callers : Home[t] = i => gPc[t] # "restartMax"
    /\ \/ \E t \in Callers : /\ Home[t] = i /\ gPc[t] = "max"
                             /\ gRead[t] - cacheSize < n /\ n <= gRead[t]
       \/ \E t \in Callers : /\ Home[t] = i /\ gPc[t] = "next"
                             /\ gMaxId[i] - cacheSize < n /\ n <= gMaxId[i]
       \/ \E t \in Callers : /\ Home[t] = i /\ gPc[t] = "return"
                             /\ gNextId[i] <= n /\ n <= gMaxId[i]
       \/ /\ \A t \in Callers : Home[t] = i => gPc[t] \notin {"fetch", "max", "next", "return"}
          /\ gNextId[i] < n /\ n <= gMaxId[i]

\* Numbers given or to be given lie within what the row has handed out.
WithinRow ==
    /\ \A b \in gIssued : b[1] <= gEra /\ (b[1] = gEra => b[2] <= gValue)
    /\ \A i \in Segment!Instance :
         /\ gSegmentEra[i] <= gEra
         /\ \A n \in Int : gSegmentEra[i] = gEra /\ ToGive(i, n) => n <= gValue

\* What is to be given was not given, and no other instance will give it.
SegmentsApart ==
    \A i \in Segment!Instance : \A n \in Int : ToGive(i, n) =>
        /\ <<gSegmentEra[i], n>> \notin gIssued
        /\ \A j \in Segment!Instance :
              gSegmentEra[j] = gSegmentEra[i] /\ ToGive(j, n) => j = i

SegmentInv == /\ SegmentTyped
              /\ ~gOverlapped => /\ SegmentFields /\ WithinRow /\ SegmentsApart
                                 /\ ~gRepeated

LEMMA SegmentInit == Segment!Init => SegmentInv
  <1> SUFFICES ASSUME Segment!Init PROVE SegmentInv
    OBVIOUS
  <1> USE HomeType DEF Segment!Init
  <1>1. SegmentTyped
    BY DEF SegmentTyped, InLock, Callers
  <1>2. SegmentFields
    BY DEF SegmentFields, InLock, Callers
  <1>3. \A i \in Segment!Instance, n \in Int : ~ToGive(i, n)
    BY DEF ToGive, Callers
  <1>4. WithinRow /\ SegmentsApart /\ ~gRepeated
    BY <1>3 DEF WithinRow, SegmentsApart
  <1>5. QED
    BY <1>1, <1>2, <1>4 DEF SegmentInv

\* Most steps neither give a number nor take a segment.
LEMMA SegmentKept ==
  ASSUME SegmentTyped, WithinRow, SegmentsApart, SegmentTyped',
         gIssued' = gIssued, gSegmentEra' = gSegmentEra,
         \/ gEra' = gEra /\ gValue' >= gValue
         \/ gEra' = gEra + 1,
         \A i \in Segment!Instance, n \in Int : ToGive(i, n)' => ToGive(i, n)
  PROVE  WithinRow' /\ SegmentsApart'
  <1>1. \A b \in gIssued : b[1] \in Int /\ b[2] \in Int
    BY DEF SegmentTyped
  <1>2. \A b \in gIssued' : b[1] <= gEra' /\ (b[1] = gEra' => b[2] <= gValue')
    BY <1>1 DEF WithinRow, SegmentTyped
  <1>3. ASSUME NEW i \in Segment!Instance
        PROVE  /\ gSegmentEra'[i] <= gEra'
               /\ \A n \in Int : gSegmentEra'[i] = gEra' /\ ToGive(i, n)' => n <= gValue'
    BY DEF WithinRow, SegmentTyped
  <1>4. SegmentsApart'
    BY DEF SegmentsApart
  <1>5. QED
    BY <1>2, <1>3, <1>4 DEF WithinRow

\* No other step adds a number to a segment.
LEMMA SegmentShrinks ==
  ASSUME SegmentTyped, SegmentFields, SegmentTyped', NEW t \in Callers,
         \/ Segment!Enter(t) \/ Segment!FetchFails(t) \/ Segment!SetMax(t)
         \/ Segment!SetNext(t) \/ Segment!ReadNext(t) \/ Segment!WriteNext(t)
         \/ Segment!Return(t) \/ Segment!Restart(t) \/ Segment!RestartNext(t)
         \/ Segment!RestartMax(t),
         NEW i \in Segment!Instance, NEW n \in Int, ToGive(i, n)'
  PROVE  ToGive(i, n)
  <1> USE NumberGeneratorsAssumption, HomeType
      DEF SegmentTyped, SegmentFields, InLock, Segment!Goto, ToGive
  <1>1. CASE Segment!Enter(t)
    BY <1>1 DEF Segment!Enter
  <1>2. CASE Segment!FetchFails(t)
    BY <1>2 DEF Segment!FetchFails
  <1>3. CASE Segment!SetMax(t)
    BY <1>3 DEF Segment!SetMax
  <1>4. CASE Segment!SetNext(t)
    BY <1>4 DEF Segment!SetNext, Segment!FirstId
  <1>5. CASE Segment!ReadNext(t)
    BY <1>5 DEF Segment!ReadNext
  <1>6. CASE Segment!WriteNext(t)
    BY <1>6 DEF Segment!WriteNext
  <1>7. CASE Segment!Return(t)
    BY <1>7 DEF Segment!Return
  <1>8. CASE Segment!Restart(t)
    BY <1>8 DEF Segment!Restart
  <1>9. CASE Segment!RestartNext(t)
    BY <1>9 DEF Segment!RestartNext
  <1>10. CASE Segment!RestartMax(t)
    BY <1>10 DEF Segment!RestartMax
  <1>11. QED
    BY <1>1, <1>2, <1>3, <1>4, <1>5, <1>6, <1>7, <1>8, <1>9, <1>10

\* A segment that is taken from the row is new.
LEMMA SegmentFetch ==
  ASSUME SegmentTyped, SegmentFields, WithinRow, SegmentsApart, SegmentTyped',
         NEW t \in Callers, Segment!Fetch(t)
  PROVE  WithinRow' /\ SegmentsApart'
  <1> USE NumberGeneratorsAssumption, HomeType
  <1> DEFINE h == Home[t]
  <1>1. /\ gPc[t] = "fetch" /\ gPc' = [gPc EXCEPT ![t] = "max"]
        /\ gValue' = gValue + cacheSize /\ gRead' = [gRead EXCEPT ![t] = gValue + cacheSize]
        /\ gSegmentEra' = [gSegmentEra EXCEPT ![h] = gEra]
        /\ gIssued' = gIssued /\ gEra' = gEra /\ gNextId' = gNextId /\ gMaxId' = gMaxId
        /\ h \in Segment!Instance
    BY DEF Segment!Fetch, Segment!Goto
  \* The other instances keep their segments, and this one has the new one only.
  <1>2. ASSUME NEW i \in Segment!Instance, i # h, NEW n \in Int, ToGive(i, n)'
        PROVE  ToGive(i, n) /\ gSegmentEra'[i] = gSegmentEra[i]
    BY <1>1, <1>2 DEF ToGive, SegmentTyped
  <1>3. ASSUME NEW n \in Int, ToGive(h, n)'
        PROVE  gValue < n /\ n <= gValue' /\ gSegmentEra'[h] = gEra
    <2>1. \A u \in Callers : Home[u] = h /\ u # t => gPc[u] \notin InLock
      BY <1>1 DEF SegmentTyped, InLock
    <2>2. \A u \in Callers : Home[u] = h /\ u # t => gPc'[u] \notin InLock
      BY <1>1, <2>1 DEF SegmentTyped
    <2>3. gPc'[t] = "max" /\ gRead'[t] = gValue + cacheSize
      BY <1>1 DEF SegmentTyped
    <2>4. gRead'[t] - cacheSize < n /\ n <= gRead'[t]
      BY <1>3, <2>2, <2>3 DEF ToGive, InLock
    <2>5. QED
      BY <1>1, <2>3, <2>4 DEF SegmentTyped
  <1>4. \A b \in gIssued : b[1] \in Int /\ b[2] \in Int
    BY DEF SegmentTyped
  <1>5. WithinRow'
    <2>1. \A b \in gIssued' : b[1] <= gEra' /\ (b[1] = gEra' => b[2] <= gValue')
      BY <1>1, <1>4 DEF WithinRow, SegmentTyped
    <2>2. ASSUME NEW i \in Segment!Instance
          PROVE  /\ gSegmentEra'[i] <= gEra'
                 /\ \A n \in Int : gSegmentEra'[i] = gEra' /\ ToGive(i, n)' => n <= gValue'
      BY <1>1, <1>2, <1>3 DEF WithinRow, SegmentTyped
    <2>3. QED
      BY <2>1, <2>2 DEF WithinRow
  <1>6. ASSUME NEW i \in Segment!Instance, NEW n \in Int, ToGive(i, n)'
        PROVE  /\ <<gSegmentEra'[i], n>> \notin gIssued'
               /\ \A j \in Segment!Instance :
                     gSegmentEra'[j] = gSegmentEra'[i] /\ ToGive(j, n)' => j = i
    <2>1. CASE i = h
      <3>1. gValue < n /\ gSegmentEra'[i] = gEra
        BY <1>3, <1>6, <2>1
      <3>2. <<gEra, n>> \notin gIssued
        BY <3>1 DEF WithinRow, SegmentTyped
      <3>3. ASSUME NEW j \in Segment!Instance, gSegmentEra'[j] = gEra, ToGive(j, n)', j # h
            PROVE  FALSE
        <4>1. ToGive(j, n) /\ gSegmentEra[j] = gEra
          BY <1>2, <3>3
        <4>2. n <= gValue
          BY <4>1 DEF WithinRow
        <4>3. QED
          BY <3>1, <4>2 DEF SegmentTyped
      <3>4. QED
        BY <1>1, <2>1, <3>1, <3>2, <3>3
    <2>2. CASE i # h
      <3>1. ToGive(i, n) /\ gSegmentEra'[i] = gSegmentEra[i]
        BY <1>2, <1>6, <2>2
      <3>2. ASSUME NEW j \in Segment!Instance, gSegmentEra'[j] = gSegmentEra'[i],
                   ToGive(j, n)'
            PROVE  j = i
        <4>1. CASE j = h
          <5>1. gValue < n /\ gSegmentEra[i] = gEra
            BY <1>3, <3>1, <3>2, <4>1
          <5>2. n <= gValue
            BY <3>1, <5>1 DEF WithinRow
          <5>3. QED
            BY <5>1, <5>2 DEF SegmentTyped
        <4>2. CASE j # h
          BY <1>2, <3>1, <3>2, <4>2 DEF SegmentsApart
        <4>3. QED
          BY <4>1, <4>2
      <3>3. QED
        BY <1>1, <3>1, <3>2 DEF SegmentsApart
    <2>3. QED
      BY <2>1, <2>2
  <1>7. QED
    BY <1>5, <1>6 DEF SegmentsApart

\* The number returned is the first of what its instance has to give.
LEMMA SegmentReturn ==
  ASSUME SegmentTyped, SegmentFields, WithinRow, SegmentsApart, ~gRepeated,
         SegmentTyped', NEW t \in Callers, Segment!Return(t)
  PROVE  WithinRow' /\ SegmentsApart' /\ ~gRepeated'
  <1> USE NumberGeneratorsAssumption, HomeType
  <1> DEFINE h == Home[t]
             m == gNextId[h]
  <1>1. /\ gPc[t] = "return" /\ gPc' = [gPc EXCEPT ![t] = "idle"]
        /\ gIssued' = gIssued \cup {<<gSegmentEra[h], m>>}
        /\ gValue' = gValue /\ gSegmentEra' = gSegmentEra /\ gEra' = gEra
        /\ gNextId' = gNextId /\ gMaxId' = gMaxId /\ gRead' = gRead
        /\ h \in Segment!Instance /\ m \in Int
    BY DEF Segment!Return, Segment!Goto, SegmentTyped
  <1>2. ToGive(h, m)
    BY <1>1 DEF ToGive, SegmentFields, SegmentTyped, InLock
  <1>3. \A i \in Segment!Instance, n \in Int : ToGive(i, n)' => ToGive(i, n)
    BY SegmentShrinks
  <1>4. \A n \in Int : ToGive(h, n)' => n # m
    BY <1>1 DEF ToGive, SegmentTyped, InLock
  <1>5. <<gSegmentEra[h], m>> \notin gIssued
    BY <1>1, <1>2 DEF SegmentsApart
  <1>6. ~gRepeated'
    <2>1. gIssued' # gIssued
      BY <1>1, <1>5
    <2>2. QED
      BY <2>1 DEF Segment!Return
  <1>7. WithinRow'
    <2>1. ASSUME NEW b \in gIssued' PROVE b[1] <= gEra' /\ (b[1] = gEra' => b[2] <= gValue')
      <3>1. CASE b \in gIssued
        BY <1>1, <3>1 DEF WithinRow
      <3>2. CASE b = <<gSegmentEra[h], m>>
        BY <1>1, <1>2, <3>2 DEF WithinRow
      <3>3. QED
        BY <1>1, <2>1, <3>1, <3>2
    <2>2. QED
      BY <1>1, <1>3, <2>1 DEF WithinRow
  <1>8. SegmentsApart'
    <2>1. ASSUME NEW i \in Segment!Instance, NEW n \in Int, ToGive(i, n)'
          PROVE  <<gSegmentEra[i], n>> # <<gSegmentEra[h], m>>
      <3>1. CASE i = h
        BY <1>4, <2>1, <3>1
      <3>2. CASE i # h
        BY <1>1, <1>2, <1>3, <2>1, <3>2 DEF SegmentsApart
      <3>3. QED
        BY <3>1, <3>2
    <2>2. QED
      BY <1>1, <1>3, <2>1 DEF SegmentsApart
  <1>9. QED
    BY <1>6, <1>7, <1>8

LEMMA SegmentStep == SegmentInv /\ [Segment!Next]_segmentVars => SegmentInv'
  <1> SUFFICES ASSUME SegmentInv, [Segment!Next]_segmentVars PROVE SegmentInv'
    OBVIOUS
  <1>1. SegmentTyped /\ SegmentTyped' /\ (~gOverlapped' => ~gOverlapped /\ SegmentFields')
    BY SegmentLocal DEF SegmentInv
  <1>2. SUFFICES ASSUME ~gOverlapped' PROVE WithinRow' /\ SegmentsApart' /\ ~gRepeated'
    BY <1>1 DEF SegmentInv
  <1>3. SegmentFields /\ WithinRow /\ SegmentsApart /\ ~gRepeated
    BY <1>1, <1>2 DEF SegmentInv
  <1>4. ASSUME NEW t \in Callers, Segment!Fetch(t)
        PROVE  WithinRow' /\ SegmentsApart' /\ ~gRepeated'
    <2>1. gRepeated' => gRepeated
      BY <1>4 DEF Segment!Fetch
    <2>2. QED
      BY <1>1, <1>3, <1>4, <2>1, SegmentFetch
  <1>5. ASSUME NEW t \in Callers, Segment!Return(t)
        PROVE  WithinRow' /\ SegmentsApart' /\ ~gRepeated'
    BY <1>1, <1>3, <1>5, SegmentReturn
  <1>6. ASSUME NEW t \in Callers,
               \/ Segment!Enter(t) \/ Segment!FetchFails(t) \/ Segment!SetMax(t)
               \/ Segment!SetNext(t) \/ Segment!ReadNext(t) \/ Segment!WriteNext(t)
               \/ Segment!Restart(t) \/ Segment!RestartNext(t) \/ Segment!RestartMax(t)
        PROVE  WithinRow' /\ SegmentsApart' /\ ~gRepeated'
    <2>1. /\ gIssued' = gIssued /\ gSegmentEra' = gSegmentEra
          /\ (gEra' = gEra /\ gValue' >= gValue) \/ gEra' = gEra + 1
      BY <1>1, <1>6, NumberGeneratorsAssumption
         DEF SegmentTyped, Segment!Enter, Segment!FetchFails, Segment!SetMax,
             Segment!SetNext, Segment!ReadNext, Segment!WriteNext, Segment!Restart,
             Segment!RestartNext, Segment!RestartMax
    <2>2. gRepeated' => gRepeated
      BY <1>6 DEF Segment!Enter, Segment!FetchFails, Segment!SetMax,
             Segment!SetNext, Segment!ReadNext, Segment!WriteNext, Segment!Restart,
             Segment!RestartNext, Segment!RestartMax
    <2>3. \A i \in Segment!Instance, n \in Int : ToGive(i, n)' => ToGive(i, n)
      BY <1>1, <1>3, <1>6, SegmentShrinks
    <2>4. QED
      BY <1>1, <1>3, <2>1, <2>2, <2>3, SegmentKept
  <1>7. CASE UNCHANGED segmentVars
    <2>1. /\ gIssued' = gIssued /\ gSegmentEra' = gSegmentEra
          /\ gEra' = gEra /\ gValue' >= gValue
      BY <1>1, <1>7 DEF SegmentTyped, segmentVars
    <2>2. gRepeated' => gRepeated
      BY <1>7 DEF segmentVars
    <2>3. \A i \in Segment!Instance, n \in Int : ToGive(i, n)' => ToGive(i, n)
      BY <1>7 DEF segmentVars, ToGive
    <2>4. QED
      BY <1>1, <1>3, <2>1, <2>2, <2>3, SegmentKept
  <1>8. QED
    BY <1>4, <1>5, <1>6, <1>7 DEF Segment!Next, Callers

-----------------------------------------------------------------------------
(* The composition: a step of it is a step of each generator, or none.     *)

LEMMA OneGenerator ==
  [GeneratorsNext]_allVars => /\ [Next]_vars
                              /\ [Database!Next]_databaseVars /\ [Row!Next]_rowVars
                              /\ [Segment!Next]_segmentVars /\ [Flake!Next]_flakeVars
  BY DEF GeneratorsNext, allVars

AllInv == DatabaseInv /\ RowInv /\ SegmentInv /\ FlakeInv

LEMMA AllInvariant == GeneratorsSpec => []AllInv
  <1>1. GeneratorsInit => AllInv
    BY DatabaseInit, RowInit, SegmentInit, FlakeInit DEF GeneratorsInit, AllInv
  <1>2. AllInv /\ [GeneratorsNext]_allVars => AllInv'
    BY OneGenerator, DatabaseStep, RowStep, SegmentStep, FlakeStep DEF AllInv
  <1>3. QED
    BY <1>1, <1>2, PTL DEF GeneratorsSpec

\* No number is given twice: by the sequence object of a database in steady use,
\* whatever the interleaving at a turn, by the row unless a call turns it back,
\* and from the segments of all instances unless a restart overlaps a call.
THEOREM IssuedOnceTheorem == GeneratorsSpec => []IssuedOnce
  <1>1. AllInv => IssuedOnce
    <2> SUFFICES ASSUME AllInv PROVE IssuedOnce
      OBVIOUS
    <2>1. Database!UniqueNumbers
      <3>1. Database!Cardinality(dIssued) = Cardinality(dIssued)
        BY DEF Cardinality, Database!Cardinality
      <3>2. QED
        BY <3>1 DEF AllInv, DatabaseInv, AnswersCounted, Database!UniqueNumbers
    <2>2. Row!NumbersOnce
      BY DEF AllInv, RowInv, Row!NumbersOnce
    <2>3. Segment!NumbersOnce
      BY DEF AllInv, SegmentInv, Segment!NumbersOnce
    <2>4. QED
      BY <2>1, <2>2, <2>3 DEF IssuedOnce
  <1>2. QED
    BY <1>1, AllInvariant, PTL

\* Snowflake's ids grow, for any worker, any widths of the parts of an id and
\* any clock, as long as that is not set back during a sleep.
THEOREM IdsGrowTheorem == GeneratorsSpec => []IdsGrow
  <1>1. AllInv => IdsGrow
    BY DEF AllInv, FlakeInv, IdsGrow, Flake!IdsGrow
  <1>2. QED
    BY <1>1, AllInvariant, PTL

\* A call that starts after another was answered gets a later number, from
\* every cyclic sequence, and the turns of the database's row are kept.
THEOREM NumbersInOrderTheorem ==
  ASSUME TimeMovesOn PROVE GeneratorsSpec => NumbersInOrder
  <1>1. GeneratorsSpec => Spec
    <2>1. GeneratorsInit => Init
      BY DEF GeneratorsInit
    <2>2. QED
      BY <2>1, OneGenerator, PTL DEF GeneratorsSpec, Spec
  <1>2. GeneratorsSpec => LaterCallsGetLaterNumbers
    BY <1>1, OrderTheorem, PTL
  <1>3. GeneratorsSpec => Database!LaterCallsGetLaterNumbers /\ Database!TurnsAreKept
    <2>1. DatabaseOrder => dLast' >= dLast
      BY DEF DatabaseOrder
    <2>2. DatabaseOrder => \A t \in Thread : dAnswers' > dAnswers /\ dPc[t] # dPc'[t]
                              => \A b \in dBefore[t] : Database!Less(b, dResult[t])
      BY DEF DatabaseOrder
    <2>3. AllInv /\ [GeneratorsNext]_allVars => DatabaseOrder
      BY OneGenerator, DatabaseStep DEF AllInv
    <2>4. QED
      BY <2>1, <2>2, <2>3, AllInvariant, PTL
         DEF GeneratorsSpec, Database!LaterCallsGetLaterNumbers, Database!TurnsAreKept
  <1>4. GeneratorsSpec => Row!LaterCallsGetLaterNumbers
    <2>1. AllInv /\ [GeneratorsNext]_allVars =>
            (~rTurnedBack' => \A a \in rIssued' \ rIssued : \A t \in Thread :
                rPc[t] # rPc'[t] => \A b \in rBefore[t] : Row!Less(b, a))
      <3> SUFFICES ASSUME AllInv, [GeneratorsNext]_allVars, ~rTurnedBack'
                   PROVE  \A a \in rIssued' \ rIssued : \A t \in Thread :
                             rPc[t] # rPc'[t] => \A b \in rBefore[t] : Row!Less(b, a)
        OBVIOUS
      <3>1. \A t \in Thread : \A b \in rBefore[t] : b \in rIssued
        BY DEF AllInv, RowInv, RowTyped
      <3>2. NewIsLatest
        BY OneGenerator, RowStep DEF AllInv
      <3>3. QED
        BY <3>1, <3>2 DEF NewIsLatest
    <2>2. QED
      BY <2>1, AllInvariant, PTL DEF GeneratorsSpec, Row!LaterCallsGetLaterNumbers
  <1>5. QED
    BY <1>2, <1>3, <1>4, PTL DEF NumbersInOrder
=============================================================================

------------------------- MODULE MethodGuardsProofs -------------------------
(***************************************************************************)
(* The guards of methods keep what they promise.  Over Redis the counter   *)
(* accounts for every call and the service implements Permits; on one JVM  *)
(* the map names exactly the thread that holds the lock, no unlock throws, *)
(* and lock and permits implement LockService and Permits while one is     *)
(* used inside the other.  For any number of threads, limits and calls.    *)
(***************************************************************************)
EXTENDS MethodGuards, FiniteSetTheorems, TLAPS

\* A step of one deployment is a step of its services and leaves the other's
\* state alone.
LEMMA StepOfOne == [GuardsNext]_<<deployment, vars, guardVars>>
                     => [Next]_vars /\ [Guards!Next]_Guards!vars
  BY DEF GuardsNext, guardVars, Guards!vars, Guards!lockVars, Guards!permitVars

-----------------------------------------------------------------------------
(* Permits over Redis.                                                     *)

IInv == TypeOK /\ CounterAccounts

Counted == At("body") \cup At("revert")

\* The sets of threads whose cardinalities matter are finite.
LEMMA CountedFinite == /\ IsFiniteSet(Counted) /\ IsFiniteSet(At("body"))
                       /\ Cardinality(Counted) \in Nat
                       /\ Cardinality(At("body")) \in Nat
                       /\ Cardinality(At("body")) <= Cardinality(Counted)
  <1>1. At("body") \subseteq Counted /\ Counted \subseteq Thread
    BY DEF Counted, At
  <1>2. IsFiniteSet(Counted)
    BY <1>1, FS_Subset, ConcurrencyAssumption
  <1>3. QED
    BY <1>1, <1>2, FS_Subset, FS_CardinalityType

\* The state is well typed and the counter accounts for every call at first.
LEMMA InitIInv == Init => IInv
  <1> SUFFICES ASSUME Init PROVE IInv
    OBVIOUS
  <1>1. TypeOK
    BY ConcurrencyAssumption DEF Init, TypeOK
  <1>2. Counted = {}
    BY DEF Init, Counted, At
  <1>3. Cardinality(Counted) = 0
    BY <1>2, FS_EmptySet
  <1>4. QED
    BY <1>1, <1>3 DEF Init, IInv, CounterAccounts, Counted

\* A thread that joins the counted ones adds one to their number.
LEMMA Joins == ASSUME NEW t \in Thread, t \notin Counted
               PROVE  Cardinality(Counted \cup {t}) = Cardinality(Counted) + 1
  BY CountedFinite, FS_AddElement

\* A thread that leaves the counted ones takes one from their number.
LEMMA Leaves == ASSUME NEW t \in Thread, t \in Counted
                PROVE  /\ Cardinality(Counted \ {t}) = Cardinality(Counted) - 1
                       /\ Cardinality(Counted) > 0
  <1>1. Cardinality(Counted) # 0
    BY CountedFinite, FS_EmptySet
  <1>2. Cardinality(Counted \ {t}) = Cardinality(Counted) - 1
    BY CountedFinite, FS_RemoveElement
  <1>3. QED
    BY <1>1, <1>2, CountedFinite

\* Every step preserves the account.
LEMMA NextIInv == IInv /\ [Next]_vars => IInv'
  <1> SUFFICES ASSUME IInv, [Next]_vars PROVE IInv'
    OBVIOUS
  <1>account. counter = Cardinality(Counted) + leaked
    BY DEF IInv, CounterAccounts, Counted
  <1> USE CountedFinite, ConcurrencyAssumption DEF IInv, TypeOK
  <1>suff. ASSUME TypeOK', counter' = Cardinality(Counted') + leaked' PROVE IInv'
    BY <1>suff DEF CounterAccounts, Counted
  <1>1. ASSUME NEW t \in Thread,
               Call(t) \/ Wake(t) \/ GiveUp(t)
        PROVE  IInv'
    <2>1. Counted' = Counted
      BY <1>1 DEF Call, Wake, GiveUp, Goto, Counted, At
    <2>2. TypeOK' /\ counter' = counter /\ leaked' = leaked
      BY <1>1 DEF Call, Wake, GiveUp, Goto
    <2>3. QED
      BY <2>1, <2>2, <1>account, <1>suff
  <1>2. ASSUME NEW t \in Thread, Increment(t) PROVE IInv'
    <2>1. t \notin Counted /\ Counted' = Counted \cup {t}
      BY <1>2 DEF Increment, Goto, Counted, At
    <2>2. TypeOK' /\ counter' = counter + 1 /\ leaked' = leaked
      BY <1>2 DEF Increment, Goto
    <2>3. Cardinality(Counted') = Cardinality(Counted) + 1
      BY <2>1, Joins
    <2>4. QED
      BY <2>2, <2>3, <1>account, <1>suff
  <1>3. ASSUME NEW t \in Thread, Revert(t) \/ Release(t) PROVE IInv'
    <2>1. t \in Counted /\ Counted' = Counted \ {t}
      BY <1>3 DEF Revert, Release, Goto, Counted, At
    <2>2. Cardinality(Counted') = Cardinality(Counted) - 1 /\ counter > 0
      BY <2>1, <1>account, Leaves
    <2>3. TypeOK' /\ counter' = counter - 1 /\ leaked' = leaked
      BY <2>2, <1>3 DEF Revert, Release, Goto
    <2>4. QED
      BY <2>2, <2>3, <1>account, <1>suff
  <1>4. ASSUME NEW t \in Thread, Crash(t) PROVE IInv'
    <2>1. TypeOK' /\ counter' = counter
      BY <1>4 DEF Crash, Goto
    <2>2. CASE t \in Counted
      <3>1. Counted' = Counted \ {t} /\ leaked' = leaked + 1
        BY <2>2, <1>4 DEF Crash, Goto, Counted, At
      <3>2. Cardinality(Counted') = Cardinality(Counted) - 1
        BY <2>2, <3>1, Leaves
      <3>3. QED
        BY <2>1, <3>1, <3>2, <1>account, <1>suff
    <2>3. CASE t \notin Counted
      <3>1. Counted' = Counted /\ leaked' = leaked
        BY <2>3, <1>4 DEF Crash, Goto, Counted, At
      <3>2. QED
        BY <2>1, <3>1, <1>account, <1>suff
    <2>4. QED
      BY <2>2, <2>3
  <1>5. CASE UNCHANGED vars
    <2>1. TypeOK' /\ Counted' = Counted /\ counter' = counter /\ leaked' = leaked
      BY <1>5 DEF vars, Counted, At
    <2>2. QED
      BY <2>1, <1>account, <1>suff
  <1>6. QED
    BY <1>1, <1>2, <1>3, <1>4, <1>5 DEF Next

-----------------------------------------------------------------------------
\* In every reachable state the counter is the number of running calls and
\* pending reverts, plus what crashed instances left behind.
THEOREM CounterTheorem == GuardsSpec => [](TypeOK /\ CounterAccounts)
  <1>1. GuardsInit => IInv
    BY InitIInv DEF GuardsInit
  <1>2. IInv /\ [GuardsNext]_<<deployment, vars, guardVars>> => IInv'
    BY NextIInv, StepOfOne
  <1>3. QED
    BY <1>1, <1>2, PTL DEF GuardsSpec, IInv

\* A step of the service is a step of Permits or leaves its state alone.
LEMMA StepRefines == IInv /\ [Next]_vars
                       => [Abstract!Next]_<<At("body"), limit>>
  <1> SUFFICES ASSUME IInv, [Next]_vars
               PROVE  [Abstract!Next]_<<At("body"), limit>>
    OBVIOUS
  <1> USE DEF IInv, TypeOK
  <1>1. ASSUME NEW t \in Thread, Call(t) PROVE Abstract!Request(t)
    BY <1>1 DEF Call, Goto, At, Abstract!Request
  <1>2. ASSUME NEW t \in Thread, Increment(t), counter < limit[t]
        PROVE  Abstract!Admit(t)
    <2>1. Cardinality(At("body")) <= counter
      BY CountedFinite, ConcurrencyAssumption DEF CounterAccounts, Counted
    <2>2. limit[t] \in Nat
      BY ConcurrencyAssumption
    <2>3. Cardinality(At("body")) < limit[t]
      BY <1>2, <2>1, <2>2, CountedFinite
    <2>4. t \notin At("body") /\ At("body")' = At("body") \cup {t}
      BY <1>2 DEF Increment, Goto, At
    <2>5. Abstract!Cardinality(At("body")) = Cardinality(At("body"))
      BY DEF Cardinality, Abstract!Cardinality
    <2>6. QED
      BY <1>2, <2>3, <2>4, <2>5 DEF Increment, Abstract!Admit
  <1>3. ASSUME NEW t \in Thread, Release(t) PROVE Abstract!Finish(t)
    BY <1>3 DEF Release, Goto, At, Abstract!Finish
  <1>4. ASSUME NEW t \in Thread, Crash(t), pc[t] = "body"
        PROVE  Abstract!Finish(t)
    BY <1>4 DEF Crash, Goto, At, Abstract!Finish
  <1>5. ASSUME NEW t \in Thread,
               \/ Increment(t) /\ ~(counter < limit[t])
               \/ Revert(t) \/ Wake(t) \/ GiveUp(t)
               \/ Crash(t) /\ pc[t] # "body"
        PROVE  UNCHANGED <<At("body"), limit>>
    BY <1>5 DEF Increment, Revert, Wake, GiveUp, Crash, Goto, At
  <1>6. CASE UNCHANGED vars
    BY <1>6 DEF vars, At
  <1>7. QED
    BY <1>1, <1>2, <1>3, <1>4, <1>5, <1>6 DEF Next, Abstract!Next

\* RedisConcurrencyService with ConcurrencyAspect implements Permits.
THEOREM RefinementTheorem == GuardsSpec => ImplementsPermits
  <1>1. GuardsInit => Abstract!Init
    BY DEF GuardsInit, Init, Abstract!Init, At
  <1>2. IInv /\ [GuardsNext]_<<deployment, vars, guardVars>>
          => [Abstract!Next]_<<At("body"), limit>>
    BY StepRefines, StepOfOne
  <1>3. QED
    BY <1>1, <1>2, CounterTheorem, PTL
       DEF GuardsSpec, ImplementsPermits, Abstract!Spec, IInv

-----------------------------------------------------------------------------
(* Lock and permits of one JVM.                                            *)

\* NoOne stands for a missing key.
Missing == NoOne \notin Thread

\* Nothing interrupts a caller of lock(), which would go on without the lock.
LockUninterrupted == "lock" \notin Interrupted

\* The permits expression always has the same value.
OneLimit == \E n \in Nat : JvmLimits = {n}

-----------------------------------------------------------------------------
(* The lock                                                                *)

\* What the steps of the lock rely on and keep.
LockTyped == /\ locks \in Thread \cup {NoOne}
             /\ lockPc \in [Thread -> {"idle", "try", "check", "sleep", "body"}]

LockInv == LockTyped /\ MapNamesTheHolder

LEMMA InitLockInv == ASSUME Missing, Guards!Init PROVE LockInv
  BY DEF Missing, Guards!Init, Guards!Mutex!Init, LockInv, LockTyped, MapNamesTheHolder, Guards!MapNamesTheHolder, Guards!MapNamesTheHolder

\* A step of the lock keeps the map and the threads in line.
LEMMA LockStepInv ==
  ASSUME Missing, LockUninterrupted, LockInv, NEW t \in Thread, Guards!Mutex!Step(t)
  PROVE  LockInv'
  <1> USE DEF Missing, LockUninterrupted, LockInv, LockTyped, MapNamesTheHolder,
              Guards!MapNamesTheHolder, Guards!Mutex!Goto
  <1>1. CASE Guards!Mutex!Call(t)
    BY <1>1 DEF Guards!Mutex!Call
  <1>2. CASE Guards!Mutex!TryLockSucceeds(t)
    BY <1>2 DEF Guards!Mutex!TryLockSucceeds
  <1>3. CASE Guards!Mutex!TryLockFails(t)
    BY <1>3 DEF Guards!Mutex!TryLockFails
  <1>4. CASE Guards!Mutex!PollTimesOut(t)
    BY <1>4 DEF Guards!Mutex!PollTimesOut
  <1>5. CASE Guards!Mutex!PollSleeps(t)
    BY <1>5 DEF Guards!Mutex!PollSleeps
  <1>6. CASE Guards!Mutex!PollWakes(t)
    BY <1>6 DEF Guards!Mutex!PollWakes
  <1>7. CASE Guards!Mutex!PollInterrupted(t)
    BY <1>7 DEF Guards!Mutex!PollInterrupted
  <1>8. CASE Guards!Mutex!Unlock(t)
    BY <1>8 DEF Guards!Mutex!Unlock
  <1>9. QED
    BY <1>1, <1>2, <1>3, <1>4, <1>5, <1>6, <1>7, <1>8 DEF Guards!Mutex!Step

LEMMA NextLockInv ==
  ASSUME Missing, LockUninterrupted, LockInv, [Guards!Next]_Guards!vars
  PROVE  LockInv'
  <1>1. ASSUME NEW t \in Thread, Guards!LockStep(t) PROVE LockInv'
    BY <1>1, LockStepInv DEF Guards!LockStep
  <1>2. ASSUME UNCHANGED Guards!lockVars PROVE LockInv'
    BY <1>2 DEF Guards!lockVars, LockInv, LockTyped, MapNamesTheHolder, Guards!MapNamesTheHolder
  <1>3. QED
    BY <1>1, <1>2 DEF Guards!Next, Guards!PermitStep, Guards!vars

\* StandaloneLockService under MutexAspect: whoever is inside is whom the map
\* names, and the unlock of the finally block finds its own entry.
THEOREM HolderTheorem == ASSUME Missing, LockUninterrupted
                         PROVE  GuardsSpec => []MapNamesTheHolder
  <1>1. GuardsInit => LockInv
    BY InitLockInv DEF GuardsInit
  <1>2. LockInv /\ [GuardsNext]_<<deployment, vars, guardVars>> => LockInv'
    BY NextLockInv, StepOfOne
  <1>3. LockInv => MapNamesTheHolder
    BY DEF LockInv
  <1>4. QED
    BY <1>1, <1>2, <1>3, PTL DEF GuardsSpec

\* The threads in the guarded operation, which LockService calls the holders.
Holders == {t \in Thread : lockPc[t] = "body"}

\* They are those whom the map names.
LEMMA HoldersInMap == /\ LockInv => Holders = {t \in Thread : locks = t}
                      /\ LockInv' => Holders' = {t \in Thread : locks' = t}
  BY DEF Holders, LockInv, MapNamesTheHolder, Guards!MapNamesTheHolder

\* A step of the guards is a step of LockService or leaves its state alone.
LEMMA StepRefinesLock ==
  ASSUME Missing, LockUninterrupted, LockInv, [Guards!Next]_Guards!vars
  PROVE  [Guards!Mutex!Abstract!Next]_Holders
  <1> SUFFICES [\E t \in Thread : \/ locks = NoOne /\ locks' = t
                                  \/ locks = t /\ locks' = NoOne]_locks
    <2>1. Holders = {t \in Thread : locks = t} /\ Holders' = {t \in Thread : locks' = t}
      BY NextLockInv, HoldersInMap
    <2>2. ASSUME NEW t \in Thread, locks = NoOne, locks' = t
          PROVE  Guards!Mutex!Abstract!TryLock(t)
      BY <2>1, <2>2 DEF Missing, Guards!Mutex!Abstract!TryLock, Holders
    <2>3. ASSUME NEW t \in Thread, locks = t, locks' = NoOne
          PROVE  Guards!Mutex!Abstract!Unlock(t)
      BY <2>1, <2>3 DEF Missing, Guards!Mutex!Abstract!Unlock, Holders
    <2>4. locks' = locks => Holders' = Holders
      BY <2>1
    <2>5. QED
      BY <2>2, <2>3, <2>4 DEF Guards!Mutex!Abstract!Next
  <1>1. ASSUME NEW t \in Thread, Guards!Mutex!Step(t)
        PROVE  \/ locks = NoOne /\ locks' = t
               \/ locks = t /\ locks' = NoOne
               \/ locks' = locks
    BY <1>1 DEF Guards!Mutex!Step, Guards!Mutex!Call, Guards!Mutex!TryLockSucceeds, Guards!Mutex!TryLockFails,
                Guards!Mutex!PollTimesOut, Guards!Mutex!PollSleeps, Guards!Mutex!PollWakes,
                Guards!Mutex!PollInterrupted, Guards!Mutex!Unlock
  <1>2. QED
    BY <1>1 DEF Guards!Next, Guards!LockStep, Guards!PermitStep, Guards!lockVars, Guards!vars

\* StandaloneLockService implements LockService, with permits taken inside or not.
THEOREM LockRefinement == ASSUME Missing, LockUninterrupted
                          PROVE  GuardsSpec => ImplementsLock
  <1>1. GuardsInit => Guards!Mutex!Abstract!Init
    BY DEF GuardsInit, Guards!Init, Guards!Mutex!Init, Guards!Mutex!Abstract!Init
  <1>2. GuardsInit => LockInv
    BY InitLockInv DEF GuardsInit
  <1>3. LockInv /\ [GuardsNext]_<<deployment, vars, guardVars>>
          => LockInv' /\ [Guards!Mutex!Abstract!Next]_Holders
    BY NextLockInv, StepRefinesLock, StepOfOne
  <1>4. QED
    BY <1>1, <1>2, <1>3, PTL
       DEF GuardsSpec, ImplementsLock, Guards!ImplementsLock, Guards!Mutex!ImplementsLock, Guards!Mutex!Abstract!Spec, Holders

-----------------------------------------------------------------------------
(* The permits                                                             *)

Running == {t \in Thread : permitPc[t] = "body"}

\* Permits that are left and permits that are taken add up to the limit, once
\* there is a semaphore; no call comes past GetSemaphore before.
PermitInv == /\ semaphore \in Nat \cup {Guards!Permit!Absent}
             /\ permitPc \in [Thread -> {"idle", "get", "acquire", "body"}]
             /\ permitLimit \in [Thread -> JvmLimits]
             /\ semaphore = Guards!Permit!Absent => \A t \in Thread : permitPc[t] \in {"idle", "get"}
             /\ semaphore # Guards!Permit!Absent => JvmLimits = {semaphore + Cardinality(Running)}

\* How the number of running calls changes.
LEMMA RunningFinite == ASSUME IsFiniteSet(Thread)
                       PROVE  IsFiniteSet(Running) /\ Cardinality(Running) \in Nat
  <1>1. Running \subseteq Thread
    BY DEF Running
  <1>2. QED
    BY <1>1, FS_Subset, FS_CardinalityType

LEMMA Admitted == ASSUME IsFiniteSet(Thread), NEW t \in Thread, t \notin Running
                  PROVE  Cardinality(Running \cup {t}) = Cardinality(Running) + 1
  BY RunningFinite, FS_AddElement

LEMMA Finished == ASSUME IsFiniteSet(Thread), NEW t \in Thread, t \in Running
                  PROVE  Cardinality(Running \ {t}) = Cardinality(Running) - 1
  BY RunningFinite, FS_RemoveElement

LEMMA InitPermitInv == ASSUME Guards!Init PROVE PermitInv
  BY DEF Guards!Permit!Absent, Guards!Init, Guards!Permit!Init, PermitInv

\* A step of the permits keeps their number.
LEMMA PermitStepInv ==
  ASSUME OneLimit, IsFiniteSet(Thread), PermitInv,
         NEW t \in Thread, Guards!Permit!Step(t)
  PROVE  PermitInv'
  <1> USE DEF PermitInv, Guards!Permit!Absent, Guards!Permit!Goto
  <1>0. Cardinality(Running) \in Nat /\ JvmLimits \subseteq Nat
    BY RunningFinite DEF OneLimit
  <1>1. CASE Guards!Permit!Call(t)
    <2>1. Running' = Running
      BY <1>1 DEF Guards!Permit!Call, Running
    <2>2. QED
      BY <1>1, <2>1 DEF Guards!Permit!Call
  <1>2. CASE Guards!Permit!GetSemaphore(t)
    <2>1. Running' = Running
      BY <1>2 DEF Guards!Permit!GetSemaphore, Running
    <2>2. CASE semaphore = Guards!Permit!Absent
      <3>1. Running = {}
        BY <2>2 DEF Running
      <3>2. Cardinality(Running') = 0
        BY <2>1, <3>1, FS_EmptySet
      <3>3. semaphore' = permitLimit[t] /\ permitLimit[t] \in Nat
            /\ JvmLimits = {permitLimit[t]}
        BY <1>0, <1>2, <2>2 DEF Guards!Permit!GetSemaphore, OneLimit
      <3>4. QED
        BY <1>2, <3>2, <3>3 DEF Guards!Permit!GetSemaphore
    <2>3. CASE semaphore # Guards!Permit!Absent
      BY <1>2, <2>1, <2>3 DEF Guards!Permit!GetSemaphore
    <2>4. QED
      BY <2>2, <2>3
  <1>3. CASE Guards!Permit!Acquire(t)
    <2>1. t \notin Running /\ Running' = Running \cup {t}
      BY <1>3 DEF Guards!Permit!Acquire, Running
    <2>2. Cardinality(Running') = Cardinality(Running) + 1
      BY <2>1, Admitted
    <2>3. semaphore \in Nat /\ semaphore' = semaphore - 1 /\ semaphore' \in Nat
      BY <1>3 DEF Guards!Permit!Acquire
    <2>4. semaphore' + Cardinality(Running') = semaphore + Cardinality(Running)
      BY <1>0, <2>2, <2>3
    <2>5. QED
      BY <1>3, <2>3, <2>4 DEF Guards!Permit!Acquire
  <1>4. CASE Guards!Permit!Fail(t)
    <2>1. Running' = Running
      BY <1>4 DEF Guards!Permit!Fail, Running
    <2>2. QED
      BY <1>4, <2>1 DEF Guards!Permit!Fail
  <1>5. CASE Guards!Permit!Release(t)
    <2>1. t \in Running /\ Running' = Running \ {t}
      BY <1>5 DEF Guards!Permit!Release, Running
    <2>2. Cardinality(Running') = Cardinality(Running) - 1
      BY <2>1, Finished
    <2>3. semaphore \in Nat /\ semaphore' = semaphore + 1
      BY <1>5 DEF Guards!Permit!Release
    <2>4. semaphore' + Cardinality(Running') = semaphore + Cardinality(Running)
      BY <1>0, <2>2, <2>3
    <2>5. QED
      BY <1>5, <2>3, <2>4 DEF Guards!Permit!Release
  <1>6. QED
    BY <1>1, <1>2, <1>3, <1>4, <1>5 DEF Guards!Permit!Step

LEMMA NextPermitInv ==
  ASSUME OneLimit, IsFiniteSet(Thread), PermitInv, [Guards!Next]_Guards!vars
  PROVE  PermitInv'
  <1>1. ASSUME NEW t \in Thread, Guards!PermitStep(t) PROVE PermitInv'
    BY <1>1, PermitStepInv DEF Guards!PermitStep
  <1>2. ASSUME UNCHANGED Guards!permitVars PROVE PermitInv'
    BY <1>2 DEF Guards!permitVars, PermitInv, Running
  <1>3. QED
    BY <1>1, <1>2 DEF Guards!Next, Guards!LockStep, Guards!vars

\* A step of the guards is a step of Permits or leaves its state alone.
LEMMA StepRefinesPermits ==
  ASSUME OneLimit, IsFiniteSet(Thread), PermitInv, [Guards!Next]_Guards!vars
  PROVE  [Guards!Permit!Abstract!Next]_<<Guards!Permit!At("body"), permitLimit>>
  <1> USE DEF PermitInv, Guards!Permit!At, Guards!Permit!Goto
  <1>1. ASSUME NEW t \in Thread, Guards!Permit!Call(t) PROVE Guards!Permit!Abstract!Request(t)
    BY <1>1 DEF Guards!Permit!Call, Guards!Permit!Abstract!Request
  <1>2. ASSUME NEW t \in Thread, Guards!Permit!Acquire(t) PROVE Guards!Permit!Abstract!Admit(t)
    <2>1. Cardinality(Running) \in Nat
      BY RunningFinite
    <2>2. semaphore \in Nat /\ semaphore > 0 /\ permitLimit[t] \in JvmLimits
      BY <1>2 DEF Guards!Permit!Absent, Guards!Permit!Acquire
    <2>3. permitLimit[t] = semaphore + Cardinality(Running)
      BY <2>2 DEF Guards!Permit!Absent
    <2>4. Cardinality(Running) < permitLimit[t]
      BY <2>1, <2>2, <2>3
    <2>5. t \notin Guards!Permit!At("body") /\ Guards!Permit!At("body")' = Guards!Permit!At("body") \cup {t}
      BY <1>2 DEF Guards!Permit!Acquire
    <2>6. Guards!Permit!Abstract!Cardinality(Guards!Permit!At("body")) = Cardinality(Running)
      BY DEF Cardinality, Guards!Permit!Abstract!Cardinality, Running
    <2>7. QED
      BY <1>2, <2>4, <2>5, <2>6 DEF Guards!Permit!Acquire, Guards!Permit!Abstract!Admit
  <1>3. ASSUME NEW t \in Thread, Guards!Permit!Release(t) PROVE Guards!Permit!Abstract!Finish(t)
    BY <1>3 DEF Guards!Permit!Release, Guards!Permit!Abstract!Finish
  <1>4. ASSUME NEW t \in Thread, Guards!Permit!GetSemaphore(t) \/ Guards!Permit!Fail(t)
        PROVE  UNCHANGED <<Guards!Permit!At("body"), permitLimit>>
    BY <1>4 DEF Guards!Permit!GetSemaphore, Guards!Permit!Fail
  <1>5. ASSUME UNCHANGED Guards!permitVars PROVE UNCHANGED <<Guards!Permit!At("body"), permitLimit>>
    BY <1>5 DEF Guards!permitVars
  <1>6. QED
    BY <1>1, <1>2, <1>3, <1>4, <1>5
       DEF Guards!Next, Guards!LockStep, Guards!PermitStep, Guards!Permit!Step, Guards!Permit!Abstract!Next, Guards!vars

\* StandaloneConcurrencyService implements Permits, inside a lock or without.
THEOREM PermitsRefinement == ASSUME OneLimit PROVE GuardsSpec => StandalonePermits
  <1>1. GuardsInit => Guards!Permit!Abstract!Init
    BY DEF GuardsInit, Guards!Init, Guards!Permit!Init, Guards!Permit!Abstract!Init, Guards!Permit!At
  <1>2. GuardsInit => PermitInv
    BY InitPermitInv DEF GuardsInit
  <1>3. PermitInv /\ [GuardsNext]_<<deployment, vars, guardVars>>
          => PermitInv' /\ [Guards!Permit!Abstract!Next]_<<Guards!Permit!At("body"), permitLimit>>
    BY NextPermitInv, StepRefinesPermits, StepOfOne, ConcurrencyAssumption
  <1>4. QED
    BY <1>1, <1>2, <1>3, PTL
       DEF GuardsSpec, StandalonePermits, Guards!StandalonePermits,
           Guards!Permit!ImplementsPermits, Guards!Permit!Abstract!Spec
=============================================================================

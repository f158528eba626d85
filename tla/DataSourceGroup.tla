-------------------------- MODULE DataSourceGroup --------------------------
(***************************************************************************)
(* GroupedDataSource: a master and its slaves behind one data source.  A   *)
(* caller picks a source that is not marked dead and tries it up to        *)
(* maxAttempts times; failures are counted for each source, and the        *)
(* deadFailureThreshold-th marks it dead.  A scheduled task tries the dead *)
(* ones and clears those that answer.  Callers and the task share the      *)
(* counts, by one get and one put, and the plain HashSet of dead sources:  *)
(* of two operations on it at once, one may be lost.                       *)
(* RoundRobin, whose weights and turns are left out, picks any usable one. *)
(***************************************************************************)
EXTENDS Naturals, FiniteSets

CONSTANTS master,
          readSlaves,   \* what readRoundRobin picks from
          writeSlaves,  \* what writeRoundRobin picks from: the write slaves
          maxAttempts, deadFailureThreshold,
          Caller,       \* threads that ask for connections
          NoSource,
          MaxFaults     \* bound of the model: how often sources go down or up,
                        \* and operations on the set of dead ones are lost

Source == {master} \cup readSlaves \cup writeSlaves

VARIABLES up,               \* the sources that give connections
          faults,
          deadDataSources,
          failureCount,     \* 0 where the map has no entry
          pc, ds, remainingAttempts, failureTimes, \* of each call
          round,            \* of tryRecover: what is left to visit, the source it
                            \* tries, whether the set changed under its iterator
          inRow,            \* history: failures since the count was last removed
          late              \* history: sources whose count was removed between
                            \* the get and the put of a caller

sharedVars == <<deadDataSources, failureCount, inRow, late>>
callVars == <<pc, ds, remainingAttempts, failureTimes>>
vars == <<up, faults, sharedVars, callVars, round>>

NoRound == [todo |-> {}, ds |-> NoSource, modified |-> FALSE]

TypeOK == /\ up \subseteq Source /\ deadDataSources \subseteq Source /\ late \subseteq Source
          /\ faults \in 0 .. MaxFaults
          /\ failureCount \in [Source -> 0 .. deadFailureThreshold - 1]
          /\ inRow \in [Source -> 0 .. deadFailureThreshold]
          /\ pc \in [Caller -> {"idle", "trying", "failed", "marking"}]
          /\ ds \in [Caller -> Source \cup {NoSource}]
          /\ remainingAttempts \in [Caller -> 0 .. maxAttempts]
          /\ failureTimes \in [Caller -> 0 .. deadFailureThreshold]
          /\ round \in [todo : SUBSET Source, ds : Source \cup {NoSource}, modified : BOOLEAN]

Init == /\ up \in SUBSET Source /\ faults = 0
        /\ deadDataSources = {} /\ late = {}
        /\ failureCount = [s \in Source |-> 0]
        /\ inRow = [s \in Source |-> 0]
        /\ pc = [c \in Caller |-> "idle"]
        /\ ds = [c \in Caller |-> NoSource]
        /\ remainingAttempts = [c \in Caller |-> 0]
        /\ failureTimes = [c \in Caller |-> 0]
        /\ round = NoRound

-----------------------------------------------------------------------------
(* The databases *)

Fault == faults < MaxFaults /\ faults' = faults + 1

Change(s) == /\ Fault
             /\ up' = IF s \in up THEN up \ {s} ELSE up \cup {s}
             /\ UNCHANGED <<sharedVars, callVars, round>>

-----------------------------------------------------------------------------
(* getConnection *)

Usable(slaves) == slaves \ deadDataSources

\* A read slave if the transaction is read only, else a write slave, else the
\* master, which is tried though it may be marked dead.
Choices(readonly) ==
    IF readonly /\ Usable(readSlaves) # {} THEN Usable(readSlaves)
    ELSE IF Usable(writeSlaves) # {} THEN Usable(writeSlaves) ELSE {master}

GetConnection(c) ==
    /\ pc[c] = "idle"
    /\ \E readonly \in BOOLEAN : \E s \in Choices(readonly) : ds' = [ds EXCEPT ![c] = s]
    /\ pc' = [pc EXCEPT ![c] = "trying"]
    /\ remainingAttempts' = [remainingAttempts EXCEPT ![c] = maxAttempts]
    /\ UNCHANGED <<up, faults, sharedVars, failureTimes, round>>

\* failureCount.remove, of the source that c has tried.
RemoveCount(c) ==
    /\ failureCount' = [failureCount EXCEPT ![ds[c]] = 0]
    /\ inRow' = [inRow EXCEPT ![ds[c]] = 0]
    /\ late' = IF \E d \in Caller \ {c} : pc[d] = "failed" /\ ds[d] = ds[c]
               THEN late \cup {ds[c]} ELSE late

Return(c) == /\ pc' = [pc EXCEPT ![c] = "idle"]
             /\ ds' = [ds EXCEPT ![c] = NoSource]
             /\ remainingAttempts' = [remainingAttempts EXCEPT ![c] = 0]
             /\ failureTimes' = [failureTimes EXCEPT ![c] = 0]

Connect(c) == /\ pc[c] = "trying" /\ ds[c] \in up
              /\ RemoveCount(c)
              /\ Return(c)
              /\ UNCHANGED <<up, faults, deadDataSources, round>>

\* The failure of the last attempt is thrown before it is counted.
Throw(c) == /\ pc[c] = "trying" /\ ds[c] \notin up
            /\ remainingAttempts[c] <= 1
            /\ Return(c)
            /\ UNCHANGED <<up, faults, sharedVars, round>>

\* An attempt fails, and the count is read.
Fail(c) == /\ pc[c] = "trying" /\ ds[c] \notin up
           /\ remainingAttempts[c] > 1
           /\ pc' = [pc EXCEPT ![c] = "failed"]
           /\ failureTimes' = [failureTimes EXCEPT ![c] = failureCount[ds[c]] + 1]
           /\ inRow' = [inRow EXCEPT ![ds[c]] =
                          IF @ < deadFailureThreshold THEN @ + 1 ELSE @]
           /\ UNCHANGED <<up, faults, deadDataSources, failureCount, late, ds,
                          remainingAttempts, round>>

\* The same source is tried again.
Again(c) == /\ pc' = [pc EXCEPT ![c] = "trying"]
            /\ remainingAttempts' = [remainingAttempts EXCEPT ![c] = @ - 1]
            /\ failureTimes' = [failureTimes EXCEPT ![c] = 0]
            /\ UNCHANGED <<ds, up>>

Count(c) == /\ pc[c] = "failed" /\ failureTimes[c] # deadFailureThreshold
            /\ failureCount' = [failureCount EXCEPT ![ds[c]] = failureTimes[c]]
            /\ Again(c)
            /\ UNCHANGED <<faults, deadDataSources, inRow, late, round>>

Forget(c) == /\ pc[c] = "failed" /\ failureTimes[c] = deadFailureThreshold
             /\ RemoveCount(c)
             /\ pc' = [pc EXCEPT ![c] = "marking"]
             /\ UNCHANGED <<up, faults, deadDataSources, ds, remainingAttempts,
                            failureTimes, round>>

\* An addition ends the iteration of tryRecover at its next step.
Mark(c) == /\ pc[c] = "marking"
           /\ deadDataSources' = deadDataSources \cup {ds[c]}
           /\ round' = IF round # NoRound /\ ds[c] \notin deadDataSources
                       THEN [round EXCEPT !.modified = TRUE] ELSE round
           /\ Again(c)
           /\ UNCHANGED <<faults, failureCount, inRow, late>>

\* Another thread adds to the set, or the task removes from it.
Marking == {c \in Caller : pc[c] = "marking"}

LoseMark(c) == /\ pc[c] = "marking"
               /\ Marking # {c} \/ round.ds # NoSource
               /\ Fault
               /\ Again(c)
               /\ UNCHANGED <<sharedVars, round>>

-----------------------------------------------------------------------------
(* tryRecover, every five minutes *)

BeginRound == /\ round = NoRound /\ deadDataSources # {}
              /\ round' = [NoRound EXCEPT !.todo = deadDataSources]
              /\ UNCHANGED <<up, faults, sharedVars, callVars>>

\* The iterator's next, in any order; it throws if the set has changed.
Visit == /\ round.todo # {} /\ round.ds = NoSource
         /\ IF round.modified THEN round' = NoRound
            ELSE \E s \in round.todo :
                    round' = [round EXCEPT !.todo = @ \ {s}, !.ds = s]
         /\ UNCHANGED <<up, faults, sharedVars, callVars>>

\* The round when the source it tried is done with.
Visited == IF round.todo = {} THEN NoRound ELSE [round EXCEPT !.ds = NoSource]

\* Mutant: a source that is still down ends the round.
RoundEnds == /\ round.ds # NoSource /\ (round.ds \notin up \/ round.modified)
             /\ round' = NoRound
             /\ UNCHANGED <<up, faults, sharedVars, callVars>>

\* The source does not answer, or its removal throws or is lost: on to the next.
StaysDead == /\ round.ds # NoSource
             /\ \/ (round.ds \notin up \/ round.modified) /\ UNCHANGED faults
                \/ Marking # {} /\ Fault
             /\ round' = Visited
             /\ UNCHANGED <<up, sharedVars, callVars>>

Recover == /\ round.ds \in up /\ ~round.modified
           /\ deadDataSources' = deadDataSources \ {round.ds}
           /\ round' = Visited
           /\ UNCHANGED <<up, faults, failureCount, inRow, late, callVars>>

-----------------------------------------------------------------------------
Call(c) == \/ Connect(c) \/ Throw(c) \/ Fail(c) \/ Count(c) \/ Forget(c)
           \/ Mark(c) \/ LoseMark(c)

TryRecover == BeginRound \/ Visit \/ StaysDead \/ Recover

Next == \/ \E s \in Source : Change(s)
        \/ \E c \in Caller : GetConnection(c) \/ Call(c)
        \/ TryRecover

\* A call goes on, and the task is scheduled for ever.  Its iterator meets the
\* sources in one order for as long as the set is the same, so that a round
\* which is always ended by the same source would never reach the next.
Fairness == (\A c \in Caller : WF_vars(Call(c))) /\ WF_vars(TryRecover)

-----------------------------------------------------------------------------
\* A source is marked dead after deadFailureThreshold failures in a row, however
\* calls overlap; except where a count was removed between the reading and the
\* writing of another caller, which writes what is left of the row before.
DeadForCause ==
    [][\A c \in Caller : pc[c] = "failed" /\ pc'[c] = "marking" =>
          inRow[ds[c]] >= deadFailureThreshold \/ ds[c] \in late]_vars

\* Once the databases stay as they are, those that answer are in use again and
\* remain so, whatever becomes of the other ones.
SourcesRecover == <>[](deadDataSources \cap up = {})
=============================================================================

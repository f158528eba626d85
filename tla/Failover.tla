------------------------------ MODULE Failover ------------------------------
(***************************************************************************)
(* What takes the place of instances that fail, in one of three parts that *)
(* is chosen in the initial state: the members of a group (RedisMembership,*)
(* whose variables keep their names), the hosts that export a service      *)
(* (ServiceRegistry), the data sources of a group (DataSourceGroup).  They *)
(* share no state.                                                         *)
(***************************************************************************)
EXTENDS RedisMembership

CONSTANTS Host, Nothing, Current,
          callAttempts,         \* maxAttempts of HttpInvokerClient
          master, readSlaves, writeSlaves, deadFailureThreshold,
          connectionAttempts,   \* maxAttempts of GroupedDataSource
          Caller,               \* threads of the client, or of the application
          MaxFaults

ASSUME FailoverAssumption ==
    /\ Nothing \notin Host \cup {master} \cup readSlaves \cup writeSlaves
    /\ {callAttempts, connectionAttempts, deadFailureThreshold} \subseteq Nat \ {0}
    /\ MaxFaults \in Nat

VARIABLES part,
          vRegistered, vHost, vEvents, vFaults, vCandidates, vDiscoveredHost,
          vPc, vRemaining, vChosen, vTarget, vList,
          dUp, dFaults, dDead, dCount, dPc, dSource, dRemaining, dTimes, dRound,
          dInRow, dLate

Service == INSTANCE ServiceRegistry
    WITH maxAttempts <- callAttempts, NoHost <- Nothing,
         registered <- vRegistered, host <- vHost, events <- vEvents,
         faults <- vFaults, candidates <- vCandidates,
         discoveredHost <- vDiscoveredHost, pc <- vPc,
         remainingAttempts <- vRemaining, chosen <- vChosen, target <- vTarget,
         list <- vList

Data == INSTANCE DataSourceGroup
    WITH maxAttempts <- connectionAttempts, NoSource <- Nothing,
         up <- dUp, faults <- dFaults, deadDataSources <- dDead,
         failureCount <- dCount, pc <- dPc, ds <- dSource,
         remainingAttempts <- dRemaining, failureTimes <- dTimes, round <- dRound,
         inRow <- dInRow, late <- dLate

serviceVars == <<vRegistered, vHost, vEvents, vFaults, vCandidates, vDiscoveredHost,
                 vPc, vRemaining, vChosen, vTarget, vList>>
dataVars == <<dUp, dFaults, dDead, dCount, dPc, dSource, dRemaining, dTimes, dRound,
              dInRow, dLate>>

\* The parts that are not chosen stand still in one of their states.
FailoverInit == /\ part \in {"members", "service", "data"}
                /\ Init /\ Service!Init /\ Data!Init
                /\ part # "service" => vCandidates = {} /\ vHost = [h \in Host |-> "up"]
                /\ part # "data" => dUp = Data!Source

FailoverNext ==
    /\ UNCHANGED part
    /\ \/ part = "members" /\ Next /\ UNCHANGED <<serviceVars, dataVars>>
       \/ part = "service" /\ Service!Next /\ UNCHANGED <<vars, dataVars>>
       \/ part = "data" /\ Data!Next /\ UNCHANGED <<vars, serviceVars>>

\* Where a part stands still nothing that is fair is enabled.
FailoverSpec == /\ FailoverInit
                /\ [][FailoverNext]_<<part, vars, serviceVars, dataVars>>
                /\ Fairness /\ Service!Fairness /\ Data!Fairness

-----------------------------------------------------------------------------
\* Nobody gives up a host or a data source without a reason of its own: hosts
\* that failed, shut down or are gone from Redis; sources that failed in a row.
OutForCause == Service!OutForCause /\ Data!DeadForCause

\* What works is used: calls cease to fail while a host is up and registered,
\* and data sources that answer are in use again.
WhatWorksIsUsed == Service!CallsGetThrough /\ Data!SourcesRecover
=============================================================================

-------------------------- MODULE NumberGenerators --------------------------
(***************************************************************************)
(* The generators of numbers: the Redis sequence, the sequence over a      *)
(* database sequence object, the one over a database row, the simple       *)
(* sequence with segments and Snowflake.  They share no state; which one   *)
(* runs is chosen in the initial state.  All but the Redis sequence, whose *)
(* variables keep their names, are instances with variables of their own.  *)
(***************************************************************************)
EXTENDS RedisCyclicSequence

CONSTANTS NoOne,
          Steps,        \* by how many cycles the database's clock may move
          LastTurn,     \* bound of the model: the last cycle, of the database's clock
          MaxSuffix, MaxRowSuffix, MaxCrash,
          Home,         \* the threads of the simple sequence, and their instances
          cacheSize, MaxValue, MaxRestarts, MaxFailures,
          workerId, workerIdBits, sequenceBits, Patience, LastTime, MaxBack

ASSUME NumberGeneratorsAssumption ==
    /\ NoOne \notin Thread
    /\ Steps \subseteq Int
    /\ {LastTurn, MaxSuffix, MaxRowSuffix, MaxCrash} \subseteq Nat
    /\ {MaxValue, MaxRestarts, MaxFailures} \subseteq Nat
    /\ cacheSize \in Nat \ {0}
    /\ {2 ^ workerIdBits, 2 ^ sequenceBits} \subseteq Nat \ {0, 1}
    /\ workerId \in 0 .. 2 ^ workerIdBits - 1
    /\ {Patience, LastTime, MaxBack} \subseteq Nat

VARIABLES generator,
          dSeq, dLast, dRow, dClock, dPc, dNow, dResult, dAttempts, dCrashes,
          dIssued, dAnswers, dBefore,
          rValue, rLast, rClock, rPc, rTimestamp, rAttempts, rIssued, rRepeated,
          rBefore, rOvertaken, rTurnedBack,
          gValue, gNextId, gMaxId, gLock, gPc, gRead, gFailures, gEra, gSegmentEra,
          gIssued, gRepeated, gOverlapped,
          sClock, sSequence, sLastTimestamp, sPc, sSleep, sBacks, sLatest,
          sGrowing, sOverslept

Database == INSTANCE DatabaseCyclicSequence
    WITH ClockSteps <- Steps, LastCycle <- LastTurn, Idle <- FALSE,
         seq <- dSeq, last <- dLast, row <- dRow, clock <- dClock, pc <- dPc,
         now <- dNow, result <- dResult, attempts <- dAttempts,
         crashes <- dCrashes, issued <- dIssued, answers <- dAnswers,
         before <- dBefore

Row == INSTANCE RowCyclicSequence
    WITH ClockSteps <- Steps, LastCycle <- LastTurn, MaxSuffix <- MaxRowSuffix,
         VALUE <- rValue, last <- rLast, clock <- rClock, pc <- rPc,
         timestamp <- rTimestamp, attempts <- rAttempts, issued <- rIssued,
         repeated <- rRepeated, before <- rBefore, overtaken <- rOvertaken,
         turnedBack <- rTurnedBack

Segment == INSTANCE SegmentSequence
    WITH Thread <- DOMAIN Home,
         VALUE <- gValue, nextId <- gNextId, maxId <- gMaxId, lock <- gLock,
         pc <- gPc, read <- gRead, failures <- gFailures, era <- gEra,
         segmentEra <- gSegmentEra, issued <- gIssued, repeated <- gRepeated,
         overlapped <- gOverlapped

Flake == INSTANCE Snowflake
    WITH clock <- sClock, sequence <- sSequence, lastTimestamp <- sLastTimestamp,
         pc <- sPc, sleep <- sSleep, backs <- sBacks, latest <- sLatest,
         growing <- sGrowing, overslept <- sOverslept

databaseVars == <<dSeq, dLast, dRow, dClock, dPc, dNow, dResult, dAttempts,
                  dCrashes, dIssued, dAnswers, dBefore>>
rowVars == <<rValue, rLast, rClock, rPc, rTimestamp, rAttempts, rIssued, rRepeated,
             rBefore, rOvertaken, rTurnedBack>>
segmentVars == <<gValue, gNextId, gMaxId, gLock, gPc, gRead, gFailures, gEra,
                 gSegmentEra, gIssued, gRepeated, gOverlapped>>
flakeVars == <<sClock, sSequence, sLastTimestamp, sPc, sSleep, sBacks, sLatest,
               sGrowing, sOverslept>>

allVars == <<generator, vars, databaseVars, rowVars, segmentVars, flakeVars>>

GeneratorsInit ==
    /\ generator \in {"redis", "database", "row", "segment", "snowflake"}
    /\ Init /\ Database!Init /\ Row!Init /\ Segment!Init /\ Flake!Init

GeneratorsNext ==
    /\ UNCHANGED generator
    /\ \/ generator = "redis" /\ Next
          /\ UNCHANGED <<databaseVars, rowVars, segmentVars, flakeVars>>
       \/ generator = "database" /\ Database!Next
          /\ UNCHANGED <<vars, rowVars, segmentVars, flakeVars>>
       \/ generator = "row" /\ Row!Next
          /\ UNCHANGED <<vars, databaseVars, segmentVars, flakeVars>>
       \/ generator = "segment" /\ Segment!Next
          /\ UNCHANGED <<vars, databaseVars, rowVars, flakeVars>>
       \/ generator = "snowflake" /\ Flake!Next
          /\ UNCHANGED <<vars, databaseVars, rowVars, segmentVars>>

GeneratorsSpec == GeneratorsInit /\ [][GeneratorsNext]_allVars

-----------------------------------------------------------------------------
\* No number is given twice by the other sequences, each with its exception:
\* a row turned back by an old call, a restart that overlaps a call.
IssuedOnce == /\ Database!UniqueNumbers
              /\ Row!NumbersOnce
              /\ Segment!NumbersOnce

\* Snowflake's ids grow, unless the clock is set back during its sleep.
IdsGrow == Flake!IdsGrow

\* A call that starts after another was answered gets a later number, from
\* every cyclic sequence: over Redis as long as its clock is not set back, over
\* the database even then, over a row as long as that is not turned back.
NumbersInOrder == /\ LaterCallsGetLaterNumbers
                  /\ Database!LaterCallsGetLaterNumbers
                  /\ Row!LaterCallsGetLaterNumbers
                  /\ Database!TurnsAreKept
=============================================================================

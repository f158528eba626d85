----------------------------- MODULE Snowflake -----------------------------
(***************************************************************************)
(* Snowflake.nextId: ids made of the time in milliseconds, the worker and  *)
(* a sequence within the millisecond, while the wall clock may be set back *)
(* and may be set back again during the sleep that waits for it to catch   *)
(* up.  The method is synchronized: one call at a time, so its caller does *)
(* not matter.                                                             *)
(***************************************************************************)
EXTENDS Integers

CONSTANTS workerId, workerIdBits, sequenceBits,
          Patience,   \* 5000: an offset as long as this is refused
          LastTime,   \* bound of the model: the end of the clock
          MaxBack     \* bound of the model: how often the clock is set back

VARIABLES clock,          \* System.currentTimeMillis
          sequence, lastTimestamp,
          pc,             \* where the call is
          sleep,          \* milliseconds left of its Thread.sleep
          backs,          \* how often the clock was set back
          latest,         \* the last id given (history)
          growing,        \* each id was greater than the one before (history)
          overslept       \* the clock was set back during a sleep (history)

vars == <<clock, sequence, lastTimestamp, pc, sleep, backs, latest, growing, overslept>>

Time == 0 .. LastTime
sequenceMask == 2 ^ sequenceBits - 1

TypeOK == /\ clock \in Time /\ lastTimestamp \in -1 .. LastTime
          /\ sequence \in 0 .. sequenceMask
          /\ pc \in {"idle", "spin", "sleep"}
          /\ sleep \in 0 .. Patience /\ backs \in 0 .. MaxBack
          /\ latest \in Int /\ growing \in BOOLEAN /\ overslept \in BOOLEAN

Init == /\ clock = 0 /\ sequence = 0 /\ lastTimestamp = -1
        /\ pc = "idle" /\ sleep = 0 /\ backs = 0
        /\ latest = -1 /\ growing = TRUE /\ overslept = FALSE

\* (timestamp << (sequenceBits + workerIdBits)) | (workerId << sequenceBits) | s
Id(timestamp, s) ==
    (timestamp * 2 ^ workerIdBits + workerId) * 2 ^ sequenceBits + s

Answer(timestamp, s) == /\ lastTimestamp' = timestamp
                        /\ sequence' = s
                        /\ latest' = Id(timestamp, s)
                        /\ growing' = (growing /\ latest' > latest)
                        /\ pc' = "idle"
                        /\ UNCHANGED <<clock, sleep, backs, overslept>>

\* RANDOM.nextInt(2)
FirstSequence == {0, 1}

\* The clock has moved on.
Later == /\ pc = "idle" /\ clock > lastTimestamp
         /\ \E s \in FirstSequence : Answer(clock, s)

NextSequence == (sequence + 1) % (sequenceMask + 1)

\* Another id in the same millisecond.
SameTime == /\ pc = "idle" /\ clock = lastTimestamp
            /\ NextSequence # 0
            /\ Answer(clock, NextSequence)

\* The millisecond has no id left: the call spins until the clock moves on.
Exhausted == /\ pc = "idle" /\ clock = lastTimestamp
             /\ NextSequence = 0
             /\ sequence' = 0
             /\ pc' = "spin"
             /\ UNCHANGED <<clock, lastTimestamp, sleep, backs, latest, growing, overslept>>

Spin == /\ pc = "spin" /\ clock > lastTimestamp
        /\ Answer(clock, sequence)

\* Mutant: it sleeps only until the last timestamp.
SleepTooShort == lastTimestamp - clock

SleepTime == lastTimestamp - clock + 1

\* The clock was set back a little: sleep over it.
Sleep == /\ pc = "idle" /\ clock < lastTimestamp
         /\ lastTimestamp - clock < Patience
         /\ sleep' = SleepTime
         /\ pc' = "sleep"
         /\ UNCHANGED <<clock, sequence, lastTimestamp, backs, latest, growing, overslept>>

\* The clock was set back a lot: IllegalStateException, nothing changes.
Refuse == /\ pc = "idle" /\ lastTimestamp - clock >= Patience
          /\ UNCHANGED vars

\* The time is read again, and taken as it is.
Awake == /\ pc = "sleep" /\ sleep = 0
         /\ \E s \in FirstSequence : Answer(clock, s)

\* The sleep is interrupted: IllegalStateException.
Interrupted == /\ pc = "sleep"
               /\ pc' = "idle" /\ sleep' = 0
               /\ UNCHANGED <<clock, sequence, lastTimestamp, backs, latest, growing, overslept>>

\* A millisecond goes by; the sleep may last longer than it must.
Tick == /\ clock < LastTime
        /\ clock' = clock + 1
        /\ sleep' = IF sleep > 0 THEN sleep - 1 ELSE 0
        /\ UNCHANGED <<sequence, lastTimestamp, pc, backs, latest, growing, overslept>>

\* The clock is set back; a sleep goes by the time elapsed, not by the clock.
SetBack == /\ backs < MaxBack
           /\ \E c \in Time : c < clock /\ clock' = c
           /\ backs' = backs + 1
           /\ overslept' = (overslept \/ pc = "sleep")
           /\ UNCHANGED <<sequence, lastTimestamp, pc, sleep, latest, growing>>

Next == \/ Later \/ SameTime \/ Exhausted \/ Spin
        \/ Sleep \/ Refuse \/ Awake \/ Interrupted
        \/ Tick \/ SetBack

Spec == Init /\ [][Next]_vars

-----------------------------------------------------------------------------
\* Ids grow, so none is given twice, whatever the clock does between calls and
\* while a call spins.  Only a clock that is set back during the very sleep
\* that waits for it breaks this: the time read after it is not compared again.
IdsGrow == growing \/ overslept
=============================================================================

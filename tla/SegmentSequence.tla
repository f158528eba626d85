-------------------------- MODULE SegmentSequence --------------------------
(***************************************************************************)
(* MySQLSimpleSequence with a cache: each instance takes cacheSize numbers *)
(* from the row at a time and gives them from its fields nextId and maxId. *)
(* nextLongValue holds the instance's lock; restart, which sets the row    *)
(* back to 0 and empties the segment, does not.                            *)
(*                                                                         *)
(* The two statements of incrementAndGet work on the connection's own      *)
(* LAST_INSERT_ID, so that they are one step.                              *)
(***************************************************************************)
EXTENDS Integers

CONSTANTS Thread,
          Home,        \* the instance a thread runs in
          cacheSize,
          MaxValue,    \* bound of the model: the largest number
          MaxRestarts, \* bound of the model: how often it is restarted
          MaxFailures  \* bound of the model: how many statements fail

VARIABLES VALUE,          \* of the row
          nextId, maxId,  \* fields of each instance
          lock,           \* the threads in the synchronized block
          pc,             \* where each thread is
          read,           \* what it read: from the row, or the old nextId
          failures,
          era,            \* how often the row was restarted (history)
          segmentEra,     \* the era of each instance's segment (history)
          issued,         \* the numbers given, with their era (history)
          repeated,       \* a number was given twice (history)
          overlapped      \* a restart emptied a segment in use (history)

vars == <<VALUE, nextId, maxId, lock, pc, read, failures, era, segmentEra,
          issued, repeated, overlapped>>

Instance == {Home[t] : t \in Thread}

TypeOK == /\ VALUE \in 0 .. MaxValue
          /\ nextId \in [Instance -> Int] /\ maxId \in [Instance -> Int]
          /\ lock \subseteq Thread
          /\ pc \in [Thread -> {"idle", "fetch", "max", "next", "read", "write",
                                "return", "restartNext", "restartMax"}]
          /\ read \in [Thread -> Int]
          /\ failures \in 0 .. MaxFailures
          /\ era \in 0 .. MaxRestarts /\ segmentEra \in [Instance -> 0 .. era]
          /\ repeated \in BOOLEAN
          /\ overlapped \in BOOLEAN

\* createTable: the row is new.
Init == /\ VALUE = 0
        /\ nextId = [i \in Instance |-> 0] /\ maxId = [i \in Instance |-> 0]
        /\ lock = {}
        /\ pc = [t \in Thread |-> "idle"] /\ read = [t \in Thread |-> 0]
        /\ failures = 0
        /\ era = 0 /\ segmentEra = [i \in Instance |-> 0]
        /\ issued = {} /\ repeated = FALSE /\ overlapped = FALSE

Goto(t, l) == pc' = [pc EXCEPT ![t] = l]

Busy(i) == \E t \in lock : Home[t] = i
Emptying(i) == \E t \in Thread : Home[t] = i /\ pc[t] = "restartMax"

Free(t) == ~Busy(Home[t])

\* synchronized (this), and the comparison of the two fields.
Enter(t) ==
    LET i == Home[t] IN
    /\ pc[t] = "idle" /\ Free(t)
    /\ lock' = lock \cup {t}
    /\ Goto(t, IF maxId[i] = nextId[i] THEN "fetch" ELSE "read")
    /\ overlapped' = (overlapped \/ Emptying(i))
    /\ UNCHANGED <<VALUE, nextId, maxId, read, failures, era, segmentEra, issued, repeated>>

\* UPDATE ... SET VALUE = LAST_INSERT_ID(VALUE + cacheSize)
Fetch(t) == /\ pc[t] = "fetch"
            /\ VALUE + cacheSize <= MaxValue
            /\ VALUE' = VALUE + cacheSize
            /\ read' = [read EXCEPT ![t] = VALUE']
            /\ segmentEra' = [segmentEra EXCEPT ![Home[t]] = era]
            /\ Goto(t, "max")
            /\ UNCHANGED <<nextId, maxId, lock, failures, era, issued, repeated, overlapped>>

\* A statement fails, before or after the row was updated.
FetchFails(t) == /\ pc[t] = "fetch"
                 /\ failures < MaxFailures
                 /\ failures' = failures + 1
                 /\ VALUE' \in {VALUE, VALUE + cacheSize} /\ VALUE' <= MaxValue
                 /\ lock' = lock \ {t}
                 /\ Goto(t, "idle")
                 /\ UNCHANGED <<nextId, maxId, read, era, segmentEra, issued,
                                repeated, overlapped>>

\* maxId = incrementAndGet(cacheSize)
SetMax(t) == /\ pc[t] = "max"
             /\ maxId' = [maxId EXCEPT ![Home[t]] = read[t]]
             /\ Goto(t, "next")
             /\ UNCHANGED <<VALUE, nextId, lock, read, failures, era, segmentEra,
                            issued, repeated, overlapped>>

\* Mutant: the segment begins one too early.
BeforeFirst(i) == maxId[i] - cacheSize

FirstId(i) == maxId[i] - cacheSize + 1

SetNext(t) == /\ pc[t] = "next"
              /\ nextId' = [nextId EXCEPT ![Home[t]] = FirstId(Home[t])]
              /\ Goto(t, "return")
              /\ UNCHANGED <<VALUE, maxId, lock, read, failures, era, segmentEra,
                             issued, repeated, overlapped>>

\* nextId++, which reads the field and writes it.
ReadNext(t) == /\ pc[t] = "read"
               /\ read' = [read EXCEPT ![t] = nextId[Home[t]]]
               /\ Goto(t, "write")
               /\ UNCHANGED <<VALUE, nextId, maxId, lock, failures, era, segmentEra,
                              issued, repeated, overlapped>>

WriteNext(t) == /\ pc[t] = "write"
                /\ read[t] < MaxValue
                /\ nextId' = [nextId EXCEPT ![Home[t]] = read[t] + 1]
                /\ Goto(t, "return")
                /\ UNCHANGED <<VALUE, maxId, lock, read, failures, era, segmentEra,
                               issued, repeated, overlapped>>

\* return nextId
Return(t) == /\ pc[t] = "return"
             /\ issued' = issued \cup {<<segmentEra[Home[t]], nextId[Home[t]]>>}
             /\ repeated' = (repeated \/ issued' = issued)
             /\ lock' = lock \ {t}
             /\ Goto(t, "idle")
             /\ UNCHANGED <<VALUE, nextId, maxId, read, failures, era, segmentEra,
                            overlapped>>

-----------------------------------------------------------------------------
(* restart                                                                 *)

\* UPDATE ... SET VALUE = 0
Restart(t) == /\ pc[t] = "idle" /\ era < MaxRestarts
              /\ VALUE' = 0 /\ era' = era + 1
              /\ Goto(t, "restartNext")
              /\ UNCHANGED <<nextId, maxId, lock, read, failures, segmentEra,
                             issued, repeated, overlapped>>

\* nextId = 0
RestartNext(t) == /\ pc[t] = "restartNext"
                  /\ nextId' = [nextId EXCEPT ![Home[t]] = 0]
                  /\ overlapped' = (overlapped \/ Busy(Home[t]))
                  /\ Goto(t, "restartMax")
                  /\ UNCHANGED <<VALUE, maxId, lock, read, failures, era, segmentEra,
                                 issued, repeated>>

\* maxId = 0
RestartMax(t) == /\ pc[t] = "restartMax"
                 /\ maxId' = [maxId EXCEPT ![Home[t]] = 0]
                 /\ Goto(t, "idle")
                 /\ UNCHANGED <<VALUE, nextId, lock, read, failures, era, segmentEra,
                                issued, repeated, overlapped>>

Next == \E t \in Thread : \/ Enter(t) \/ Fetch(t) \/ FetchFails(t)
                          \/ SetMax(t) \/ SetNext(t)
                          \/ ReadNext(t) \/ WriteNext(t) \/ Return(t)
                          \/ Restart(t) \/ RestartNext(t) \/ RestartMax(t)

Spec == Init /\ [][Next]_vars

-----------------------------------------------------------------------------
\* No number is given twice between two restarts, by the threads of any
\* instance: the numbers of a segment belong to the era it was taken in, for
\* other instances go on with theirs after a restart.  A restart that empties
\* its instance's segment while a call is inside, or lets one in between its
\* two assignments, breaks this: it does not take the lock.
NumbersOnce == overlapped \/ ~repeated
=============================================================================

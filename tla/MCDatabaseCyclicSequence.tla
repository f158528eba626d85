---------------------- MODULE MCDatabaseCyclicSequence ----------------------
(***************************************************************************)
(* DatabaseCyclicSequence with two threads and a few cycles.               *)
(***************************************************************************)
EXTENDS DatabaseCyclicSequence

CONSTANTS t1, t2

TwoThreads == {t1, t2}
Forward == {1}
=============================================================================

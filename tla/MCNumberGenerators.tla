------------------------- MODULE MCNumberGenerators -------------------------
(***************************************************************************)
(* NumberGenerators with two calling threads, and two threads of one       *)
(* instance and one of another for the simple sequence.                    *)
(***************************************************************************)
EXTENDS NumberGenerators, TLC

CONSTANTS t1, t2, t3

TwoThreads == {t1, t2}
TwoInstances == t1 :> 1 @@ t2 :> 1 @@ t3 :> 2
Forward == {1}
BothWays == {1, -1}
=============================================================================

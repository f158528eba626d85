-------------------------- MODULE MCStandaloneLock --------------------------
(***************************************************************************)
(* StandaloneLock with three threads.  No symmetry: the runs check a       *)
(* temporal property.                                                      *)
(***************************************************************************)
EXTENDS StandaloneLock

CONSTANTS t1, t2, t3

MCThread == {t1, t2, t3}
AllModes == {"try", "timed", "lock"}
OnlyTimed == {"timed"}
TimedAndLock == {"timed", "lock"}
=============================================================================

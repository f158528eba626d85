--------------------------- MODULE MCMethodGuards ---------------------------
(***************************************************************************)
(* MethodGuards with three threads that make every kind of call.  Over     *)
(* Redis the limit changes between calls; on one JVM it is two, and only   *)
(* the timed call of the lock is interrupted.  With a permit nobody calls  *)
(* lock(), which never gives up.                                           *)
(***************************************************************************)
EXTENDS MethodGuards

CONSTANTS t1, t2, t3

MCThread == {t1, t2, t3}
OneAndTwo == {1, 2}
OnlyTwo == {2}
AllModes == {"try", "timed", "block"}
LockModes == {"try", "timed", "lock"}
InnerModes == {"try", "timed"}
TimedOnly == {"timed"}
PermitModes == {"try", "block"}
=============================================================================

---------------------------- MODULE MCRedisLock ----------------------------
(***************************************************************************)
(* RedisLock with two instances, the first with two threads that contend.  *)
(***************************************************************************)
EXTENDS RedisLock, TLC

CONSTANTS a, b, t1, t2, t3

MCJvm == {a, b}
MCThread == {t1, t2, t3}
MCJvmOf == t1 :> a @@ t2 :> a @@ t3 :> b
=============================================================================

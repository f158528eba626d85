----------------------------- MODULE MCFailover -----------------------------
(***************************************************************************)
(* Failover with two incarnations of one instance and one of another, two  *)
(* hosts, a master and a slave, and two calling threads.                   *)
(***************************************************************************)
EXTENDS Failover, TLC

CONSTANTS a1, a2, b1, a, b,        \* ids and addresses of members
          h1, h2, db0, db1, c1, c2 \* hosts, sources, and threads that use them

MCId == {a1, a2, b1}
MCAddress == a1 :> a @@ a2 :> a @@ b1 :> b
Hosts == {h1, h2}
OneSlave == {db1}
TwoCallers == {c1, c2}
=============================================================================

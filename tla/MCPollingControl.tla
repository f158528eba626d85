-------------------------- MODULE MCPollingControl --------------------------
(***************************************************************************)
(* PollingControl with two instances and two workers.                      *)
(***************************************************************************)
EXTENDS PollingControl

CONSTANTS n1, n2, w1, w2
=============================================================================

---------------------------- MODULE MethodGuards ----------------------------
(***************************************************************************)
(* The guards of methods, in one of two deployments that is chosen in the  *)
(* initial state: permits over Redis (RedisConcurrency, whose names stay   *)
(* as they are), or lock and permits of one JVM (StandaloneGuards).  What  *)
(* a deployment does not use has one initial value or does not matter.     *)
(***************************************************************************)
EXTENDS RedisConcurrency

CONSTANTS LockMode, InnerMode, Interrupted, PermitMode,  \* of StandaloneGuards
          JvmLimits,                                     \* its values of the permits expression
          NoOne

VARIABLES deployment,
          locks, lockPc, lockMode, failed,
          semaphore, permitPc, permitMode, permitLimit, nested

Guards == INSTANCE StandaloneGuards WITH Limits <- JvmLimits

guardVars == <<locks, lockPc, lockMode, failed,
               semaphore, permitPc, permitMode, permitLimit, nested>>

ACall == CHOOSE c \in Mode \X Limits : TRUE

GuardsInit == /\ deployment \in {"redis", "standalone"}
              /\ Init /\ (deployment = "standalone" =>
                             \A t \in Thread : <<mode[t], limit[t]>> = ACall)
              /\ Guards!Init

GuardsNext == /\ UNCHANGED deployment
              /\ \/ deployment = "redis" /\ Next /\ UNCHANGED guardVars
                 \/ deployment = "standalone" /\ Guards!Next /\ UNCHANGED vars

GuardsSpec == GuardsInit /\ [][GuardsNext]_<<deployment, vars, guardVars>> /\ Guards!Fairness

-----------------------------------------------------------------------------
\* Properties of the guards on one JVM, under their names; ImplementsPermits
\* of the permits over Redis is inherited.
MapNamesTheHolder == Guards!MapNamesTheHolder
ImplementsLock == Guards!ImplementsLock
StandalonePermits == Guards!StandalonePermits
CallsGetOn == Guards!CallsGetOn
=============================================================================

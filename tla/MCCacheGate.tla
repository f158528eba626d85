---------------------------- MODULE MCCacheGate ----------------------------
(***************************************************************************)
(* CacheGate with two readers of one instance, or three of two instances.  *)
(***************************************************************************)
EXTENDS CacheGate, TLC

CONSTANTS r1, r2, r3, w1, w2, i1, i2, o1, o2, o3, o4

MCReaders == {r1, r2, r3}
TwoReaders == {r1, r2}
MCWriters == {w1, w2}
NoWriters == {}
MCRenews == {w1}
MCInstance == r1 :> i1 @@ r2 :> i1 @@ r3 :> i2
OneInstance == r1 :> i1 @@ r2 :> i1
MCObjects == {o1, o2, o3, o4}

\* The defaults of the annotations; a value renewed by its hits, as that of
\* ClientManagerImpl, which also has the behaviours of the defaults; an eternal
\* one with renewals that are not, as that of PageManagerImpl.
Timed == [timeToLive |-> TRUE, timeToIdle |-> FALSE, renewTimeToLive |-> TRUE]
RenewedByHits == [Timed EXCEPT !.timeToIdle = TRUE]
Eternal == [Timed EXCEPT !.timeToLive = FALSE]

MCAnnotations == {RenewedByHits, Eternal}
OneAnnotation == {Timed}
=============================================================================

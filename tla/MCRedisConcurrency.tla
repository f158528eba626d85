------------------------- MODULE MCRedisConcurrency -------------------------
(***************************************************************************)
(* RedisConcurrency with three threads and limits of one and two.          *)
(***************************************************************************)
EXTENDS RedisConcurrency

CONSTANTS t1, t2, t3

MCThread == {t1, t2, t3}
OneAndTwo == {1, 2}
OnlyOne == {1}
AllModes == {"try", "timed", "block"}
OnlyTry == {"try"}
=============================================================================

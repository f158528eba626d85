---------------------------- MODULE ProgressBar ----------------------------
(***************************************************************************)
(* The progress bar and the indicator of ironrhino.core.js, which the      *)
(* global events of jQuery's requests drive.  At most one bar is in the    *)
(* document (it is found by its id), so a timer that removes another bar   *)
(* has nothing to do and only the removal of the present one is kept.      *)
(*                                                                         *)
(* Of the percentage only one thing matters: whether it is a number.  An   *)
(* interval whose bar was removed reads undefined from the data of the     *)
(* removed element, adds to it, and shows NaN.                             *)
(***************************************************************************)
EXTENDS Naturals

CONSTANTS MaxActive,   \* bound of the requests under way
          MaxOrphans   \* bound of the intervals no bar holds; nothing begins beyond it

VARIABLES active,    \* jQuery.active: the global requests under way
          bar,       \* whether #progress-bar is in the document
          leaving,   \* whether a timer is about to remove it
          number,    \* whether its percentage is a number
          interval,  \* whether the interval in its data is ticking
          orphans,   \* how many intervals tick that no bar's data holds
          indicator, \* what #indicator shows
          hurried    \* history: a request began while a bar was leaving

vars == <<active, bar, leaving, number, interval, orphans, indicator, hurried>>

TypeOK == /\ active \in 0..MaxActive
          /\ orphans \in 0..MaxOrphans
          /\ {bar, leaving, number, interval, hurried} \subseteq BOOLEAN
          /\ indicator \in {"hidden", "loading", "error"}
          /\ ~bar => ~leaving /\ ~interval

Init == /\ active = 0 /\ orphans = 0
        /\ bar = FALSE /\ leaving = FALSE /\ number = TRUE /\ interval = FALSE
        /\ indicator = "hidden"
        /\ hurried = FALSE

-----------------------------------------------------------------------------
\* ajaxStart, at the first of the requests under way: the indicator is shown
\* and simulate puts an interval into the data of the bar, new or not.
Start == /\ active = 0
         /\ orphans < MaxOrphans
         /\ active' = 1
         /\ indicator' = "loading"
         /\ bar' = TRUE
         /\ number' = TRUE
         /\ interval' = TRUE
         /\ orphans' = IF interval THEN orphans + 1 ELSE orphans
         /\ hurried' = (hurried \/ leaving)
         /\ UNCHANGED leaving

\* Another request begins: no global event.
StartAnother == /\ active \in 1..(MaxActive - 1)
                /\ active' = active + 1
                /\ UNCHANGED <<bar, leaving, number, interval, orphans, indicator, hurried>>

\* An xhr reports its progress: show without simulate stops the simulation,
\* but not when show has to make the bar.
Progress == /\ active > 0
            /\ bar' = TRUE
            /\ number' = TRUE
            /\ interval' = FALSE
            /\ UNCHANGED <<active, leaving, orphans, indicator, hurried>>

\* Mutant: hide shows the full bar as a simulated step, and stops nothing.
HideSimulated == /\ leaving' = (leaving \/ bar)
                 /\ number' = (number \/ bar)
                 /\ UNCHANGED <<bar, interval>>

\* hide: a full bar, without simulation, that is removed after 200 ms.
Hide == /\ leaving' = (leaving \/ bar)
        /\ number' = (number \/ bar)
        /\ interval' = FALSE
        /\ UNCHANGED bar

\* A request ends: ajaxSuccess or ajaxError, ajaxComplete, then loadend, whose
\* second hide finds the same bar.
Complete == /\ active > 0
            /\ active' = active - 1
            /\ indicator' \in {"hidden", "error"}
            /\ Hide
            /\ UNCHANGED <<orphans, hurried>>

\* The timer of hide: pb.remove().  The interval in its data goes on.
Remove == /\ leaving
          /\ interval => orphans < MaxOrphans
          /\ bar' = FALSE /\ leaving' = FALSE
          /\ interval' = FALSE
          /\ orphans' = IF interval THEN orphans + 1 ELSE orphans
          /\ UNCHANGED <<active, number, indicator, hurried>>

\* The interval of the bar ticks: it stops itself near the end.
Tick == /\ interval
        /\ interval' \in IF number THEN BOOLEAN ELSE {TRUE}
        /\ UNCHANGED <<active, bar, leaving, number, orphans, indicator, hurried>>

\* An interval that has lost its bar ticks: it shows NaN, in a new bar when
\* there is none.
TickOrphan == /\ orphans > 0
              /\ bar' = TRUE
              /\ number' = FALSE
              /\ UNCHANGED <<active, leaving, interval, orphans, indicator, hurried>>

Next == \/ Start \/ StartAnother \/ Progress \/ Complete
        \/ Remove \/ Tick \/ TickOrphan

Spec == Init /\ [][Next]_vars

-----------------------------------------------------------------------------
\* When no request is under way the bar is gone or about to go and nothing is
\* announced as loading, however requests overlapped and whichever of them
\* failed, unless a request once began while a bar was leaving: its interval
\* then outlives the bar and brings it back for ever.
PageSettles == active = 0 => /\ indicator # "loading"
                             /\ bar => leaving \/ hurried
=============================================================================

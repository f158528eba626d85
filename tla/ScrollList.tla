----------------------------- MODULE ScrollList -----------------------------
(***************************************************************************)
(* A list that grows as the page is scrolled (.scroll-list .load-more in   *)
(* ironrhino.core.js).  The items are the positions 1, 2, ... in the order *)
(* the server keeps them; new ones are posted at the end.  A request names *)
(* the position of the last item shown and is answered with at most one    *)
(* page of the items behind it, as they are when the server handles it.    *)
(***************************************************************************)
EXTENDS Naturals, Sequences

CONSTANTS pagesize,    \* at least one
          Items,       \* bound of the items posted
          MaxHandlers, \* bound of the scroll handlers: no load begins beyond it
          MaxFetches     \* bound of the requests under way

VARIABLES posted,   \* how many items the server has
          shown,    \* the positions in the list, from top to bottom
          loading,  \* the class "loading" of the button
          ended,    \* the button is disabled, for good
          handlers, \* the handlers on the window's scroll event
          fetches,  \* the requests under way: the position each was given
          failed    \* history: a request failed since the handlers were last set

vars == <<posted, shown, loading, ended, handlers, fetches, failed>>

TypeOK == /\ posted \in 0..Items
          /\ shown \in Seq(1..Items)
          /\ {loading, ended, failed} \subseteq BOOLEAN
          /\ handlers \in 0..MaxHandlers
          /\ fetches \in Seq(0..Items)
          /\ loading <=> fetches # <<>>

Last == IF shown = <<>> THEN 0 ELSE shown[Len(shown)]

\* The page comes with some items and, since it has a list, one handler.
Init == /\ posted \in 0..Items
        /\ \E n \in 0..posted : shown = [i \in 1..n |-> i]
        /\ loading = FALSE /\ ended = FALSE
        /\ handlers = 1
        /\ fetches = <<>>
        /\ failed = FALSE

Post == /\ posted < Items
        /\ posted' = posted + 1
        /\ UNCHANGED <<shown, loading, ended, handlers, fetches, failed>>

-----------------------------------------------------------------------------
\* Mutant: a click while the list is loading sends another request.
ClickedUnguarded == IF ended \/ Len(fetches) >= MaxFetches
                    THEN UNCHANGED <<loading, fetches>>
                    ELSE /\ loading' = TRUE
                         /\ fetches' = Append(fetches, Last)

\* What a click on the button does: nothing while it is loading, and jQuery
\* calls no delegated handler of a disabled button.
Clicked == IF ended \/ loading
           THEN UNCHANGED <<loading, fetches>>
           ELSE /\ loading' = TRUE
                /\ fetches' = Append(fetches, Last)

Click == /\ handlers < MaxHandlers
         /\ Clicked
         /\ UNCHANGED <<posted, shown, ended, handlers, failed>>

\* The window is scrolled to its end: the first handler takes all of them away
\* and clicks; those that run after it click in vain.
Scroll == /\ handlers > 0
          /\ handlers' = 0
          /\ Clicked
          /\ UNCHANGED <<posted, shown, ended, failed>>

\* The items behind a position, one page at most.
Page(since) == [i \in 1..(IF posted - since < pagesize THEN posted - since ELSE pagesize)
                  |-> since + i]

\* The request that is answered, of those under way.
Ends(i) == /\ fetches' = SubSeq(fetches, 1, i - 1) \o SubSeq(fetches, i + 1, Len(fetches))
           /\ loading' = FALSE

\* Mutant: success sets no handler again.
HandlersForgotten(page) == handlers

\* A full page sets one more handler.
HandlersAfter(page) == IF Len(page) < pagesize THEN handlers ELSE handlers + 1

\* success, then complete: a short page ends the list for good.
Success == /\ \E i \in DOMAIN fetches :
                LET page == Page(fetches[i])
                IN  /\ Ends(i)
                    /\ shown' = shown \o page
                    /\ ended' = (ended \/ Len(page) < pagesize)
                    /\ handlers' = HandlersAfter(page)
                    /\ failed' = (failed /\ Len(page) < pagesize)
           /\ UNCHANGED posted

\* The request fails: complete only.
Failure == /\ \E i \in DOMAIN fetches : Ends(i)
           /\ failed' = TRUE
           /\ UNCHANGED <<posted, shown, ended, handlers>>

Next == Post \/ Click \/ Scroll \/ Success \/ Failure

Spec == Init /\ [][Next]_vars

-----------------------------------------------------------------------------
\* Nothing is shown twice, skipped or out of order, whatever is clicked and
\* scrolled while a page is on its way and whatever is posted meanwhile.
ListInOrder == \A i \in DOMAIN shown : shown[i] = i

\* A list that may have more items goes on when the page is scrolled: it has a
\* handler, or a request on its way that sets one, unless a request failed.
ScrollGoesOn == ended \/ loading \/ handlers > 0 \/ failed
=============================================================================

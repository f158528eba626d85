------------------------------- MODULE Portal -------------------------------
(***************************************************************************)
(* A savable portal (ironrhino.portal.js): portlets in columns, which the  *)
(* user moves, folds and closes, and which a reload of the page puts back  *)
(* from what localStorage holds.  One tab.  The whole screen is left out.  *)
(***************************************************************************)
EXTENDS Naturals, Sequences, SequencesExt, Lists

CONSTANTS Portlets,
          Default,   \* the columns as the server renders them: sequences of portlets
          None       \* an item localStorage does not have

VARIABLES columns, \* the portlets of each column of the document
          folded,  \* the portlets that are folded in the document
          layoutItem, hiddenItem, foldedItem \* localStorage

vars == <<columns, folded, layoutItem, hiddenItem, foldedItem>>

Shown == UNION {ToSet(columns[c]) : c \in DOMAIN columns}

TypeOK == /\ columns \in [DOMAIN Default -> Seq(Portlets)]
          /\ folded \subseteq Shown
          /\ layoutItem \in {None} \cup [DOMAIN Default -> Seq(Portlets)]
          /\ {hiddenItem, foldedItem} \subseteq {None} \cup (Seq(Portlets) \ {<<>>})

Init == /\ columns = Default /\ folded = {}
        /\ layoutItem = None /\ hiddenItem = None /\ foldedItem = None

-----------------------------------------------------------------------------
\* What an item holds, split at its commas.
Listed(item) == IF item = None THEN <<>> ELSE item

Without(cols, p) == [c \in DOMAIN cols |-> Only(cols[c], Portlets \ {p})]

\* A portlet is dragged to a place: receive, remove and update save the layout.
Move(p, c, k) ==
  LET rest == Without(columns, p)
  IN  /\ p \in Shown
      /\ k \in 0..Len(rest[c])
      /\ columns' = [rest EXCEPT ![c] = InsertAt(rest[c], k + 1, p)]
      /\ layoutItem' = columns'
      /\ UNCHANGED <<folded, hiddenItem, foldedItem>>

\* The list with p pushed, if $.inArray does not find it there.
Listing(item, p) == IF Contains(Listed(item), p) THEN Listed(item)
                                                 ELSE Append(Listed(item), p)

\* Mutant: the portlets that were closed before are forgotten.
CloseOnly(p) == /\ p \in Shown
                /\ hiddenItem' = <<p>>
                /\ columns' = Without(columns, p)
                /\ folded' = folded \ {p}
                /\ UNCHANGED <<layoutItem, foldedItem>>

\* A portlet is closed: the layout is not saved and still names it.
Close(p) == /\ p \in Shown
            /\ hiddenItem' = Listing(hiddenItem, p)
            /\ columns' = Without(columns, p)
            /\ folded' = folded \ {p}
            /\ UNCHANGED <<layoutItem, foldedItem>>

\* splice($.inArray(p, list), 1): an index of -1 takes the last one away.
Splice(list, p) == IF Contains(list, p) THEN WithoutFirsts(list, {p})
                   ELSE IF list = <<>> THEN list ELSE Front(list)

\* An empty list is deleted.
Stored(list) == IF list = <<>> THEN None ELSE list

\* A click that folds or unfolds.
Fold(p) == /\ p \in Shown
           /\ IF p \in folded
              THEN /\ folded' = folded \ {p}
                   /\ foldedItem' = Stored(Splice(Listed(foldedItem), p))
              ELSE /\ folded' = folded \cup {p}
                   /\ foldedItem' = Listing(foldedItem, p)
           /\ UNCHANGED <<columns, layoutItem, hiddenItem>>

\* The columns after a reload: what is hidden is taken out, then the portlets
\* of each stored column that are still there are appended to it in order.
Rendered ==
  LET hidden == ToSet(Listed(hiddenItem))
      visible == [c \in DOMAIN Default |-> Only(Default[c], Portlets \ hidden)]
      there == UNION {ToSet(visible[c]) : c \in DOMAIN visible}
      placed == UNION {ToSet(layoutItem[c]) : c \in DOMAIN layoutItem}
  IN  IF layoutItem = None THEN visible
      ELSE [c \in DOMAIN Default |->
              Only(visible[c], Portlets \ placed)
                \o Only(layoutItem[c], there)]

\* The page is loaded again.  The portlets that are listed are folded by a
\* click, which finds them on the list.
Reload == /\ columns' = Rendered
          /\ folded' = {p \in Shown' : Contains(Listed(foldedItem), p)}
          /\ UNCHANGED <<layoutItem, hiddenItem, foldedItem>>

\* The three items are deleted and the page is loaded again.
Restore == /\ layoutItem' = None /\ hiddenItem' = None /\ foldedItem' = None
           /\ columns' = Default /\ folded' = {}

Next == \/ \E p \in Portlets, c \in DOMAIN columns :
             \E k \in 0..Len(columns[c]) : Move(p, c, k)
        \/ \E p \in Portlets : Close(p) \/ Fold(p)
        \/ Reload \/ Restore

Spec == Init /\ [][Next]_vars

-----------------------------------------------------------------------------
\* A reload changes nothing the user sees, whatever was moved, closed, folded
\* and reloaded before: the portlets are in their places, those that were closed
\* stay closed, and those that are folded, and no others, are the listed ones.
ReloadKeepsThePortal == /\ Rendered = columns
                        /\ folded = ToSet(Listed(foldedItem)) \cap Shown
=============================================================================

------------------------------ MODULE FrontEnd ------------------------------
(***************************************************************************)
(* The front end: a page that has one of five parts, which is chosen in    *)
(* the initial state: navigation, the progress bar, a list that grows, a   *)
(* form, or a portal.  The parts share no state; what a part does not use  *)
(* has one initial value.                                                  *)
(***************************************************************************)
EXTENDS Naturals, Sequences

CONSTANTS None,
          Pages, Views, FolderPage, MaxEntries, MaxLoads,  \* navigation
          MaxActive, MaxOrphans,                           \* progress bar
          pagesize, Items, MaxHandlers, MaxFetches,        \* list
          Buttons, Confirm, FormAction, ButtonAction,      \* form
          MaxSending, MaxTimers,
          Portlets, Default                                \* portal

\* A page of a list has room for an item, a button is in one place of its form
\* only, and the address of the form stands for no button.  None is neither a
\* list nor a layout of portlets.
ASSUME FrontEndAssumption ==
    /\ pagesize \in Nat \ {0}
    /\ {MaxEntries, MaxLoads, MaxActive, MaxOrphans, Items, MaxHandlers, MaxFetches,
        MaxSending, MaxTimers} \subseteq Nat
    /\ Buttons \in Seq({Buttons[i] : i \in DOMAIN Buttons})
    /\ \A i, j \in DOMAIN Buttons : Buttons[i] = Buttons[j] => i = j
    /\ FormAction \notin {Buttons[i] : i \in DOMAIN Buttons}
    /\ Default \in Seq(Seq(Portlets))
    /\ None \notin Seq(Portlets) /\ None \notin [DOMAIN Default -> Seq(Portlets)]

VARIABLES part,
          entries, current, page, view, loads, mkdir, drifted,
          active, bar, leaving, number, interval, orphans, indicator, hurried,
          posted, shown, loading, ended, handlers, fetches, failed,
          clicked, disabled, disposable, disposed, popup, timers, sending,
          scripted, vetoed, unanswered,
          columns, folded, layoutItem, hiddenItem, foldedItem

Navigation == INSTANCE PageNavigation

Bar == INSTANCE ProgressBar

List == INSTANCE ScrollList

Form == INSTANCE FormSubmission

Portlet == INSTANCE Portal

navigationVars == <<entries, current, page, view, loads, mkdir, drifted>>
barVars == <<active, bar, leaving, number, interval, orphans, indicator, hurried>>
listVars == <<posted, shown, loading, ended, handlers, fetches, failed>>
formVars == <<clicked, disabled, disposable, disposed, popup, timers, sending,
              scripted, vetoed, unanswered>>
portletVars == <<columns, folded, layoutItem, hiddenItem, foldedItem>>

vars == <<part, navigationVars, barVars, listVars, formVars, portletVars>>

AnAddress == CHOOSE a \in Navigation!Address : TRUE

Parts == {"navigation", "bar", "list", "form", "portal"}

Init == /\ part \in Parts
        /\ Bar!Init /\ Form!Init /\ Portlet!Init
        /\ Navigation!Init /\ (part # "navigation" => view = AnAddress)
        /\ List!Init /\ (part # "list" => posted = 0)
        /\ part # "form" => ~disposable

Next == /\ UNCHANGED part
        /\ \/ part = "navigation" /\ Navigation!Next
              /\ UNCHANGED <<barVars, listVars, formVars, portletVars>>
           \/ part = "bar" /\ Bar!Next
              /\ UNCHANGED <<navigationVars, listVars, formVars, portletVars>>
           \/ part = "list" /\ List!Next
              /\ UNCHANGED <<navigationVars, barVars, formVars, portletVars>>
           \/ part = "form" /\ Form!Next
              /\ UNCHANGED <<navigationVars, barVars, listVars, portletVars>>
           \/ part = "portal" /\ Portlet!Next
              /\ UNCHANGED <<navigationVars, barVars, listVars, formVars>>

Spec == Init /\ [][Next]_vars

\* Properties of the parts, under their names.
EntriesRestoreThePage == Navigation!EntriesRestoreThePage
DocumentFollowsLocation == Navigation!DocumentFollowsLocation
PageSettles == Bar!PageSettles
ListInOrder == List!ListInOrder
ScrollGoesOn == List!ScrollGoesOn
RightAddress == Form!RightAddress
OneAtATime == Form!OneAtATime
ButtonsReturn == Form!ButtonsReturn
ReloadKeepsThePortal == Portlet!ReloadKeepsThePortal
=============================================================================

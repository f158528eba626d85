--------------------------- MODULE PageNavigation ---------------------------
(***************************************************************************)
(* Navigation without reloading the page (ironrhino.core.js): links and    *)
(* list forms push entries into the browser's history and fetch the page   *)
(* or a part of it; onpopstate fetches what an entry asks for.  Requests   *)
(* are not aborted by later ones and answers come in any order.            *)
(*                                                                         *)
(* An address is a page and a view of it.  The document shows one page in  *)
(* the element "content" and, in it, one view: a part whose id only that   *)
(* page has.  Links that leave the history alone are left out.             *)
(***************************************************************************)
EXTENDS Naturals, Sequences

CONSTANTS Pages, Views,
          FolderPage,  \* the page of ironrhino.upload.js
          None,
          MaxEntries,  \* bound of the history
          MaxLoads     \* bound of the requests under way

Address == Pages \X Views

VARIABLES entries,  \* the history: the address of each entry, whether it has a state,
                    \* whether that names a part, and how its page was left forwards
          current,  \* the present entry
          page,     \* the page shown
          view,     \* the address whose view is shown in it
          loads,    \* the requests under way, in the order they were sent: what is
                    \* asked for, and whether a later one was answered before
          mkdir,    \* the folder that is being made, or None
          drifted   \* history: something has kept the document from its address

vars == <<entries, current, page, view, loads, mkdir, drifted>>

TypeOK == /\ entries \in Seq([address : Address, state : BOOLEAN, part : BOOLEAN,
                              left : {"no", "link", "form", "mkdir"}])
          /\ current \in 1..Len(entries) /\ Len(entries) <= MaxEntries
          /\ page \in Pages /\ view \in {page} \X Views
          /\ loads \in Seq([address : Address, part : BOOLEAN, late : BOOLEAN])
          /\ Len(loads) <= MaxLoads
          /\ mkdir \in {None} \cup ({FolderPage} \X Views)
          /\ drifted \in BOOLEAN

\* The browser has loaded a page: one entry, without a state.
Init == /\ \E a \in Address :
             /\ entries = <<[address |-> a, state |-> FALSE, part |-> FALSE, left |-> "no"]>>
             /\ page = a[1] /\ view = a
        /\ current = 1
        /\ loads = <<>>
        /\ mkdir = None
        /\ drifted = FALSE

Location == entries[current].address

-----------------------------------------------------------------------------
Load(a, part) == /\ Len(loads) < MaxLoads
                 /\ loads' = Append(loads, [address |-> a, part |-> part, late |-> FALSE])

\* Mutant: the entry that is left is not given a state.
PushWithoutReplace(a, part, by) ==
  LET before == SubSeq(entries, 1, current)
  IN  /\ current < MaxEntries
      /\ entries' = Append([before EXCEPT ![current].left = by],
                           [address |-> a, state |-> TRUE, part |-> part, left |-> "no"])
      /\ current' = current + 1

\* history.replaceState({url}) for the entry that is left, which names no part
\* whatever it named before, and history.pushState for the new one.
Push(a, part, by) ==
  LET before == SubSeq(entries, 1, current)
      left == [address |-> Location, state |-> TRUE, part |-> FALSE, left |-> by]
  IN  /\ current < MaxEntries
      /\ entries' = Append([before EXCEPT ![current] = left],
                           [address |-> a, state |-> TRUE, part |-> part, left |-> "no"])
      /\ current' = current + 1

\* The page shown is about to be replaced, with the view asked for in it.
PageIsLeaving == \E i \in DOMAIN loads : ~loads[i].part /\ loads[i].address[1] # page

\* A link of class "view": to a page, or of class "history" to a view of the
\* page it is in, the part of which it replaces.
FollowLink(a, part) == /\ part => a[1] = page
                       /\ Push(a, part, "link")
                       /\ Load(a, part)
                       /\ drifted' = (drifted \/ (part /\ PageIsLeaving))
                       /\ UNCHANGED <<page, view, mkdir>>

\* beforeSubmit of a form of class "history", a list with its conditions: the
\* state it pushes is a string, which names no part, although it fetches one.
SubmitForm(a) == /\ a[1] = page
                 /\ Push(a, FALSE, "form")
                 /\ Load(a, TRUE)
                 /\ drifted' = (drifted \/ PageIsLeaving)
                 /\ UNCHANGED <<page, view, mkdir>>

\* onbeforesubmit refuses, but only after the address has been pushed.
SubmitVetoed(a) == /\ a[1] = page
                   /\ Push(a, FALSE, "form")
                   /\ drifted' = TRUE
                   /\ UNCHANGED <<page, view, loads, mkdir>>

\* Mutant: onpopstate asks for the part that was shown when the entry was left.
PopStatePart(i) == /\ i # current
                   /\ current' = i
                   /\ IF entries[i].state
                      THEN /\ Load(entries[i].address, entries[i].part \/ i < current)
                           /\ drifted' = (drifted \/ (entries[i].part /\ i # current + 1))
                      ELSE UNCHANGED loads /\ drifted' = TRUE
                   /\ UNCHANGED <<entries, page, view, mkdir>>

\* The user goes to another entry; onpopstate fetches what its state names,
\* and nothing for an entry without a state.  An entry that names a part is
\* meant to be reached from the entry before it.
PopState(i) == /\ i # current
               /\ current' = i
               /\ IF entries[i].state
                  THEN /\ Load(entries[i].address, entries[i].part)
                       /\ drifted' = (drifted \/ (entries[i].part /\ i # current + 1))
                  ELSE UNCHANGED loads /\ drifted' = TRUE
               /\ UNCHANGED <<entries, page, view, mkdir>>

\* The button of ironrhino.upload.js that makes a folder: a request first.
MakeFolder(a) == /\ mkdir = None /\ page = FolderPage /\ a[1] = FolderPage
                 /\ mkdir' = a
                 /\ UNCHANGED <<entries, current, page, view, loads, drifted>>

\* Its success reloads the list of files, if the page still has it, and pushes
\* the address of the folder, on whatever page, over an entry left as it is.
FolderMade == /\ mkdir # None
              /\ mkdir' = None
              /\ current < MaxEntries
              /\ entries' = Append([SubSeq(entries, 1, current) EXCEPT ![current].left = "mkdir"],
                                   [address |-> mkdir, state |-> TRUE, part |-> FALSE,
                                    left |-> "no"])
              /\ current' = current + 1
              /\ IF page = FolderPage THEN Load(mkdir, TRUE) ELSE UNCHANGED loads
              /\ drifted' = (drifted \/ page # FolderPage \/ PageIsLeaving)
              /\ UNCHANGED <<page, view>>

-----------------------------------------------------------------------------
\* The request i is no longer under way; those before it are late if it was
\* answered with what it asked for.
Ends(i, answered) ==
  loads' = [j \in 1..(Len(loads) - 1) |->
              IF j < i THEN [loads[j] EXCEPT !.late = loads[j].late \/ answered]
                       ELSE loads[j + 1]]

\* handleResponse: a page is replaced by a page; a part is replaced only if
\* the page shown has it, and in vain otherwise.
Replace(l) == IF l.part /\ l.address[1] # page
              THEN UNCHANGED <<page, view>>
              ELSE page' = l.address[1] /\ view' = l.address

Answer == /\ \E i \in DOMAIN loads :
               /\ Ends(i, TRUE)
               /\ Replace(loads[i])
               /\ drifted' = (drifted \/ loads[i].late)
          /\ UNCHANGED <<entries, current, mkdir>>

\* A request fails: the address has changed, the document has not.
Failure == /\ \E i \in DOMAIN loads : Ends(i, FALSE)
           /\ drifted' = TRUE
           /\ UNCHANGED <<entries, current, page, view, mkdir>>

Next == \/ \E a \in Address, part \in BOOLEAN : FollowLink(a, part)
        \/ \E a \in Address : SubmitForm(a) \/ SubmitVetoed(a) \/ MakeFolder(a)
        \/ \E i \in DOMAIN entries : PopState(i)
        \/ FolderMade \/ Answer \/ Failure

Spec == Init /\ [][Next]_vars

-----------------------------------------------------------------------------
\* Going back restores the whole page: an entry that was left by a link or a
\* form has a state, and it names no part, which could only be shown in the
\* page the part is in.
EntriesRestoreThePage ==
  \A i \in DOMAIN entries :
    entries[i].left \in {"link", "form"} => entries[i].state /\ ~entries[i].part

\* When no request is under way the document shows the page and the view of
\* its address, whatever was followed, submitted and gone back to meanwhile,
\* unless answers overtook each other, a request failed, a submission was
\* vetoed, a view was asked for in a page that was being replaced, or an entry
\* was reached that can not be restored from where the user came.
DocumentFollowsLocation ==
  loads = <<>> => \/ page = Location[1] /\ view = Location
                  \/ drifted
=============================================================================

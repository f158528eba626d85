--------------------------- MODULE FormSubmission ---------------------------
(***************************************************************************)
(* One form of class "ajax" that is answered with JSON (ironrhino.core.js, *)
(* ironrhino.ajaxform.js), its submit buttons, and the one popup that the  *)
(* document has room for (ironrhino.alerts.js): the confirmation a button  *)
(* asks for, or a message.  A press marks the button with class "clicked"; *)
(* the handler of the submit event acts on every button that has the mark. *)
(* The overlay of a popup keeps the mouse from the form, not the keyboard. *)
(***************************************************************************)
EXTENDS Naturals, Sequences, FiniteSets

CONSTANTS Buttons,     \* the submit buttons, as a sequence in document order
          Confirm,     \* the buttons of class "confirm"
          FormAction,  \* the address of the form
          ButtonAction,\* the formaction of each button, or FormAction without one
          MaxSending,  \* bound of the submissions under way
          MaxTimers    \* bound of the timers of popups that are gone

Button == {Buttons[i] : i \in DOMAIN Buttons}

VARIABLES clicked,    \* the buttons of class "clicked"
          disabled,   \* the submit buttons are disabled and of class "loading"
          disposable, \* the class of the form, which never changes
          disposed,   \* the form is of class "disposed"
          popup,      \* the popup: its type, the buttons it is about, whether it
                      \* closes by itself
          timers,     \* how many timers of popups that are gone will still run
          sending,    \* the submissions under way: where to, what was pressed
          scripted,   \* history: a script has submitted the form
          vetoed,     \* history: onbeforesubmit has refused a submission
          unanswered  \* history: a press was left without an answer

vars == <<clicked, disabled, disposable, disposed, popup, timers, sending,
          scripted, vetoed, unanswered>>

NoPopup == [type |-> "none", marked |-> {}, pressed |-> FormAction, timed |-> FALSE]
Message(timed) == [NoPopup EXCEPT !.type = "message", !.timed = timed]
Question(marked, pressed) ==
  [type |-> "confirm", marked |-> marked, pressed |-> pressed, timed |-> FALSE]

TypeOK == /\ clicked \subseteq Button
          /\ {disabled, disposable, disposed, scripted, vetoed, unanswered} \subseteq BOOLEAN
          /\ \/ popup \in {NoPopup, Message(TRUE), Message(FALSE)}
             \/ /\ popup = Question(popup.marked, popup.pressed)
                /\ popup.marked \subseteq clicked
                /\ popup.pressed \in popup.marked \cup {FormAction}
          /\ timers \in 0..MaxTimers
          /\ sending \in Seq([to : {ButtonAction[b] : b \in Button} \cup {FormAction},
                              pressed : Button \cup {FormAction}])
          /\ Len(sending) <= MaxSending

Init == /\ clicked = {} /\ disabled = FALSE
        /\ disposable \in BOOLEAN /\ disposed = FALSE
        /\ popup = NoPopup /\ timers = 0
        /\ sending = <<>>
        /\ scripted = FALSE /\ vetoed = FALSE /\ unanswered = FALSE

-----------------------------------------------------------------------------
\* this.find('.clicked:submit').attr('formaction') || this.formAction(): of
\* the marked buttons the first in the document counts.
To(marked) ==
  IF marked = {} THEN FormAction
  ELSE LET first == CHOOSE i \in DOMAIN Buttons :
                      /\ Buttons[i] \in marked
                      /\ \A j \in 1..(i - 1) : Buttons[j] \notin marked
       IN  ButtonAction[Buttons[first]]

\* Mutant: the buttons are left enabled.
BeforeSubmitLeavesEnabled == UNCHANGED disabled

\* beforeSubmit disables the buttons, before it asks onbeforesubmit.
BeforeSubmit == disabled' = TRUE

\* ajaxsubmit: validation may stop it before anything changes; a submission
\* that onbeforesubmit refuses has no complete that would enable the buttons.
ajaxsubmit(marked, pressed) ==
  \/ /\ BeforeSubmit
     /\ Len(sending) < MaxSending
     /\ sending' = Append(sending, [to |-> To(marked), pressed |-> pressed])
     /\ UNCHANGED vetoed
  \/ BeforeSubmit /\ vetoed' = TRUE /\ UNCHANGED sending
  \/ UNCHANGED <<disabled, sending, vetoed>>

\* The handler of the submit event.  It asks first if any of the marked
\* buttons wants that; after ajaxsubmit the buttons it found lose the mark.
OnSubmit(marked, pressed) ==
  IF marked \cap Confirm # {}
  THEN /\ popup' = Question(marked, pressed)
       /\ unanswered' = (unanswered \/ popup.type = "confirm")
       /\ clicked' = marked
       /\ UNCHANGED <<disabled, sending, vetoed>>
  ELSE /\ ajaxsubmit(marked, pressed)
       /\ clicked' = {}
       /\ UNCHANGED <<popup, unanswered>>

Usable == ~disabled /\ ~disposed

\* A press of a button, or of Enter in a field, which presses the first one.
Press(b) == /\ Usable
            /\ OnSubmit(clicked \cup {b}, b)
            /\ UNCHANGED <<disposable, disposed, timers, scripted>>

\* The browser finds a field invalid: the press marks the button and there is
\* no submit event.
PressInvalid(b) == /\ Usable
                   /\ clicked' = clicked \cup {b}
                   /\ unanswered' = TRUE
                   /\ UNCHANGED <<disabled, disposable, disposed, popup, timers, sending,
                                  scripted, vetoed>>

\* form.submit() by a script, which disabled buttons do not keep from it.
SubmitByScript == /\ OnSubmit(clicked, FormAction)
                  /\ scripted' = TRUE
                  /\ UNCHANGED <<disposable, disposed, timers>>

-----------------------------------------------------------------------------
Confirmed == /\ popup.type = "confirm"
             /\ popup' = NoPopup
             /\ ajaxsubmit(clicked, popup.pressed)
             /\ clicked' = clicked \ popup.marked
             /\ UNCHANGED <<disposable, disposed, timers, scripted, unanswered>>

\* Mutant: a dialog that is cancelled takes no mark away.
CancelledLeavesMarks == /\ popup.type = "confirm"
                        /\ popup' = NoPopup
                        /\ UNCHANGED <<clicked, disabled, disposable, disposed, timers,
                                       sending, scripted, vetoed, unanswered>>

Cancelled == /\ popup.type = "confirm"
             /\ popup' = NoPopup
             /\ clicked' = clicked \ popup.marked
             /\ UNCHANGED <<disabled, disposable, disposed, timers, sending,
                            scripted, vetoed, unanswered>>

\* A popup goes without a callback: a question then stays without an answer.
Vanish(next) == /\ popup' = next
                /\ unanswered' = (unanswered \/ popup.type = "confirm")
                /\ UNCHANGED <<clicked, disabled, disposable, disposed, sending,
                               scripted, vetoed>>

\* A message is shown: $.alerts hides the popup before it, with its timer.
ShowMessage == \E timed \in BOOLEAN : Vanish(Message(timed)) /\ UNCHANGED timers

\* A message is read, or its timer runs.
HideMessage == popup.type = "message" /\ Vanish(NoPopup) /\ UNCHANGED timers

\* keyup of ESC removes the popup, and leaves its timer running.
Escape == /\ popup # NoPopup
          /\ Vanish(NoPopup)
          /\ popup.timed => timers < MaxTimers
          /\ timers' = IF popup.timed THEN timers + 1 ELSE timers

\* The timer of a popup that is gone hides whatever popup is there.
StrayTimer == timers > 0 /\ timers' = timers - 1 /\ Vanish(NoPopup)

-----------------------------------------------------------------------------
\* Mutant: complete enables the buttons of a successful submission only.
CompleteIfSuccessful(i, successful) ==
  /\ sending' = SubSeq(sending, 1, i - 1) \o SubSeq(sending, i + 1, Len(sending))
  /\ disposed' = (disposed \/ (successful /\ disposable))
  /\ disabled' = (disabled /\ (disposed' \/ ~successful))

\* The answer of a submission: a success disposes of a disposable form;
\* complete enables the buttons unless the form is disposed of.
Complete(i, successful) ==
  /\ sending' = SubSeq(sending, 1, i - 1) \o SubSeq(sending, i + 1, Len(sending))
  /\ disposed' = (disposed \/ (successful /\ disposable))
  /\ disabled' = (disabled /\ disposed')

Answered == /\ \E i \in DOMAIN sending, successful \in BOOLEAN : Complete(i, successful)
            /\ UNCHANGED <<clicked, disposable, popup, timers, scripted, vetoed, unanswered>>

Next == \/ \E b \in Button : Press(b) \/ PressInvalid(b)
        \/ SubmitByScript \/ Confirmed \/ Cancelled
        \/ ShowMessage \/ HideMessage \/ Escape \/ StrayTimer
        \/ Answered

Spec == Init /\ [][Next]_vars

-----------------------------------------------------------------------------
\* A submission goes where the button says that was pressed for it, although
\* the handler looks at all the marks in the form, unless a press was once left
\* without an answer: a dialog that vanished, or a field the browser refused.
RightAddress ==
  \A i \in DOMAIN sending :
    \/ sending[i].to = IF sending[i].pressed = FormAction THEN FormAction
                       ELSE ButtonAction[sending[i].pressed]
    \/ unanswered

\* Without scripts that submit the form there is one submission under way at
\* most, whatever the user presses and however dialogs and answers overlap.
OneAtATime == scripted \/ Len(sending) <= 1

\* When no submission is under way the form can be used again, unless it is
\* disposed of or a veto has left its buttons disabled.
ButtonsReturn == sending = <<>> => ~disabled \/ disposed \/ vetoed
=============================================================================

--------------------------- MODULE FrontEndProofs ---------------------------
(***************************************************************************)
(* Proofs about the front end: for each part the invariant that makes its  *)
(* properties inductive, and the theorems that the properties hold.        *)
(***************************************************************************)
EXTENDS FrontEnd, ListTheorems

-----------------------------------------------------------------------------
\* The progress bar.

\* While no request hurried, a bar that is leaving has no interval, no interval
\* has lost its bar, and none ticks when no request is under way.
BarInv ==
  /\ {active, orphans} \subseteq Nat
  /\ PageSettles
  /\ leaving /\ interval => hurried
  /\ orphans > 0 => hurried
  /\ interval => active > 0 \/ hurried

LEMMA BarInit == Init => BarInv
BY DEF Init, Bar!Init, BarInv, PageSettles, Bar!PageSettles

LEMMA BarNext == BarInv /\ [Next]_vars => BarInv'
<1> SUFFICES ASSUME BarInv, [Next]_vars
             PROVE  BarInv'
  OBVIOUS
<1> USE DEF BarInv, PageSettles, Bar!PageSettles
<1>1. CASE Bar!Start
  <2>1. /\ leaving' => hurried'
        /\ hurried => hurried'
        /\ active = 0 /\ active' = 1
    BY <1>1, Zenon DEF Bar!Start
  <2>2. interval => hurried
    BY <2>1
  <2>3. /\ interval => orphans' = orphans + 1
        /\ ~interval => orphans' = orphans
    BY <1>1, Zenon DEF Bar!Start
  <2> QED
    BY <2>1, <2>2, <2>3
<1>2. CASE Bar!StartAnother
  BY <1>2 DEF Bar!StartAnother
<1>3. CASE Bar!Progress
  BY <1>3 DEF Bar!Progress
<1>4. CASE Bar!Complete
  <2>1. /\ bar' => leaving'
        /\ hurried => hurried'
        /\ ~interval'
    BY <1>4, Zenon DEF Bar!Complete, Bar!Hide
  <2>2. /\ active' \in Nat /\ orphans' = orphans
        /\ indicator' # "loading"
    BY <1>4 DEF Bar!Complete
  <2> QED
    BY <2>1, <2>2
<1>5. CASE Bar!Remove
  BY <1>5 DEF Bar!Remove
<1>6. CASE Bar!Tick
  BY <1>6 DEF Bar!Tick
<1>7. CASE Bar!TickOrphan
  BY <1>7 DEF Bar!TickOrphan
<1>8. CASE UNCHANGED barVars
  BY <1>8 DEF barVars
<1>9. Bar!Next \/ UNCHANGED barVars
  BY DEF Next, vars
<1> QED
  BY <1>1, <1>2, <1>3, <1>4, <1>5, <1>6, <1>7, <1>8, <1>9 DEF Bar!Next

\* When no request is under way the bar is gone or about to go and nothing is
\* announced as loading (show, hide and simulate of ironrhino.core.js), for any
\* number of requests and of lost intervals.
THEOREM SettlesTheorem == Spec => []PageSettles
<1>1. BarInv => PageSettles
  BY DEF BarInv
<1> QED
  BY BarInit, BarNext, <1>1, PTL DEF Spec

-----------------------------------------------------------------------------
\* The list that grows.

\* One request at most is under way, and it asks for what follows the list.
ListInv ==
  /\ {posted, handlers} \subseteq Nat
  /\ {shown, fetches} \subseteq Seq(Nat)
  /\ ListInOrder /\ Len(shown) <= posted
  /\ Len(fetches) <= 1
  /\ loading <=> fetches # <<>>
  /\ fetches # <<>> => fetches[1] = Len(shown)
  /\ ScrollGoesOn

\* What is answered is the continuation of the list, as far as it goes.
LEMMA PageFollows ==
  ASSUME posted \in Nat, shown \in Seq(Nat), Len(shown) <= posted, ListInOrder
  PROVE  LET page2 == List!Page(Len(shown))
         IN  /\ page2 \in Seq(Nat) /\ Len(page2) \in Nat
             /\ shown \o page2 \in Seq(Nat)
             /\ Len(shown \o page2) <= posted
             /\ \A i \in DOMAIN (shown \o page2) : (shown \o page2)[i] = i
<1> DEFINE n == Len(shown)
           k == IF posted - n < pagesize THEN posted - n ELSE pagesize
           more == List!Page(n)
<1>1. n \in Nat /\ k \in Nat /\ n + k <= posted
  BY FrontEndAssumption
<1>2. more = [i \in 1..k |-> n + i]
  BY DEF List!Page
<1> HIDE DEF k
<1>3. more \in [1..k -> Nat]
  BY <1>1, <1>2
<1>4. more \in Seq(Nat) /\ Len(more) = k
  BY <1>1, <1>3
<1> HIDE DEF more
<1>5. /\ shown \o more \in Seq(Nat)
      /\ Len(shown \o more) = n + k
      /\ \A i \in 1..(n + k) : (shown \o more)[i] = IF i <= n THEN shown[i] ELSE more[i - n]
  BY <1>1, <1>4, ConcatProperties
<1>6. ASSUME NEW i \in 1..(n + k)
      PROVE  (shown \o more)[i] = i
  <2>1. CASE i <= n
    BY <1>1, <1>5, <1>6, <2>1 DEF ListInOrder, List!ListInOrder
  <2>2. CASE ~(i <= n)
    <3>1. i - n \in 1..k
      BY <1>1, <1>6, <2>2
    <3> QED
      BY <1>1, <1>2, <1>5, <1>6, <2>2, <3>1
  <2> QED
    BY <2>1, <2>2
<1>7. DOMAIN (shown \o more) = 1..(n + k)
  BY <1>1, <1>5
<1> QED
  BY <1>1, <1>4, <1>5, <1>6, <1>7 DEF more

LEMMA ListInit == Init => ListInv
<1> SUFFICES ASSUME Init
             PROVE  ListInv
  OBVIOUS
<1> Items \in Nat
  BY FrontEndAssumption
<1>1. /\ posted \in 0..Items /\ handlers = 1 /\ fetches = <<>> /\ ~loading
      /\ \E n \in 0..posted : shown = [i \in 1..n |-> i]
  BY Zenon DEF Init, List!Init
<1>2. PICK n \in 0..posted : shown = [i \in 1..n |-> i]
  BY <1>1
<1>3. n \in Nat /\ shown \in [1..n -> Nat]
  BY <1>1, <1>2
<1>4. shown \in Seq(Nat) /\ Len(shown) = n
  BY <1>3
<1>5. ListInOrder
  BY <1>2, <1>3 DEF ListInOrder, List!ListInOrder
<1> QED
  BY <1>1, <1>2, <1>3, <1>4, <1>5, EmptySeq DEF ListInv, ScrollGoesOn, List!ScrollGoesOn

\* The request that ends was the only one.
LEMMA OnlyFetch ==
  ASSUME ListInv, NEW i \in DOMAIN fetches, List!Ends(i)
  PROVE  i = 1 /\ fetches # <<>> /\ fetches' = <<>> /\ ~loading'
<1>1. fetches \in Seq(Nat) /\ Len(fetches) <= 1
  BY DEF ListInv
<1>2. Len(fetches) \in Nat /\ i \in 1..Len(fetches)
  BY <1>1, LenProperties
<1>3. \A n \in Nat : \A j \in 1..n : n <= 1 => j = 1 /\ n = 1
  OBVIOUS
<1>4. i = 1 /\ Len(fetches) = 1
  BY <1>1, <1>2, <1>3, Zenon
<1>5. fetches # <<>>
  BY <1>4, Len(<<>>) = 0
<1>6. SubSeq(fetches, 1, i - 1) = <<>> /\ SubSeq(fetches, i + 1, Len(fetches)) = <<>>
  BY <1>4, SubSeqEmpty
<1>7. <<>> \o <<>> = <<>>
  BY EmptySeq, ConcatEmptySeq
<1> QED
  BY <1>4, <1>5, <1>6, <1>7 DEF List!Ends

\* A click asks for what follows the list, unless it has ended or is loading.
LEMMA ClickAsks ==
  ASSUME ListInv, List!Clicked
  PROVE  /\ fetches' \in Seq(Nat) /\ Len(fetches') <= 1
         /\ loading' <=> fetches' # <<>>
         /\ fetches' # <<>> => fetches'[1] = Len(shown)
         /\ ended \/ loading'
<1>1. CASE ended \/ loading
  BY <1>1 DEF ListInv, List!Clicked
<1>2. CASE ~(ended \/ loading)
  <2>1. loading' /\ fetches' = Append(fetches, List!Last) /\ fetches = <<>>
    BY <1>2 DEF ListInv, List!Clicked
  <2>2. List!Last = Len(shown) /\ Len(shown) \in Nat
    BY DEF ListInv, ListInOrder, List!ListInOrder, List!Last
  <2>3. fetches' = <<Len(shown)>>
    BY <2>1, <2>2
  <2> QED
    BY <2>1, <2>2, <2>3
<1> QED
  BY <1>1, <1>2

LEMMA ListNext == ListInv /\ [Next]_vars => ListInv'
<1> SUFFICES ASSUME ListInv, [Next]_vars
             PROVE  ListInv'
  OBVIOUS
<1> USE DEF ListInOrder, List!ListInOrder, ScrollGoesOn, List!ScrollGoesOn
<1>1. CASE List!Post
  BY <1>1 DEF ListInv, List!Post
<1>2. CASE List!Click
  <2>1. /\ List!Clicked
        /\ UNCHANGED <<posted, shown, handlers>>
        /\ ended => ended'
        /\ failed => failed'
    BY <1>2 DEF List!Click
  <2> QED
    BY <2>1, ClickAsks DEF ListInv
<1>3. CASE List!Scroll
  <2>1. /\ List!Clicked
        /\ handlers' = 0
        /\ UNCHANGED <<posted, shown>>
        /\ ended => ended'
    BY <1>3 DEF List!Scroll
  <2> QED
    BY <2>1, ClickAsks DEF ListInv
<1>4. CASE List!Success
  <2>1. PICK i \in DOMAIN fetches :
          LET page2 == List!Page(fetches[i])
          IN  /\ List!Ends(i)
              /\ shown' = shown \o page2
              /\ ended' = (ended \/ Len(page2) < pagesize)
              /\ handlers' = List!HandlersAfter(page2)
              /\ failed' = (failed /\ Len(page2) < pagesize)
    BY <1>4 DEF List!Success
  <2>2. posted' = posted
    BY <1>4 DEF List!Success
  <2>3. i = 1 /\ fetches' = <<>> /\ ~loading' /\ fetches[i] = Len(shown)
    BY <2>1, OnlyFetch DEF ListInv
  <2> DEFINE page2 == List!Page(Len(shown))
  <2>4. /\ page2 \in Seq(Nat) /\ Len(page2) \in Nat
        /\ shown \o page2 \in Seq(Nat)
        /\ Len(shown \o page2) <= posted
        /\ \A j \in DOMAIN (shown \o page2) : (shown \o page2)[j] = j
    BY PageFollows DEF ListInv
  <2>5. /\ shown' = shown \o page2
        /\ Len(page2) < pagesize => ended'
        /\ handlers' = IF Len(page2) < pagesize THEN handlers ELSE handlers + 1
    BY <2>1, <2>3 DEF List!HandlersAfter
  <2> HIDE DEF page2
  <2>6. handlers \in Nat /\ pagesize \in Nat
    BY FrontEndAssumption DEF ListInv
  <2>7. handlers' \in Nat /\ (ended' \/ handlers' > 0)
    <3>1. CASE Len(page2) < pagesize
      BY <2>5, <2>6, <3>1
    <3>2. CASE ~(Len(page2) < pagesize)
      BY <2>5, <2>6, <3>2
    <3> QED
      BY <3>1, <3>2
  <2> QED
    BY <2>2, <2>3, <2>4, <2>5, <2>7, EmptySeq DEF ListInv
<1>5. CASE List!Failure
  <2>1. PICK i \in DOMAIN fetches : List!Ends(i)
    BY <1>5 DEF List!Failure
  <2>2. fetches' = <<>> /\ ~loading'
    BY <2>1, OnlyFetch
  <2>3. /\ UNCHANGED <<posted, shown, handlers>>
        /\ failed'
    BY <1>5 DEF List!Failure
  <2> QED
    BY <2>2, <2>3, EmptySeq DEF ListInv
<1>6. CASE UNCHANGED listVars
  BY <1>6 DEF ListInv, listVars
<1>7. List!Next \/ UNCHANGED listVars
  BY DEF Next, vars
<1> QED
  BY <1>1, <1>2, <1>3, <1>4, <1>5, <1>6, <1>7 DEF List!Next

\* Nothing is shown twice, skipped or out of order (the buttons and scroll
\* handlers of ".load-more"), for any page size and whatever is posted.
THEOREM ListTheorem == Spec => []ListInOrder
<1>1. ListInv => ListInOrder
  BY DEF ListInv
<1> QED
  BY ListInit, ListNext, <1>1, PTL DEF Spec

\* A list that may have more goes on when it is scrolled, unless a request failed.
THEOREM ScrollTheorem == Spec => []ScrollGoesOn
<1>1. ListInv => ScrollGoesOn
  BY DEF ListInv
<1> QED
  BY ListInit, ListNext, <1>1, PTL DEF Spec

-----------------------------------------------------------------------------
\* The form.

Pressed == Form!Button \cup {FormAction}
Submission == [to : {Form!To(marked) : marked \in SUBSET Form!Button}, pressed : Pressed]

\* The dialog is about marks that are still there, one of which asks for it.
\* Without a press left unanswered it is about the one button that was pressed,
\* and no button is marked without it.  Without scripts no submission begins
\* while one is under way, because its buttons are disabled, or is put off by a
\* dialog.
FormInv ==
  /\ sending \in Seq(Submission)
  /\ clicked \subseteq Form!Button
  /\ popup.type = "confirm" => /\ popup.marked \subseteq clicked
                               /\ popup.marked \cap Confirm # {}
                               /\ popup.pressed \in Pressed
  /\ \/ unanswered
     \/ popup.type # "confirm" /\ clicked = {}
     \/ /\ popup.type = "confirm"
        /\ popup.pressed \in Form!Button
        /\ popup.marked = {popup.pressed} /\ clicked = {popup.pressed}
  /\ \/ scripted
     \/ sending = <<>>
     \/ Len(sending) = 1 /\ disabled /\ popup.type # "confirm"
  /\ ButtonsReturn
  /\ RightAddress

\* Of one marked button the address is its own, of none the form's.
LEMMA AddressOfOne ==
  /\ Form!To({}) = FormAction
  /\ \A b \in Form!Button : Form!To({b}) = ButtonAction[b]
<1>1. ASSUME NEW b \in Form!Button
      PROVE  Form!To({b}) = ButtonAction[b]
  <2>1. PICK k \in DOMAIN Buttons : Buttons[k] = b
    BY <1>1 DEF Form!Button
  <2>2. \A i \in DOMAIN Buttons : Buttons[i] = b => i = k
    BY <2>1, FrontEndAssumption
  <2>3. k \in Nat /\ \A j \in 1..(k - 1) : j \in DOMAIN Buttons /\ j # k
    <3>1. Len(Buttons) \in Nat /\ DOMAIN Buttons = 1..Len(Buttons)
      BY FrontEndAssumption, LenProperties
    <3> QED
      BY <3>1
  <2>4. \A j \in 1..(k - 1) : Buttons[j] \notin {b}
    BY <2>2, <2>3
  <2> DEFINE first == CHOOSE i \in DOMAIN Buttons :
                         /\ Buttons[i] \in {b}
                         /\ \A j \in 1..(i - 1) : Buttons[j] \notin {b}
  <2>5. first \in DOMAIN Buttons /\ Buttons[first] \in {b}
    BY <2>1, <2>4
  <2>6. Form!To({b}) = ButtonAction[Buttons[first]]
    BY DEF Form!To
  <2> QED
    BY <2>5, <2>6
<1>2. Form!To({}) = FormAction
  BY DEF Form!To
<1> QED
  BY <1>1, <1>2

\* A new submission is the last of those under way.
LEMMA Sent ==
  ASSUME NEW s \in Submission, sending \in Seq(Submission)
  PROVE  /\ Append(sending, s) \in Seq(Submission)
         /\ Append(sending, s) # <<>>
         /\ sending = <<>> => Len(Append(sending, s)) = 1
         /\ \A i \in DOMAIN Append(sending, s) :
              Append(sending, s)[i] = s \/ (i \in DOMAIN sending
                                            /\ Append(sending, s)[i] = sending[i])
<1>1. /\ Append(sending, s) \in Seq(Submission)
      /\ Append(sending, s) # <<>>
      /\ Len(Append(sending, s)) = Len(sending) + 1
      /\ \A i \in 1..Len(sending) : Append(sending, s)[i] = sending[i]
      /\ Append(sending, s)[Len(sending) + 1] = s
  BY AppendProperties
<1>2. Len(sending) \in Nat /\ DOMAIN sending = 1..Len(sending)
  BY LenProperties
<1>3. DOMAIN Append(sending, s) = 1..(Len(sending) + 1)
  BY <1>1, LenProperties
<1> QED
  BY <1>1, <1>2, <1>3

\* Where the submission of one press goes.
Goal(pressed) == IF pressed = FormAction THEN FormAction ELSE ButtonAction[pressed]

\* What ajaxsubmit keeps of the invariant, called when no press was left without
\* an answer that would change where it goes, and no submission is under way
\* that a script did not begin.
LEMMA AjaxSubmits ==
  ASSUME FormInv, NEW marked \in SUBSET Form!Button, NEW pressed \in Pressed,
         Form!ajaxsubmit(marked, pressed),
         unanswered \/ Form!To(marked) = Goal(pressed),
         scripted' \/ sending = <<>>,
         disposed' = disposed,
         unanswered => unanswered'
  PROVE  /\ sending' \in Seq(Submission)
         /\ scripted' \/ sending' = <<>> \/ (Len(sending') = 1 /\ disabled')
         /\ ButtonsReturn'
         /\ RightAddress'
<1> DEFINE s == [to |-> Form!To(marked), pressed |-> pressed]
<1>0. sending \in Seq(Submission) /\ s \in Submission
  BY DEF FormInv, Submission
<1>1. CASE /\ disabled' /\ sending' = Append(sending, s)
  <2>1. /\ sending' \in Seq(Submission) /\ sending' # <<>>
        /\ sending = <<>> => Len(sending') = 1
        /\ \A i \in DOMAIN sending' :
              sending'[i] = s \/ (i \in DOMAIN sending /\ sending'[i] = sending[i])
    BY <1>0, <1>1, Sent
  <2>2. RightAddress'
    <3> SUFFICES ASSUME NEW i \in DOMAIN sending', ~unanswered'
                 PROVE  sending'[i].to = Goal(sending'[i].pressed)
      BY DEF RightAddress, Form!RightAddress, Goal
    <3>1. CASE sending'[i] = s
      BY <3>1
    <3>2. CASE i \in DOMAIN sending /\ sending'[i] = sending[i]
      BY <3>2 DEF FormInv, RightAddress, Form!RightAddress, Goal
    <3> QED
      BY <2>1, <3>1, <3>2
  <2>3. ButtonsReturn'
    BY <2>1 DEF ButtonsReturn, Form!ButtonsReturn
  <2> QED
    BY <1>1, <2>1, <2>2, <2>3
<1>2. CASE disabled' /\ vetoed' /\ sending' = sending
  BY <1>0, <1>2 DEF FormInv, RightAddress, Form!RightAddress, ButtonsReturn, Form!ButtonsReturn
<1>3. CASE UNCHANGED <<disabled, sending, vetoed>>
  BY <1>0, <1>3 DEF FormInv, RightAddress, Form!RightAddress, ButtonsReturn, Form!ButtonsReturn
<1> QED
  BY <1>1, <1>2, <1>3, Zenon DEF Form!ajaxsubmit, Form!BeforeSubmit

\* The submission that is answered is taken out of those under way.
Others(i) == SubSeq(sending, 1, i - 1) \o SubSeq(sending, i + 1, Len(sending))

LEMMA AnswerTakesOne ==
  ASSUME sending \in Seq(Submission), NEW i \in DOMAIN sending
  PROVE  /\ Others(i) \in Seq(Submission)
         /\ Len(sending) = 1 => Others(i) = <<>>
         /\ \A j \in DOMAIN Others(i) : \E k \in DOMAIN sending : Others(i)[j] = sending[k]
<1> DEFINE rest == Others(i)
           n == Len(sending)
           left == SubSeq(sending, 1, i - 1)
           right == SubSeq(sending, i + 1, n)
<1>1. n \in Nat /\ DOMAIN sending = 1..n /\ i \in 1..n
  BY LenProperties
<1>2. \A k \in 1..n : sending[k] \in Submission
  BY ElementOfSeq
<1>3. /\ left \in Seq(Submission) /\ Len(left) = i - 1
      /\ \A j \in 1..(i - 1) : left[j] = sending[j]
  BY <1>1, <1>2, SubSeqProperties
<1>4. /\ right \in Seq(Submission) /\ Len(right) = n - i
      /\ \A j \in 1..(n - i) : right[j] = sending[i + j]
  BY <1>1, <1>2, SubSeqProperties
<1>5. /\ rest \in Seq(Submission) /\ Len(rest) = n - 1
      /\ \A j \in 1..(n - 1) : rest[j] = IF j <= i - 1 THEN left[j] ELSE right[j - (i - 1)]
  <2>1. rest = left \o right
    BY DEF Others
  <2>2. Len(left) + Len(right) = n - 1
    BY <1>1, <1>3, <1>4
  <2> HIDE DEF left, right, n, rest
  <2>3. /\ left \o right \in Seq(Submission)
        /\ Len(left \o right) = Len(left) + Len(right)
        /\ \A j \in 1..(Len(left) + Len(right)) :
             (left \o right)[j] = IF j <= Len(left) THEN left[j] ELSE right[j - Len(left)]
    BY <1>3, <1>4, ConcatProperties
  <2> QED
    BY <1>3, <2>1, <2>2, <2>3
<1> HIDE DEF left, right, rest
<1>6. DOMAIN rest = 1..(n - 1)
  BY <1>5, LenProperties
<1>7. ASSUME NEW j \in 1..(n - 1)
      PROVE  \E k \in 1..n : rest[j] = sending[k]
  <2>1. CASE j <= i - 1
    BY <1>1, <1>3, <1>5, <1>7, <2>1
  <2>2. CASE ~(j <= i - 1)
    <3>1. j - (i - 1) \in 1..(n - i) /\ i + (j - (i - 1)) \in 1..n
      BY <1>1, <1>7, <2>2
    <3>2. rest[j] = sending[i + (j - (i - 1))]
      BY <1>4, <1>5, <1>7, <2>2, <3>1
    <3> QED
      BY <3>1, <3>2
  <2> QED
    BY <2>1, <2>2
<1>8. n = 1 => rest = <<>>
  BY <1>5, EmptySeq
<1> QED
  BY <1>1, <1>5, <1>6, <1>7, <1>8 DEF rest

LEMMA FormInit == Init => FormInv
<1> SUFFICES ASSUME Init
             PROVE  FormInv
  OBVIOUS
<1>1. /\ clicked = {} /\ sending = <<>> /\ popup = Form!NoPopup /\ ~disabled
  BY Zenon DEF Init, Form!Init
<1>2. popup.type # "confirm"
  BY <1>1 DEF Form!NoPopup
<1>3. DOMAIN <<>> = {}
  OBVIOUS
<1>4. RightAddress /\ ButtonsReturn
  BY <1>1, <1>3 DEF RightAddress, Form!RightAddress, ButtonsReturn, Form!ButtonsReturn
<1> QED
  BY <1>1, <1>2, <1>4, EmptySeq DEF FormInv

\* The marked buttons are those of the press, unless one was left without an
\* answer.
LEMMA MarksOfThePress ==
  ASSUME FormInv, clicked \cap Confirm = {}
  PROVE  /\ popup.type # "confirm"
         /\ unanswered \/ clicked = {}
<1>1. popup.type # "confirm"
  BY DEF FormInv
<1> QED
  BY <1>1 DEF FormInv

LEMMA PressNext ==
  ASSUME FormInv, NEW b \in Form!Button, Form!Press(b)
  PROVE  FormInv'
<1> DEFINE marked == clicked \cup {b}
<1>1. /\ Form!OnSubmit(marked, b)
      /\ ~disabled
      /\ disposed' = disposed
      /\ scripted' = scripted
  BY DEF Form!Press, Form!Usable
<1>2. scripted \/ sending = <<>>
  BY <1>1 DEF FormInv
<1>3. marked \subseteq Form!Button /\ b \in Pressed /\ b # FormAction
  BY FrontEndAssumption DEF FormInv, Form!Button, Pressed
<1>4. CASE marked \cap Confirm # {}
  <2>1. /\ popup' = Form!Question(marked, b)
        /\ unanswered' = (unanswered \/ popup.type = "confirm")
        /\ clicked' = marked
        /\ UNCHANGED <<disabled, sending, vetoed>>
    BY <1>1, <1>4 DEF Form!OnSubmit
  <2>2. popup'.type = "confirm" /\ popup'.marked = marked /\ popup'.pressed = b
    BY <2>1 DEF Form!Question
  <2>3. unanswered' \/ (marked = {b} /\ clicked' = {b})
    BY <2>1 DEF FormInv
  <2>4. RightAddress'
    BY <1>1, <2>1 DEF FormInv, RightAddress, Form!RightAddress
  <2>5. ButtonsReturn'
    BY <1>1, <2>1 DEF FormInv, ButtonsReturn, Form!ButtonsReturn
  <2>6. sending' = sending /\ sending \in Seq(Submission)
    BY <2>1 DEF FormInv
  <2>7. scripted' \/ sending' = <<>>
    BY <1>1, <1>2, <2>6
  <2> HIDE DEF marked
  <2> QED
    BY <1>3, <1>4, <2>1, <2>2, <2>3, <2>4, <2>5, <2>6, <2>7 DEF FormInv
<1>5. CASE marked \cap Confirm = {}
  <2>1. /\ Form!ajaxsubmit(marked, b)
        /\ clicked' = {}
        /\ UNCHANGED <<popup, unanswered>>
    BY <1>1, <1>5 DEF Form!OnSubmit
  <2>2. popup.type # "confirm" /\ (unanswered \/ marked = {b})
    BY <1>5, MarksOfThePress
  <2>3. unanswered \/ Form!To(marked) = Goal(b)
    BY <1>3, <2>2, AddressOfOne DEF Goal
  <2> HIDE DEF marked
  <2>4. /\ sending' \in Seq(Submission)
        /\ scripted' \/ sending' = <<>> \/ (Len(sending') = 1 /\ disabled')
        /\ ButtonsReturn'
        /\ RightAddress'
    BY <1>1, <1>2, <1>3, <2>1, <2>3, AjaxSubmits
  <2>5. popup' = popup
    BY <2>1
  <2> QED
    BY <2>1, <2>2, <2>4, <2>5 DEF FormInv
<1> QED
  BY <1>4, <1>5

\* A popup that goes takes no mark away; a dialog that does leaves its press
\* without an answer.
LEMMA VanishNext ==
  ASSUME FormInv, NEW next, Form!Vanish(next), next.type # "confirm"
  PROVE  FormInv'
<1>1. /\ popup'.type # "confirm"
      /\ unanswered' = (unanswered \/ popup.type = "confirm")
      /\ UNCHANGED <<clicked, sending>>
  BY DEF Form!Vanish
<1>2. /\ disabled' = disabled /\ disposed' = disposed
      /\ scripted' = scripted /\ vetoed' = vetoed
  BY DEF Form!Vanish
<1>3. RightAddress'
  BY <1>1 DEF FormInv, RightAddress, Form!RightAddress
<1>4. ButtonsReturn'
  BY <1>1, <1>2 DEF FormInv, ButtonsReturn, Form!ButtonsReturn
<1>5. unanswered' \/ clicked' = {}
  BY <1>1 DEF FormInv
<1>6. scripted' \/ sending' = <<>> \/ (Len(sending') = 1 /\ disabled')
  BY <1>1, <1>2 DEF FormInv
<1> QED
  BY <1>1, <1>3, <1>4, <1>5, <1>6 DEF FormInv

LEMMA FormNext == FormInv /\ [Next]_vars => FormInv'
<1> SUFFICES ASSUME FormInv, [Next]_vars
             PROVE  FormInv'
  OBVIOUS
<1>1. ASSUME NEW b \in Form!Button, Form!Press(b)
      PROVE  FormInv'
  BY <1>1, PressNext
<1>2. ASSUME NEW b \in Form!Button, Form!PressInvalid(b)
      PROVE  FormInv'
  <2>1. /\ unanswered'
        /\ clicked' = clicked \cup {b}
        /\ UNCHANGED <<popup, sending>>
        /\ disabled' = disabled /\ disposed' = disposed
        /\ scripted' = scripted /\ vetoed' = vetoed
    BY <1>2 DEF Form!PressInvalid
  <2>2. RightAddress'
    BY <2>1 DEF RightAddress, Form!RightAddress
  <2>3. ButtonsReturn'
    BY <2>1 DEF FormInv, ButtonsReturn, Form!ButtonsReturn
  <2> QED
    BY <2>1, <2>2, <2>3 DEF FormInv
<1>3. CASE Form!SubmitByScript
  <2>1. /\ Form!OnSubmit(clicked, FormAction)
        /\ scripted'
        /\ disposed' = disposed
    BY <1>3 DEF Form!SubmitByScript
  <2>2. CASE clicked \cap Confirm # {}
    <3>1. /\ popup' = Form!Question(clicked, FormAction)
          /\ unanswered' = (unanswered \/ popup.type = "confirm")
          /\ UNCHANGED <<clicked, sending>>
      BY <2>1, <2>2 DEF Form!OnSubmit
    <3>2. disabled' = disabled /\ vetoed' = vetoed
      BY <2>1, <2>2 DEF Form!OnSubmit
    <3>3. popup'.marked = clicked /\ popup'.pressed = FormAction
      BY <3>1 DEF Form!Question
    <3>4. unanswered'
      BY <2>2, <3>1 DEF FormInv
    <3>5. RightAddress'
      BY <3>4 DEF RightAddress, Form!RightAddress
    <3>6. ButtonsReturn'
      BY <2>1, <3>1, <3>2 DEF FormInv, ButtonsReturn, Form!ButtonsReturn
    <3> QED
      BY <2>1, <2>2, <3>1, <3>3, <3>4, <3>5, <3>6 DEF FormInv, Pressed
  <2>3. CASE clicked \cap Confirm = {}
    <3>1. /\ Form!ajaxsubmit(clicked, FormAction)
          /\ clicked' = {}
          /\ UNCHANGED <<popup, unanswered>>
      BY <2>1, <2>3 DEF Form!OnSubmit
    <3>2. popup.type # "confirm" /\ (unanswered \/ clicked = {})
      BY <2>3, MarksOfThePress
    <3>3. unanswered \/ Form!To(clicked) = Goal(FormAction)
      BY <3>2, AddressOfOne DEF Goal
    <3>4. clicked \subseteq Form!Button /\ FormAction \in Pressed
      BY DEF FormInv, Pressed
    <3>5. /\ sending' \in Seq(Submission)
          /\ ButtonsReturn'
          /\ RightAddress'
      BY <2>1, <3>1, <3>3, <3>4, AjaxSubmits
    <3>6. popup' = popup
      BY <3>1
    <3> QED
      BY <2>1, <3>1, <3>2, <3>5, <3>6 DEF FormInv
  <2> QED
    BY <2>2, <2>3
<1>4. CASE Form!Confirmed
  <2>1. /\ popup.type = "confirm"
        /\ popup' = Form!NoPopup
        /\ Form!ajaxsubmit(clicked, popup.pressed)
        /\ clicked' = clicked \ popup.marked
        /\ disposed' = disposed
        /\ scripted' = scripted
        /\ unanswered' = unanswered
    BY <1>4 DEF Form!Confirmed
  <2>2. popup'.type # "confirm"
    BY <2>1 DEF Form!NoPopup
  <2>3. /\ clicked \subseteq Form!Button
        /\ popup.pressed \in Pressed
        /\ scripted \/ sending = <<>>
        /\ unanswered \/ (/\ popup.pressed \in Form!Button
                          /\ popup.marked = {popup.pressed} /\ clicked = {popup.pressed})
    BY <2>1 DEF FormInv
  <2>4. FormAction \notin Form!Button
    BY FrontEndAssumption DEF Form!Button
  <2>5. unanswered \/ Form!To(clicked) = Goal(popup.pressed)
    BY <2>3, <2>4, AddressOfOne DEF Goal
  <2>6. /\ sending' \in Seq(Submission)
        /\ scripted' \/ sending' = <<>> \/ (Len(sending') = 1 /\ disabled')
        /\ ButtonsReturn'
        /\ RightAddress'
    BY <2>1, <2>3, <2>5, AjaxSubmits
  <2>7. unanswered' \/ clicked' = {}
    BY <2>1, <2>3
  <2> QED
    BY <2>1, <2>2, <2>3, <2>6, <2>7 DEF FormInv
<1>5. CASE Form!Cancelled
  <2>1. /\ popup.type = "confirm"
        /\ popup' = Form!NoPopup
        /\ clicked' = clicked \ popup.marked
        /\ sending' = sending
    BY <1>5 DEF Form!Cancelled
  <2>2. /\ disabled' = disabled /\ disposed' = disposed
        /\ scripted' = scripted /\ vetoed' = vetoed
        /\ unanswered' = unanswered
    BY <1>5 DEF Form!Cancelled
  <2>3. popup'.type # "confirm"
    BY <2>1 DEF Form!NoPopup
  <2>4. unanswered' \/ clicked' = {}
    BY <2>1, <2>2 DEF FormInv
  <2>5. RightAddress'
    BY <2>1, <2>2 DEF FormInv, RightAddress, Form!RightAddress
  <2>6. ButtonsReturn'
    BY <2>1, <2>2 DEF FormInv, ButtonsReturn, Form!ButtonsReturn
  <2>7. scripted' \/ sending' = <<>>
    BY <2>1, <2>2 DEF FormInv
  <2> QED
    BY <2>1, <2>3, <2>4, <2>5, <2>6, <2>7 DEF FormInv
<1>6. CASE Form!ShowMessage \/ Form!HideMessage \/ Form!Escape \/ Form!StrayTimer
  <2>1. /\ \A timed : Form!Message(timed).type # "confirm"
        /\ Form!NoPopup.type # "confirm"
    BY DEF Form!Message, Form!NoPopup
  <2>2. Form!Vanish(Form!NoPopup) \/ \E timed \in BOOLEAN : Form!Vanish(Form!Message(timed))
    BY <1>6 DEF Form!ShowMessage, Form!HideMessage, Form!Escape, Form!StrayTimer
  <2> QED
    BY <2>1, <2>2, VanishNext
<1>7. CASE Form!Answered
  <2>1. PICK i \in DOMAIN sending, successful \in BOOLEAN : Form!Complete(i, successful)
    BY <1>7 DEF Form!Answered
  <2>2. /\ UNCHANGED <<clicked, popup>>
        /\ scripted' = scripted /\ unanswered' = unanswered
    BY <1>7 DEF Form!Answered
  <2>3. disabled' = (disabled /\ disposed')
    BY <2>1 DEF Form!Complete
  <2>4. sending \in Seq(Submission)
    BY DEF FormInv
  <2>5. /\ sending' \in Seq(Submission)
        /\ Len(sending) = 1 => sending' = <<>>
        /\ \A j \in DOMAIN sending' : \E k \in DOMAIN sending : sending'[j] = sending[k]
    <3>1. sending' = Others(i)
      BY <2>1 DEF Form!Complete, Others
    <3> QED
      BY <2>4, <3>1, AnswerTakesOne, Zenon
  <2>6. scripted' \/ sending' = <<>>
    <3>1. i \notin DOMAIN <<>>
      OBVIOUS
    <3> QED
      BY <2>1, <2>2, <2>5, <3>1 DEF FormInv
  <2>7. RightAddress'
    BY <2>2, <2>5 DEF FormInv, RightAddress, Form!RightAddress
  <2>8. ButtonsReturn'
    BY <2>3 DEF ButtonsReturn, Form!ButtonsReturn
  <2> QED
    BY <2>2, <2>5, <2>6, <2>7, <2>8 DEF FormInv
<1>8. CASE UNCHANGED formVars
  <2>1. /\ UNCHANGED <<clicked, popup, sending>>
        /\ disabled' = disabled /\ disposed' = disposed
        /\ scripted' = scripted /\ vetoed' = vetoed
        /\ unanswered' = unanswered
    BY <1>8 DEF formVars
  <2> QED
    BY <2>1 DEF FormInv, RightAddress, Form!RightAddress, ButtonsReturn, Form!ButtonsReturn
<1>9. Form!Next \/ UNCHANGED formVars
  BY DEF Next, vars
<1> QED
  BY <1>1, <1>2, <1>3, <1>4, <1>5, <1>6, <1>7, <1>8, <1>9 DEF Form!Next

\* A submission goes where the button says that was pressed for it (the submit
\* handler, beforeSubmit, ajaxsubmit), for any buttons, dialogs and timers.
THEOREM AddressTheorem == Spec => []RightAddress
<1>1. FormInv => RightAddress
  BY DEF FormInv
<1> QED
  BY FormInit, FormNext, <1>1, PTL DEF Spec

\* Without scripts one submission at most is under way.
THEOREM OneAtATimeTheorem == Spec => []OneAtATime
<1>1. FormInv => OneAtATime
  <2>1. sending = <<>> \/ Len(sending) = 1 => Len(sending) <= 1
    OBVIOUS
  <2>2. FormInv => scripted \/ sending = <<>> \/ Len(sending) = 1
    BY DEF FormInv
  <2>3. scripted \/ Len(sending) <= 1 => OneAtATime
    BY DEF OneAtATime, Form!OneAtATime
  <2> QED
    BY <2>1, <2>2, <2>3, Zenon
<1> QED
  BY FormInit, FormNext, <1>1, PTL DEF Spec

\* When no submission is under way the buttons are enabled again, but for a
\* veto or a form that is disposed of.
THEOREM ButtonsTheorem == Spec => []ButtonsReturn
<1>1. FormInv => ButtonsReturn
  BY DEF FormInv
<1> QED
  BY FormInit, FormNext, <1>1, PTL DEF Spec

-----------------------------------------------------------------------------
\* Navigation.

Entry == [address : Navigation!Address, state : BOOLEAN, part : BOOLEAN,
          left : {"no", "link", "form", "mkdir"}]
Request == [address : Navigation!Address, part : BOOLEAN, late : BOOLEAN]
Location == Navigation!Location

\* A request under way has been overtaken: when it ends, the document drifts.
Overtaken == \E i \in DOMAIN loads : loads[i].late

\* When the requests up to i are answered in their order, the page is there in
\* which the last of them has its part: the present one, or that of a request
\* for a whole page since which there were only parts of it.
Settled(i) == \/ \A j \in 1..i : loads[j].address[1] = page
              \/ \E j \in 1..i : /\ ~loads[j].part
                                 /\ \A k \in j..i : loads[k].address[1] = loads[j].address[1]

\* An entry that names a part is in the page of the entry before it.
PartsInPage == \A i \in DOMAIN entries :
                  entries[i].part => /\ i > 1
                                     /\ entries[i].address[1] = entries[i - 1].address[1]

Follows ==
  /\ loads = <<>> => page = Location[1] /\ view = Location
  /\ loads # <<>> => loads[Len(loads)].address = Location
  /\ \A i \in DOMAIN loads : Settled(i)
  /\ PartsInPage

NavigationTyped ==
  /\ entries \in Seq(Entry) /\ current \in 1..Len(entries)
  /\ loads \in Seq(Request)
  /\ mkdir # None => mkdir \in Navigation!Address /\ mkdir[1] = FolderPage

NavigationInv ==
  /\ NavigationTyped
  /\ EntriesRestoreThePage
  /\ drifted \/ Overtaken \/ Follows

\* The history after a push: the entries before the present one, that one as it
\* is left, and the new one.
Pushed(left, new) == Append([SubSeq(entries, 1, current) EXCEPT ![current] = left], new)

LEMMA PushProperties ==
  ASSUME NavigationTyped, NEW left \in Entry, NEW new \in Entry
  PROVE  /\ Pushed(left, new) \in Seq(Entry)
         /\ DOMAIN Pushed(left, new) = 1..(current + 1)
         /\ Len(Pushed(left, new)) = current + 1
         /\ \A k \in 1..(current - 1) : Pushed(left, new)[k] = entries[k]
         /\ Pushed(left, new)[current] = left
         /\ Pushed(left, new)[current + 1] = new
<1> DEFINE before == SubSeq(entries, 1, current)
           put == [before EXCEPT ![current] = left]
<1>1. /\ Len(entries) \in Nat /\ current \in Nat \ {0} /\ current <= Len(entries)
      /\ \A k \in 1..current : entries[k] \in Entry
  BY LenProperties, ElementOfSeq DEF NavigationTyped
<1>2. /\ before \in Seq(Entry) /\ Len(before) = current
      /\ \A k \in 1..current : before[k] = entries[k]
  BY <1>1, SubSeqProperties
<1> HIDE DEF before
<1>3. /\ put \in Seq(Entry) /\ Len(put) = current
      /\ \A k \in 1..current : put[k] = IF k = current THEN left ELSE before[k]
  BY <1>1, <1>2, ExceptSeq
<1> HIDE DEF put
<1>4. /\ Append(put, new) \in Seq(Entry)
      /\ Len(Append(put, new)) = current + 1
      /\ \A k \in 1..current : Append(put, new)[k] = put[k]
      /\ Append(put, new)[current + 1] = new
  BY <1>3, AppendProperties
<1>5. Pushed(left, new) = Append(put, new)
  BY DEF Pushed, put, before
<1>6. DOMAIN Append(put, new) = 1..(current + 1)
  BY <1>4, LenProperties
<1>7. \A k \in 1..(current - 1) : k \in 1..current /\ k # current
  BY <1>1
<1>8. current \in 1..current
  BY <1>1
<1> QED
  BY <1>2, <1>3, <1>4, <1>5, <1>6, <1>7, <1>8

\* After a push the history restores the page and keeps its parts in it, if the
\* entry that is left has its address and does, and the new one does.
LEMMA PushKeeps ==
  ASSUME NavigationTyped, EntriesRestoreThePage,
         NEW left \in Entry, NEW new \in Entry,
         entries' = Pushed(left, new), current' = current + 1,
         left.address = Location,
         left.left \in {"link", "form"} => left.state /\ ~left.part,
         new.left = "no"
  PROVE  /\ entries' \in Seq(Entry) /\ current' \in 1..Len(entries')
         /\ EntriesRestoreThePage'
         /\ Location' = new.address
         /\ PartsInPage /\ (left.part => entries[current].part)
              /\ (new.part => new.address[1] = Location[1]) => PartsInPage'
<1>0. current \in Nat \ {0} /\ DOMAIN entries = 1..Len(entries)
         /\ current <= Len(entries) /\ Len(entries) \in Nat
  BY LenProperties DEF NavigationTyped
<1>1. /\ entries' \in Seq(Entry)
      /\ DOMAIN entries' = 1..(current + 1)
      /\ Len(entries') = current + 1
      /\ \A k \in 1..(current - 1) : entries'[k] = entries[k]
      /\ entries'[current] = left
      /\ entries'[current + 1] = new
  <2>1. /\ Pushed(left, new) \in Seq(Entry)
        /\ DOMAIN Pushed(left, new) = 1..(current + 1)
        /\ Len(Pushed(left, new)) = current + 1
        /\ \A k \in 1..(current - 1) : Pushed(left, new)[k] = entries[k]
        /\ Pushed(left, new)[current] = left
        /\ Pushed(left, new)[current + 1] = new
    BY PushProperties
  <2> QED
    BY <2>1
<1>2. \A k \in 1..(current + 1) : k \in 1..(current - 1) \/ k = current \/ k = current + 1
  BY <1>0
<1>3. EntriesRestoreThePage'
  BY <1>0, <1>1, <1>2 DEF EntriesRestoreThePage, Navigation!EntriesRestoreThePage
<1>4. Location' = new.address
  BY <1>1 DEF Location, Navigation!Location
<1>5. ASSUME PartsInPage, left.part => entries[current].part,
             new.part => new.address[1] = Location[1]
      PROVE  PartsInPage'
  <2> SUFFICES ASSUME NEW k \in 1..(current + 1), entries'[k].part
               PROVE  k > 1 /\ entries'[k].address[1] = entries'[k - 1].address[1]
    BY <1>1 DEF PartsInPage
  <2>1. CASE k \in 1..(current - 1)
    <3>1. k > 1 /\ entries[k].address[1] = entries[k - 1].address[1]
      BY <1>0, <1>1, <1>5, <2>1 DEF PartsInPage
    <3>2. k - 1 \in 1..(current - 1)
      BY <1>0, <2>1, <3>1
    <3> QED
      BY <1>1, <2>1, <3>1, <3>2
  <2>2. CASE k = current
    <3>1. entries[current].part
      BY <1>1, <1>5, <2>2
    <3>2. k > 1 /\ Location[1] = entries[k - 1].address[1]
      BY <1>0, <1>5, <2>2, <3>1 DEF PartsInPage, Location, Navigation!Location
    <3>3. k - 1 \in 1..(current - 1)
      BY <1>0, <2>2, <3>2
    <3> QED
      BY <1>1, <2>2, <3>2, <3>3
  <2>3. CASE k = current + 1
    BY <1>0, <1>1, <1>5, <2>3
  <2> QED
    BY <1>2, <2>1, <2>2, <2>3
<1> QED
  BY <1>0, <1>1, <1>3, <1>4, <1>5

\* A request for a part that is asked for where the requests before it lead, or
\* for a page, leads where the document will be.
LEMMA RequestFollows ==
  ASSUME NavigationTyped, Follows, PartsInPage', NEW l \in Request,
         loads' = Append(loads, l), page' = page, Location' = l.address,
         l.part => l.address[1] = Location[1]
  PROVE  Follows'
<1>0. Len(loads) \in Nat /\ DOMAIN loads = 1..Len(loads) /\ loads \in Seq(Request)
  BY LenProperties DEF NavigationTyped
<1> PICK n \in Nat : n = Len(loads)
  BY <1>0
<1>1. n \in Nat /\ n = Len(loads) /\ DOMAIN loads = 1..n /\ loads \in Seq(Request)
  BY <1>0
<1>2. /\ loads' # <<>> /\ Len(loads') = n + 1 /\ DOMAIN loads' = 1..(n + 1)
      /\ \A i \in 1..n : loads'[i] = loads[i]
      /\ loads'[n + 1] = l
  BY <1>1, AppendProperties, LenProperties
<1>3. n = 0 <=> loads = <<>>
  BY <1>1, EmptySeq
<1>4. ASSUME NEW i \in 1..n
      PROVE  Settled(i)'
  <2>1. Settled(i)
    BY <1>1, <1>4 DEF Follows
  <2>2. \A j \in 1..i : j \in 1..n /\ \A k \in j..i : k \in 1..n
    BY <1>1, <1>4
  <2>3. \A j \in 1..i : loads'[j] = loads[j] /\ \A k \in j..i : loads'[k] = loads[k]
    BY <1>2, <2>2
  <2> QED
    BY <2>1, <2>3 DEF Settled
<1>5. Settled(n + 1)'
  <2>1. CASE ~l.part
    <3>1. n + 1 \in 1..(n + 1) /\ \A k \in (n + 1)..(n + 1) : k = n + 1
      BY <1>1
    <3> QED
      BY <1>2, <2>1, <3>1 DEF Settled
  <2>2. CASE l.part /\ n = 0
    <3>1. l.address[1] = page
      BY <1>3, <2>2 DEF Follows
    <3>2. \A j \in 1..(n + 1) : j = n + 1
      BY <2>2
    <3> QED
      BY <1>2, <3>1, <3>2 DEF Settled
  <2>3. CASE l.part /\ n # 0
    <3>1. l.address[1] = loads[n].address[1] /\ n \in 1..n
      BY <1>1, <1>3, <2>3 DEF Follows
    <3>2. Settled(n)
      BY <1>1, <3>1 DEF Follows
    <3>3. \A k \in 1..(n + 1) : k \in 1..n \/ k = n + 1
      BY <1>1
    <3>4. CASE \A j \in 1..n : loads[j].address[1] = page
      <4>1. \A j \in 1..(n + 1) : loads'[j].address[1] = page'
        BY <1>2, <3>1, <3>3, <3>4
      <4> QED
        BY <4>1 DEF Settled
    <3>5. CASE \E j \in 1..n : /\ ~loads[j].part
                               /\ \A k \in j..n : loads[k].address[1] = loads[j].address[1]
      <4>1. PICK j \in 1..n : /\ ~loads[j].part
                              /\ \A k \in j..n : loads[k].address[1] = loads[j].address[1]
        BY <3>5
      <4>2. j \in 1..(n + 1) /\ n \in j..n /\ \A k \in j..(n + 1) : k = n + 1 \/ (k \in j..n /\ k \in 1..n)
        BY <1>1, <4>1
      <4>3. \A k \in j..(n + 1) : loads'[k].address[1] = loads'[j].address[1]
        BY <1>2, <3>1, <4>1, <4>2
      <4> QED
        BY <1>2, <4>1, <4>2, <4>3 DEF Settled
    <3> QED
      BY <3>2, <3>4, <3>5 DEF Settled
  <2> QED
    BY <1>1, <2>1, <2>2, <2>3
<1>6. \A i \in 1..(n + 1) : i \in 1..n \/ i = n + 1
  BY <1>1
<1> QED
  BY <1>2, <1>4, <1>5, <1>6 DEF Follows

\* In a page that is not about to be replaced, all requests are of that page.
LEMMA SamePage ==
  ASSUME NavigationTyped, Follows, ~Navigation!PageIsLeaving
  PROVE  page = Location[1]
<1> DEFINE n == Len(loads)
<1>1. n \in Nat /\ DOMAIN loads = 1..n
  BY LenProperties DEF NavigationTyped
<1>2. n = 0 => loads = <<>>
  BY EmptySeq DEF NavigationTyped
<1> HIDE DEF n
<1>3. CASE n = 0
  BY <1>2, <1>3 DEF Follows
<1>4. CASE n # 0
  <2>1. n \in 1..n /\ loads # <<>>
    <3>1. DOMAIN <<>> = {}
      OBVIOUS
    <3> QED
      BY <1>1, <1>4, <3>1
  <2>2. loads[n].address = Location /\ Settled(n)
    BY <1>1, <2>1 DEF Follows, n
  <2>3. CASE \A j \in 1..n : loads[j].address[1] = page
    BY <2>1, <2>2, <2>3
  <2>4. CASE \E j \in 1..n : /\ ~loads[j].part
                             /\ \A k \in j..n : loads[k].address[1] = loads[j].address[1]
    <3>1. PICK j \in 1..n : /\ ~loads[j].part
                            /\ \A k \in j..n : loads[k].address[1] = loads[j].address[1]
      BY <2>4
    <3>2. loads[j].address[1] = page
      BY <1>1, <3>1 DEF Navigation!PageIsLeaving
    <3>3. n \in j..n
      BY <1>1
    <3> QED
      BY <2>2, <3>1, <3>2, <3>3
  <2> QED
    BY <2>2, <2>3, <2>4 DEF Settled
<1> QED
  BY <1>3, <1>4

\* When the first request is answered, of which no other was overtaken, the
\* page and the view are what it asked for and the rest leads on from there.
LEMMA FirstAnswerFollows ==
  ASSUME NavigationTyped, Follows, loads # <<>>,
         Navigation!Ends(1, TRUE), Navigation!Replace(loads[1]),
         UNCHANGED <<entries, current>>
  PROVE  Follows'
<1>0. Len(loads) \in Nat /\ DOMAIN loads = 1..Len(loads) /\ loads \in Seq(Request)
  BY LenProperties DEF NavigationTyped
<1> PICK n \in Nat : n = Len(loads)
  BY <1>0
<1>1. n \in Nat \ {0} /\ n = Len(loads) /\ DOMAIN loads = 1..n
  BY <1>0, EmptySeq
<1>2. /\ DOMAIN loads' = 1..(n - 1)
      /\ \A i \in 1..(n - 1) : loads'[i] = loads[i + 1]
  BY <1>1 DEF Navigation!Ends
<1>3. loads' \in Seq(Request) /\ Len(loads') = n - 1
  <2>1. loads' = [i \in 1..(n - 1) |-> loads'[i]]
    BY <1>1, <1>2 DEF Navigation!Ends
  <2>2. \A i \in 1..(n - 1) : loads'[i] \in Request
    BY <1>0, <1>1, <1>2
  <2>3. loads' \in [1..(n - 1) -> Request]
    BY <2>1, <2>2
  <2> QED
    BY <1>1, <2>3
<1>4. 1 \in 1..n /\ Settled(1) /\ 1..1 = {1}
  BY <1>1 DEF Follows
<1>5. page' = loads[1].address[1] /\ (loads[1].part => page = loads[1].address[1])
        /\ view' = loads[1].address
  BY <1>4 DEF Settled, Navigation!Replace
<1>6. Location' = Location
  BY DEF Location, Navigation!Location
<1>7. n = 1 => view' = Location' /\ page' = Location'[1]
  BY <1>1, <1>5, <1>6 DEF Follows
<1>8. n # 1 => loads'[n - 1].address = Location'
  <2>1. n # 1 => n - 1 \in 1..(n - 1) /\ (n - 1) + 1 = n
    BY <1>1
  <2> QED
    BY <1>1, <1>2, <1>6, <2>1 DEF Follows
<1>9. ASSUME NEW i \in 1..(n - 1)
      PROVE  Settled(i)'
  <2>1. i + 1 \in 1..n /\ Settled(i + 1)
    BY <1>1, <1>9 DEF Follows
  <2>2. \A j \in 1..i : j \in 1..(n - 1) /\ j + 1 \in 1..(i + 1)
    BY <1>1, <1>9
  <2>3. \A j \in 1..i : loads'[j] = loads[j + 1]
    BY <1>2, <2>2
  \* All of them, up to i, are of the page that is shown now.
  <2>4. ASSUME \A j \in 1..(i + 1) : loads[j].address[1] = page'
        PROVE  Settled(i)'
    <3>1. \A j \in 1..i : loads'[j].address[1] = page'
      BY <2>2, <2>3, <2>4
    <3> QED
      BY <3>1 DEF Settled
  <2>5. CASE \A j \in 1..(i + 1) : loads[j].address[1] = page
    <3>1. 1 \in 1..(i + 1)
      BY <1>9
    <3>2. page' = page
      BY <1>5, <2>5, <3>1
    <3> QED
      BY <2>4, <2>5, <3>2
  <2>6. CASE \E j \in 1..(i + 1) :
               /\ ~loads[j].part
               /\ \A k \in j..(i + 1) : loads[k].address[1] = loads[j].address[1]
    <3>1. PICK j \in 1..(i + 1) :
               /\ ~loads[j].part
               /\ \A k \in j..(i + 1) : loads[k].address[1] = loads[j].address[1]
      BY <2>6
    <3>2. CASE j = 1
      BY <1>5, <2>4, <3>1, <3>2
    <3>3. CASE j # 1
      <4>1. j - 1 \in 1..i /\ (j - 1) + 1 = j
        BY <1>9, <3>1, <3>3
      <4>2. \A k \in (j - 1)..i : k \in 1..i /\ k + 1 \in j..(i + 1)
        BY <1>9, <3>1, <3>3
      <4>3. ~loads'[j - 1].part
              /\ \A k \in (j - 1)..i : loads'[k].address[1] = loads'[j - 1].address[1]
        BY <2>3, <3>1, <4>1, <4>2
      <4> QED
        BY <4>1, <4>3 DEF Settled
    <3> QED
      BY <3>2, <3>3
  <2> QED
    BY <2>1, <2>5, <2>6 DEF Settled
<1>10. PartsInPage'
  BY DEF Follows, PartsInPage
<1>11. loads' = <<>> <=> n = 1
  <2>1. \A r \in Seq(Request) : r = <<>> <=> Len(r) = 0
    BY EmptySeq
  <2>2. loads' = <<>> <=> Len(loads') = 0
    BY <1>3, <2>1
  <2> QED
    BY <1>1, <1>3, <2>2
<1> QED
  BY <1>1, <1>2, <1>3, <1>7, <1>8, <1>9, <1>10, <1>11 DEF Follows

\* A request that ends leaves the others, and those that it has overtaken late.
LEMMA RequestEnds ==
  ASSUME NavigationTyped, NEW i \in DOMAIN loads, NEW answered \in BOOLEAN,
         Navigation!Ends(i, answered)
  PROVE  /\ loads' \in Seq(Request)
         /\ Overtaken /\ ~loads[i].late => Overtaken'
         /\ answered /\ i # 1 => Overtaken'
<1>0. Len(loads) \in Nat /\ DOMAIN loads = 1..Len(loads) /\ loads \in Seq(Request)
  BY LenProperties DEF NavigationTyped
<1> PICK n \in Nat : n = Len(loads)
  BY <1>0
<1>1. n \in Nat \ {0} /\ DOMAIN loads = 1..n /\ i \in 1..n
  BY <1>0
<1>2. /\ DOMAIN loads' = 1..(n - 1)
      /\ \A j \in 1..(n - 1) :
           loads'[j] = IF j < i THEN [loads[j] EXCEPT !.late = loads[j].late \/ answered]
                       ELSE loads[j + 1]
      /\ loads' = [j \in 1..(n - 1) |-> loads'[j]]
  BY <1>1 DEF Navigation!Ends
<1>3. \A j \in 1..(n - 1) : j \in 1..n /\ j + 1 \in 1..n
  BY <1>1
<1>4. \A j \in 1..n : loads[j] \in Request
  BY <1>0, <1>1
<1>5. loads' \in Seq(Request)
  <2>1. ASSUME NEW j \in 1..(n - 1)
        PROVE  loads'[j] \in Request
    <3>1. loads[j] \in Request /\ loads[j + 1] \in Request
      BY <1>3, <1>4, <2>1
    <3>2. [loads[j] EXCEPT !.late = loads[j].late \/ answered] \in Request
      BY <3>1 DEF Request
    <3> QED
      BY <1>2, <2>1, <3>1, <3>2
  <2>2. loads' \in [1..(n - 1) -> Request]
    BY <1>2, <2>1
  <2> QED
    BY <1>1, <2>2
<1>6. ASSUME Overtaken, ~loads[i].late
      PROVE  Overtaken'
  <2>1. PICK k \in 1..n : loads[k].late
    BY <1>1, <1>6 DEF Overtaken
  <2>2. CASE k < i
    <3>1. k \in 1..(n - 1) /\ loads[k] \in Request
      BY <1>1, <1>4, <2>1, <2>2
    <3>2. loads'[k].late
      BY <1>2, <2>1, <2>2, <3>1 DEF Request
    <3> QED
      BY <1>2, <3>1, <3>2 DEF Overtaken
  <2>3. CASE k > i
    <3>1. k - 1 \in 1..(n - 1) /\ ~(k - 1 < i) /\ (k - 1) + 1 = k
      BY <1>1, <2>1, <2>3
    <3>2. loads'[k - 1] = loads[k]
      BY <1>2, <3>1
    <3> QED
      BY <1>2, <2>1, <3>1, <3>2 DEF Overtaken
  <2> QED
    BY <1>1, <1>6, <2>1, <2>2, <2>3
<1>7. ASSUME answered, i # 1
      PROVE  Overtaken'
  <2>1. 1 \in 1..(n - 1) /\ 1 < i /\ loads[1] \in Request
    BY <1>1, <1>4, <1>7
  <2>2. loads'[1].late
    BY <1>2, <1>7, <2>1 DEF Request
  <2> QED
    BY <1>2, <2>1, <2>2 DEF Overtaken
<1> QED
  BY <1>5, <1>6, <1>7

\* A new request overtakes none.
LEMMA RequestBegins ==
  ASSUME NavigationTyped, NEW l \in Request, loads' = Append(loads, l)
  PROVE  /\ loads' \in Seq(Request)
         /\ Overtaken => Overtaken'
<1>1. /\ loads' \in Seq(Request) /\ Len(loads') = Len(loads) + 1
      /\ \A i \in 1..Len(loads) : loads'[i] = loads[i]
  BY AppendProperties DEF NavigationTyped
<1>2. /\ Len(loads) \in Nat /\ DOMAIN loads = 1..Len(loads)
      /\ DOMAIN loads' = 1..(Len(loads) + 1)
  BY <1>1, LenProperties DEF NavigationTyped
<1> QED
  BY <1>1, <1>2 DEF Overtaken

LEMMA NavigationInit == Init => NavigationInv
<1> SUFFICES ASSUME Init
             PROVE  NavigationInv
  OBVIOUS
<1>1. Navigation!Init
  BY DEF Init
<1>2. PICK a \in Navigation!Address :
        /\ entries = <<[address |-> a, state |-> FALSE, part |-> FALSE, left |-> "no"]>>
        /\ page = a[1] /\ view = a
  BY <1>1 DEF Navigation!Init
<1>3. current = 1 /\ loads = <<>> /\ mkdir = None
  BY <1>1 DEF Navigation!Init
<1>4. /\ entries \in Seq(Entry) /\ Len(entries) = 1 /\ DOMAIN entries = {1}
      /\ entries[1].address = a /\ ~entries[1].part /\ entries[1].left = "no"
  BY <1>2 DEF Entry
<1>5. NavigationTyped
  BY <1>3, <1>4, EmptySeq DEF NavigationTyped
<1>6. EntriesRestoreThePage
  BY <1>4 DEF EntriesRestoreThePage, Navigation!EntriesRestoreThePage
<1>7. PartsInPage
  BY <1>4 DEF PartsInPage
<1>8. DOMAIN <<>> = {}
  OBVIOUS
<1>9. Follows
  BY <1>2, <1>3, <1>4, <1>7, <1>8 DEF Follows, Location, Navigation!Location
<1> QED
  BY <1>5, <1>6, <1>9 DEF NavigationInv

\* A push together with a request for the address it pushes.
LEMMA PushAndLoad ==
  ASSUME NavigationInv, NEW left \in Entry, NEW new \in Entry, NEW part2 \in BOOLEAN,
         entries' = Pushed(left, new), current' = current + 1,
         left.address = Location,
         left.left \in {"link", "form"} => left.state /\ ~left.part,
         left.part => entries[current].part,
         new.left = "no",
         loads' = Append(loads, [address |-> new.address, part |-> part2, late |-> FALSE]),
         page' = page,
         mkdir' # None => mkdir' = mkdir,
         drifted => drifted',
         new.part \/ part2 => /\ new.address[1] = page
                              /\ Navigation!PageIsLeaving => drifted'
  PROVE  NavigationInv'
<1> DEFINE l == [address |-> new.address, part |-> part2, late |-> FALSE]
<1>1. NavigationTyped /\ EntriesRestoreThePage /\ l \in Request
  BY DEF NavigationInv, Request, Entry
<1>2. /\ entries' \in Seq(Entry) /\ current' \in 1..Len(entries')
      /\ EntriesRestoreThePage'
      /\ Location' = new.address
      /\ PartsInPage /\ (new.part => new.address[1] = Location[1]) => PartsInPage'
  BY <1>1, PushKeeps
<1>3. loads' \in Seq(Request) /\ (Overtaken => Overtaken')
  BY <1>1, RequestBegins
<1>4. NavigationTyped'
  BY <1>1, <1>2, <1>3 DEF NavigationTyped
<1>5. ASSUME Follows, ~drifted'
      PROVE  Follows'
  <2>1. new.part \/ part2 => new.address[1] = Location[1]
    BY <1>1, <1>5, SamePage
  <2>2. PartsInPage'
    BY <1>2, <1>5, <2>1 DEF Follows
  <2>3. l.part => l.address[1] = Location[1]
    BY <2>1
  <2>4. Location' = l.address
    BY <1>2
  <2> HIDE DEF l
  <2> QED
    BY <1>1, <1>5, <2>2, <2>3, <2>4, RequestFollows DEF l
<1>6. drifted' \/ Overtaken' \/ Follows'
  BY <1>3, <1>5, Zenon DEF NavigationInv
<1> QED
  BY <1>2, <1>4, <1>6, Zenon DEF NavigationInv

\* A push that leaves the document behind.
LEMMA PushAndDrift ==
  ASSUME NavigationInv, NEW left \in Entry, NEW new \in Entry,
         entries' = Pushed(left, new), current' = current + 1,
         left.address = Location,
         left.left \in {"link", "form"} => left.state /\ ~left.part,
         new.left = "no",
         loads' = loads, mkdir' # None => mkdir' = mkdir, drifted'
  PROVE  NavigationInv'
<1>1. NavigationTyped /\ EntriesRestoreThePage
  BY DEF NavigationInv
<1>2. /\ entries' \in Seq(Entry) /\ current' \in 1..Len(entries')
      /\ EntriesRestoreThePage'
  BY <1>1, PushKeeps
<1>3. NavigationTyped'
  BY <1>1, <1>2 DEF NavigationTyped
<1> QED
  BY <1>2, <1>3, Zenon DEF NavigationInv

LEMMA FolderMadeNext ==
  ASSUME NavigationInv, Navigation!FolderMade
  PROVE  NavigationInv'
<1> DEFINE new == [address |-> mkdir, state |-> TRUE, part |-> FALSE, left |-> "no"]
           left == [entries[current] EXCEPT !.left = "mkdir"]
<1>1. /\ NavigationTyped /\ mkdir \in Navigation!Address /\ mkdir[1] = FolderPage
      /\ mkdir' = None /\ current' = current + 1 /\ page' = page
  BY DEF NavigationInv, NavigationTyped, Navigation!FolderMade
<1>2. entries[current] \in Entry
  BY <1>1, ElementOfSeq DEF NavigationTyped
<1>3. new \in Entry /\ left \in Entry /\ left.address = Location
        /\ left.left = "mkdir" /\ left.part = entries[current].part
  BY <1>1, <1>2 DEF Entry, Location, Navigation!Location
<1>4. entries' = Pushed(left, new)
  <2> DEFINE before == SubSeq(entries, 1, current)
  <2>1. /\ Len(entries) \in Nat /\ current \in 1..Len(entries)
        /\ \A k \in 1..current : entries[k] \in Entry
    BY <1>1, LenProperties, ElementOfSeq DEF NavigationTyped
  <2>2. before[current] = entries[current]
    BY <2>1, SubSeqProperties
  <2>3. entries' = Append([before EXCEPT ![current].left = "mkdir"], new)
    BY DEF Navigation!FolderMade
  <2> HIDE DEF before
  <2>4. [before EXCEPT ![current].left = "mkdir"] = [before EXCEPT ![current] = left]
    BY <2>2
  <2> QED
    BY <2>3, <2>4 DEF Pushed, before
<1> HIDE DEF left
<1>5. CASE page = FolderPage
  <2>1. /\ loads' = Append(loads, [address |-> mkdir, part |-> TRUE, late |-> FALSE])
        /\ drifted => drifted'
        /\ Navigation!PageIsLeaving => drifted'
    BY <1>5 DEF Navigation!FolderMade, Navigation!Load
  <2> QED
    BY <1>1, <1>3, <1>4, <1>5, <2>1, PushAndLoad
<1>6. CASE page # FolderPage
  <2>1. loads' = loads /\ drifted'
    BY <1>6 DEF Navigation!FolderMade
  <2> QED
    BY <1>1, <1>3, <1>4, <2>1, PushAndDrift
<1> QED
  BY <1>5, <1>6

LEMMA NavigationNext == NavigationInv /\ [Next]_vars => NavigationInv'
<1> SUFFICES ASSUME NavigationInv, [Next]_vars
             PROVE  NavigationInv'
  OBVIOUS
<1>0. NavigationTyped /\ EntriesRestoreThePage
  BY DEF NavigationInv
<1> DEFINE Left(by) == [address |-> Location, state |-> TRUE, part |-> FALSE, left |-> by]
           New(a, part2) == [address |-> a, state |-> TRUE, part |-> part2, left |-> "no"]
\* What a push by a link or a form does.
<1>a. ASSUME NEW a \in Navigation!Address, NEW part2 \in BOOLEAN, NEW by \in {"link", "form"},
             Navigation!Push(a, part2, by)
      PROVE  /\ Left(by) \in Entry /\ New(a, part2) \in Entry
             /\ entries' = Pushed(Left(by), New(a, part2)) /\ current' = current + 1
  <2>1. entries[current] \in Entry
    BY <1>0, ElementOfSeq DEF NavigationTyped
  <2>2. Location \in Navigation!Address
    BY <2>1 DEF Entry, Location, Navigation!Location
  <2>3. Left(by) \in Entry /\ New(a, part2) \in Entry
    BY <1>a, <2>2 DEF Entry
  <2> QED
    BY <1>a, <2>3 DEF Navigation!Push, Pushed, Location
<1>1. ASSUME NEW a \in Navigation!Address, NEW part2 \in BOOLEAN, Navigation!FollowLink(a, part2)
      PROVE  NavigationInv'
  <2>1. /\ Navigation!Push(a, part2, "link")
        /\ loads' = Append(loads, [address |-> a, part |-> part2, late |-> FALSE])
        /\ page' = page /\ mkdir' = mkdir
        /\ part2 => a[1] = page
    BY <1>1 DEF Navigation!FollowLink, Navigation!Load
  <2>2. /\ drifted => drifted'
        /\ part2 /\ Navigation!PageIsLeaving => drifted'
    BY <1>1, Zenon DEF Navigation!FollowLink
  <2>3. /\ Left("link") \in Entry /\ New(a, part2) \in Entry
        /\ entries' = Pushed(Left("link"), New(a, part2)) /\ current' = current + 1
    BY <1>1, <2>1, <1>a
  <2>4. /\ Left("link").address = Location /\ Left("link").state /\ ~Left("link").part
        /\ New(a, part2).left = "no" /\ New(a, part2).address = a
        /\ New(a, part2).part = part2
    OBVIOUS
  <2> HIDE DEF Left, New
  <2> QED
    BY <2>1, <2>2, <2>3, <2>4, PushAndLoad
<1>2. ASSUME NEW a \in Navigation!Address, Navigation!SubmitForm(a)
      PROVE  NavigationInv'
  <2>1. /\ Navigation!Push(a, FALSE, "form")
        /\ loads' = Append(loads, [address |-> a, part |-> TRUE, late |-> FALSE])
        /\ page' = page /\ mkdir' = mkdir
        /\ a[1] = page
    BY <1>2 DEF Navigation!SubmitForm, Navigation!Load
  <2>2. /\ drifted => drifted'
        /\ Navigation!PageIsLeaving => drifted'
    BY <1>2, Zenon DEF Navigation!SubmitForm
  <2>3. /\ Left("form") \in Entry /\ New(a, FALSE) \in Entry
        /\ entries' = Pushed(Left("form"), New(a, FALSE)) /\ current' = current + 1
    BY <1>2, <2>1, <1>a
  <2>4. /\ Left("form").address = Location /\ Left("form").state /\ ~Left("form").part
        /\ New(a, FALSE).left = "no" /\ New(a, FALSE).address = a
        /\ ~New(a, FALSE).part
    OBVIOUS
  <2> HIDE DEF Left, New
  <2> QED
    BY <2>1, <2>2, <2>3, <2>4, PushAndLoad
<1>3. ASSUME NEW a \in Navigation!Address, Navigation!SubmitVetoed(a)
      PROVE  NavigationInv'
  <2>1. /\ Navigation!Push(a, FALSE, "form")
        /\ UNCHANGED <<loads, mkdir>>
        /\ drifted'
    BY <1>3 DEF Navigation!SubmitVetoed
  <2>2. /\ Left("form") \in Entry /\ New(a, FALSE) \in Entry
        /\ entries' = Pushed(Left("form"), New(a, FALSE)) /\ current' = current + 1
    BY <1>3, <2>1, <1>a
  <2>3. /\ Left("form").address = Location /\ Left("form").state /\ ~Left("form").part
        /\ New(a, FALSE).left = "no"
    OBVIOUS
  <2> HIDE DEF Left, New
  <2> QED
    BY <2>1, <2>2, <2>3, PushAndDrift
<1>4. ASSUME NEW a \in Navigation!Address, Navigation!MakeFolder(a)
      PROVE  NavigationInv'
  <2>1. /\ mkdir' = a /\ a[1] = FolderPage
        /\ UNCHANGED <<entries, current, page, view, loads>>
    BY <1>4 DEF Navigation!MakeFolder
  <2>2. drifted' = drifted
    BY <1>4 DEF Navigation!MakeFolder
  <2>3. NavigationTyped' /\ EntriesRestoreThePage'
    BY <1>0, <1>4, <2>1 DEF NavigationTyped, EntriesRestoreThePage,
                            Navigation!EntriesRestoreThePage
  <2>4. (Overtaken => Overtaken') /\ (Follows => Follows')
    BY <2>1 DEF Overtaken, Follows, Settled, PartsInPage, Location, Navigation!Location
  <2> QED
    BY <2>2, <2>3, <2>4, Zenon DEF NavigationInv
<1>5. ASSUME NEW i \in DOMAIN entries, Navigation!PopState(i)
      PROVE  NavigationInv'
  <2>1. /\ current' = i
        /\ UNCHANGED <<entries, page, view, mkdir>>
    BY <1>5 DEF Navigation!PopState
  <2>2. /\ entries \in Seq(Entry) /\ current \in 1..Len(entries)
        /\ Len(entries) \in Nat /\ DOMAIN entries = 1..Len(entries)
        /\ entries[i] \in Entry
    BY <1>0, <1>5, LenProperties DEF NavigationTyped
  <2>3. EntriesRestoreThePage'
    BY <1>0, <2>1 DEF EntriesRestoreThePage, Navigation!EntriesRestoreThePage
  <2>4. CASE entries[i].state
    <3> DEFINE l == [address |-> entries[i].address, part |-> entries[i].part, late |-> FALSE]
    <3>1. loads' = Append(loads, l)
      BY <1>5, <2>4 DEF Navigation!PopState, Navigation!Load
    <3>2. /\ drifted => drifted'
          /\ entries[i].part /\ i # current + 1 => drifted'
      BY <1>5, <2>4, Zenon DEF Navigation!PopState
    <3>3. l \in Request
      BY <2>2 DEF Entry, Request
    <3>4. l.address = entries[i].address /\ l.part = entries[i].part
      OBVIOUS
    <3> HIDE DEF l
    <3>5. loads' \in Seq(Request) /\ (Overtaken => Overtaken')
      BY <1>0, <3>1, <3>3, RequestBegins
    <3>6. NavigationTyped'
      BY <1>0, <1>5, <2>1, <2>2, <3>5 DEF NavigationTyped
    <3>7. ASSUME Follows, ~drifted'
          PROVE  Follows'
      <4>1. PartsInPage'
        BY <2>1, <3>7 DEF Follows, PartsInPage
      <4>2. Location' = l.address
        BY <2>1, <3>4 DEF Location, Navigation!Location
      <4>3. ASSUME l.part
            PROVE  l.address[1] = Location[1]
        <5>1. i = current + 1
          BY <3>2, <3>4, <3>7, <4>3
        <5>2. entries[i].address[1] = entries[i - 1].address[1]
          BY <1>5, <3>4, <3>7, <4>3 DEF Follows, PartsInPage
        <5>3. i - 1 = current
          BY <2>2, <5>1
        <5> QED
          BY <3>4, <5>2, <5>3 DEF Location, Navigation!Location
      <4> QED
        BY <1>0, <2>1, <3>1, <3>3, <3>7, <4>1, <4>2, <4>3, RequestFollows
    <3>8. drifted' \/ Overtaken' \/ Follows'
      BY <3>2, <3>5, <3>7, Zenon DEF NavigationInv
    <3> QED
      BY <2>3, <3>6, <3>8, Zenon DEF NavigationInv
  <2>5. CASE ~entries[i].state
    <3>1. loads' = loads /\ drifted'
      BY <1>5, <2>5 DEF Navigation!PopState
    <3>2. NavigationTyped'
      BY <1>0, <1>5, <2>1, <2>2, <3>1 DEF NavigationTyped
    <3> QED
      BY <2>3, <3>1, <3>2, Zenon DEF NavigationInv
  <2> QED
    BY <2>4, <2>5
<1>6. CASE Navigation!FolderMade
  BY <1>6, FolderMadeNext
<1>7. CASE Navigation!Answer
  <2>1. PICK i \in DOMAIN loads : /\ Navigation!Ends(i, TRUE)
                                  /\ Navigation!Replace(loads[i])
                                  /\ drifted' = (drifted \/ loads[i].late)
    BY <1>7 DEF Navigation!Answer
  <2>2. UNCHANGED <<entries, current, mkdir>>
    BY <1>7 DEF Navigation!Answer
  <2>3. /\ loads' \in Seq(Request)
        /\ Overtaken /\ ~loads[i].late => Overtaken'
        /\ i # 1 => Overtaken'
    BY <1>0, <2>1, RequestEnds
  <2>4. NavigationTyped' /\ EntriesRestoreThePage'
    BY <1>0, <2>2, <2>3 DEF NavigationTyped, EntriesRestoreThePage,
                            Navigation!EntriesRestoreThePage
  <2>5. /\ drifted => drifted'
        /\ loads[i].late => drifted'
    BY <2>1
  <2>6. ASSUME Follows, i = 1
        PROVE  Follows'
    <3>1. loads # <<>>
      <4>1. DOMAIN <<>> = {}
        OBVIOUS
      <4> QED
        BY <2>1, <4>1
    <3> QED
      BY <1>0, <2>1, <2>2, <2>6, <3>1, FirstAnswerFollows
  <2>7. drifted' \/ Overtaken' \/ Follows'
    BY <2>3, <2>5, <2>6, Zenon DEF NavigationInv
  <2> QED
    BY <2>4, <2>7, Zenon DEF NavigationInv
<1>8. CASE Navigation!Failure
  <2>1. PICK i \in DOMAIN loads : Navigation!Ends(i, FALSE)
    BY <1>8 DEF Navigation!Failure
  <2>2. /\ drifted'
        /\ UNCHANGED <<entries, current, mkdir>>
    BY <1>8 DEF Navigation!Failure
  <2>3. loads' \in Seq(Request)
    BY <1>0, <2>1, RequestEnds
  <2>4. NavigationTyped' /\ EntriesRestoreThePage'
    BY <1>0, <2>2, <2>3 DEF NavigationTyped, EntriesRestoreThePage,
                            Navigation!EntriesRestoreThePage
  <2> QED
    BY <2>2, <2>4, Zenon DEF NavigationInv
<1>9. CASE UNCHANGED navigationVars
  <2>1. UNCHANGED <<entries, current, page, view, loads, mkdir>> /\ drifted' = drifted
    BY <1>9 DEF navigationVars
  <2>2. NavigationTyped' /\ EntriesRestoreThePage'
    BY <1>0, <2>1 DEF NavigationTyped, EntriesRestoreThePage, Navigation!EntriesRestoreThePage
  <2>3. (Overtaken => Overtaken') /\ (Follows => Follows')
    BY <2>1 DEF Overtaken, Follows, Settled, PartsInPage, Location, Navigation!Location
  <2> QED
    BY <2>1, <2>2, <2>3, Zenon DEF NavigationInv
<1>10. Navigation!Next \/ UNCHANGED navigationVars
  BY DEF Next, vars
<1> QED
  BY <1>1, <1>2, <1>3, <1>4, <1>5, <1>6, <1>7, <1>8, <1>9, <1>10 DEF Navigation!Next

\* Going back restores the whole page: an entry that was left by a link or a
\* form has a state, and it names no part (replaceState and pushState of links
\* and of forms of class "history"), for any pages, views and requests.
THEOREM EntriesTheorem == Spec => []EntriesRestoreThePage
<1>1. NavigationInv => EntriesRestoreThePage
  BY DEF NavigationInv
<1> QED
  BY NavigationInit, NavigationNext, <1>1, PTL DEF Spec

\* When no request is under way the document shows what its address says, but
\* for what is known to keep it from that (onpopstate, handleResponse).
THEOREM DocumentTheorem == Spec => []DocumentFollowsLocation
<1>1. NavigationInv => DocumentFollowsLocation
  <2> SUFFICES ASSUME NavigationInv, loads = <<>>
               PROVE  (page = Location[1] /\ view = Location) \/ drifted
    BY DEF DocumentFollowsLocation, Navigation!DocumentFollowsLocation, Location
  <2>1. ~Overtaken
    <3>1. DOMAIN <<>> = {}
      OBVIOUS
    <3> QED
      BY <3>1 DEF Overtaken
  <2> QED
    BY <2>1 DEF NavigationInv, Follows
<1> QED
  BY NavigationInit, NavigationNext, <1>1, PTL DEF Spec
-----------------------------------------------------------------------------
\* The portal.

\* What it does with lists is what the lemmas on lists are about.
LEMMA PortalLists ==
  /\ \A s, S : Portlet!Only(s, S) = Only(s, S)
  /\ \A s, S : Portlet!WithoutFirsts(s, S) = WithoutFirsts(s, S)
  /\ \A s : Portlet!ToSet(s) = ToSet(s)
  /\ \A s, x : Portlet!Contains(s, x) <=> Contains(s, x)
  /\ \A s, i, x : Portlet!InsertAt(s, i, x) = InsertAt(s, i, x)
<1>1. \A s, S : Portlet!Only(s, S) = Only(s, S)
  BY DEF Portlet!Only, Portlet!Sublist, Only, Sublist
<1>2. \A s, S : Portlet!WithoutFirsts(s, S) = WithoutFirsts(s, S)
  BY DEF Portlet!WithoutFirsts, Portlet!Sublist, WithoutFirsts, Sublist
<1>3. \A s : Portlet!ToSet(s) = ToSet(s)
  BY DEF Portlet!ToSet, ToSet
<1>4. \A s, x : Portlet!Contains(s, x) <=> Contains(s, x)
  BY DEF Portlet!Contains, Contains
<1>5. \A s, i, x : Portlet!InsertAt(s, i, x) = InsertAt(s, i, x)
  BY DEF Portlet!InsertAt, InsertAt
<1> QED
  BY <1>1, <1>2, <1>3, <1>4, <1>5

Layout == [DOMAIN Default -> Seq(Portlets)]
Placed(cols) == UNION {ToSet(cols[c]) : c \in DOMAIN cols}
Hidden == ToSet(Portlet!Listed(hiddenItem))
FoldedList == Portlet!Listed(foldedItem)

\* The columns hold what was not closed, as the stored layout places it, which
\* places all of it, or as the server does if none is stored.  What is listed is
\* listed once, and is what is folded, as far as it is there.
PortalInv ==
  /\ columns \in Layout
  /\ layoutItem \in {None} \cup Layout
  /\ Portlet!Listed(hiddenItem) \in Seq(Portlets)
  /\ FoldedList \in Seq(Portlets)
  /\ Placed(columns) = Placed(Default) \ Hidden
  /\ \/ /\ layoutItem = None
        /\ \A c \in DOMAIN Default : columns[c] = Only(Default[c], Portlets \ Hidden)
     \/ /\ layoutItem # None
        /\ \A c \in DOMAIN Default : columns[c] = Only(layoutItem[c], Placed(columns))
        /\ Placed(columns) \subseteq Placed(layoutItem)
  /\ \A p \in Portlets : Occurrences(FoldedList, p) <= 1
  /\ folded = ToSet(FoldedList) \cap Placed(columns)

LEMMA ShownIsPlaced == Portlet!Shown = Placed(columns)
<1>1. {Portlet!ToSet(columns[c]) : c \in DOMAIN columns} = {ToSet(columns[c]) : c \in DOMAIN columns}
  BY PortalLists
<1> QED
  BY <1>1 DEF Portlet!Shown, Placed

LEMMA DefaultLayout == Default \in Layout
BY FrontEndAssumption DEF Layout

\* All of a list.
LEMMA OnlyWhole == ASSUME NEW s \in Seq(Portlets), NEW S, ToSet(s) \subseteq S
                   PROVE  Only(s, S) = s
<1>1. \A x : Contains(s, x) => x \in Portlets /\ x \in S
  BY ContainsElement, ContainsToSet
<1>2. Only(s, S) = Only(s, Portlets)
  BY <1>1, OnlySame
<1> QED
  BY <1>2, OnlyAll

LEMMA ListElements == ASSUME NEW s \in Seq(Portlets) PROVE ToSet(s) \subseteq Portlets
BY ContainsElement, ContainsToSet

\* The sets of what is placed, when a part of each column is.
LEMMA PlacedOnly ==
  ASSUME NEW cols \in Layout, NEW S, NEW cols2 \in Layout,
         \A c \in DOMAIN Default : cols2[c] = Only(cols[c], S)
  PROVE  Placed(cols2) = Placed(cols) \cap S
<1>1. DOMAIN cols = DOMAIN Default /\ DOMAIN cols2 = DOMAIN Default
  BY DEF Layout
<1>2. \A c \in DOMAIN Default : ToSet(cols2[c]) = ToSet(cols[c]) \cap S
  <2> SUFFICES ASSUME NEW c \in DOMAIN Default PROVE ToSet(Only(cols[c], S)) = ToSet(cols[c]) \cap S
    OBVIOUS
  <2>1. cols[c] \in Seq(Portlets)
    BY DEF Layout
  <2> DEFINE s == cols[c]
  <2>2. s \in Seq(Portlets)
    BY <2>1
  <2> HIDE DEF s
  <2>3. ToSet(Only(s, S)) = ToSet(s) \cap S
    BY <2>2, OnlyToSet
  <2> QED
    BY <2>3 DEF s
<1> QED
  BY <1>1, <1>2 DEF Placed

LEMMA OnlyOfPortlets == ASSUME NEW s \in Seq(Portlets), NEW S PROVE Only(s, S) \in Seq(Portlets)
<1> DEFINE U == Portlets \cap S
<1>1. Only(s, S) \in Seq(U)
  BY OnlyType
<1>2. U \subseteq Portlets
  OBVIOUS
<1> HIDE DEF U
<1> QED
  BY <1>1, <1>2, SeqMonotonic

\* What a reload shows is what is there.
LEMMA RenderedIsThere == PortalInv => Portlet!Rendered = columns
<1> SUFFICES ASSUME PortalInv PROVE Portlet!Rendered = columns
  OBVIOUS
<1> DEFINE A == Portlets \ Hidden
           V == [c \in DOMAIN Default |-> Only(Default[c], A)]
           T == Placed(V)
           L == Placed(layoutItem)
<1>1. /\ columns \in Layout /\ Default \in Layout
      /\ Placed(columns) = Placed(Default) \ Hidden
  BY DefaultLayout DEF PortalInv
<1>2. \A c \in DOMAIN Default : Default[c] \in Seq(Portlets)
  BY <1>1 DEF Layout
<1>3. V \in Layout
  <2>1. \A c \in DOMAIN Default : Only(Default[c], A) \in Seq(Portlets)
    BY <1>2, OnlyOfPortlets
  <2> QED
    BY <2>1 DEF Layout
<1>4. Placed(Default) \subseteq Portlets
  BY <1>2, ListElements DEF Placed
<1>5. T = Placed(columns)
  <2>1. \A c \in DOMAIN Default : V[c] = Only(Default[c], A)
    OBVIOUS
  <2> HIDE DEF V, A
  <2>2. Placed(V) = Placed(Default) \cap A
    BY <1>1, <1>3, <2>1, PlacedOnly
  <2> QED
    BY <1>1, <1>4, <2>2 DEF A
<1>6. Portlet!Rendered = IF layoutItem = None THEN V
                         ELSE [c \in DOMAIN Default |-> Only(V[c], Portlets \ L) \o Only(layoutItem[c], T)]
  <2>1. Portlet!ToSet(Portlet!Listed(hiddenItem)) = Hidden
    BY PortalLists DEF Hidden
  <2>2. [c \in DOMAIN Default |-> Portlet!Only(Default[c], A)] = V
    BY PortalLists
  <2>3. UNION {Portlet!ToSet(V[c]) : c \in DOMAIN V} = T
    BY PortalLists DEF Placed
  <2>4. UNION {Portlet!ToSet(layoutItem[c]) : c \in DOMAIN layoutItem} = L
    BY PortalLists DEF Placed
  <2> DEFINE R == IF layoutItem = None THEN V
                  ELSE [c \in DOMAIN Default |->
                          Portlet!Only(V[c], Portlets \ L) \o Portlet!Only(layoutItem[c], T)]
  <2>5. Portlet!Rendered = R
    <3> HIDE DEF V, T, L
    <3>1. QED
      BY <2>1, <2>2, <2>3, <2>4 DEF Portlet!Rendered
  <2>6. \A s, S : Portlet!Only(s, S) = Only(s, S)
    BY PortalLists
  <2> HIDE DEF V, T, L
  <2> QED
    BY <2>5, <2>6
<1>7. CASE layoutItem = None
  <2>1. \A c \in DOMAIN Default : columns[c] = V[c]
    BY <1>7 DEF PortalInv
  <2>2. columns = V
    BY <1>1, <1>3, <2>1 DEF Layout
  <2> QED
    BY <1>6, <1>7, <2>2
<1>8. CASE layoutItem # None
  <2>1. /\ layoutItem \in Layout
        /\ \A c \in DOMAIN Default : columns[c] = Only(layoutItem[c], T)
        /\ T \subseteq L
    BY <1>5, <1>8 DEF PortalInv
  <2>2. ASSUME NEW c \in DOMAIN Default PROVE Only(V[c], Portlets \ L) = <<>>
    <3>1. V[c] \in Seq(Portlets) /\ ToSet(V[c]) \subseteq T
      BY <1>3 DEF Layout, Placed
    <3> DEFINE v == V[c]
               D == Portlets \ L
    <3>2. \A x : Contains(v, x) => (x \in D <=> x \in {})
      <4>1. \A x : Contains(v, x) => x \in T
        BY <3>1, ContainsToSet
      <4> QED
        BY <2>1, <4>1
    <3>3. v \in Seq(Portlets)
      BY <3>1
    <3> HIDE DEF v, D
    <3>4. Only(v, D) = Only(v, {})
      BY <3>2, <3>3, OnlySame
    <3>5. Only(v, {}) = <<>>
      BY <3>3, OnlyNone
    <3> QED
      BY <3>4, <3>5 DEF v, D
  <2>3. ASSUME NEW c \in DOMAIN Default
        PROVE  Only(V[c], Portlets \ L) \o Only(layoutItem[c], T) = columns[c]
    <3>1. columns[c] \in Seq(Portlets)
      BY <1>1 DEF Layout
    <3>2. <<>> \o columns[c] = columns[c]
      BY <3>1, ConcatEmptySeq
    <3> HIDE DEF V, T, L
    <3> QED
      BY <2>1, <2>2, <3>2
  <2> HIDE DEF V, T, L
  <2>4. [c \in DOMAIN Default |-> Only(V[c], Portlets \ L) \o Only(layoutItem[c], T)] = columns
    BY <1>1, <2>3 DEF Layout
  <2> QED
    BY <1>6, <1>8, <2>4
<1> QED
  BY <1>7, <1>8
LEMMA PortalInit == Init => PortalInv
<1> SUFFICES ASSUME Init PROVE PortalInv
  OBVIOUS
<1>1. /\ columns = Default /\ folded = {}
      /\ layoutItem = None /\ hiddenItem = None /\ foldedItem = None
  BY DEF Init, Portlet!Init
<1>2. Portlet!Listed(hiddenItem) = <<>> /\ FoldedList = <<>> /\ <<>> \in Seq(Portlets)
  BY <1>1, EmptySeq DEF Portlet!Listed, FoldedList
<1>3. Hidden = {} /\ ToSet(FoldedList) = {}
  BY <1>2, EmptyToSet DEF Hidden
<1>4. \A p : Occurrences(FoldedList, p) <= 1
  BY <1>2, OccurrencesEmpty
<1>5. ASSUME NEW c \in DOMAIN Default PROVE columns[c] = Only(Default[c], Portlets \ Hidden)
  <2>1. Default[c] \in Seq(Portlets) /\ ToSet(Default[c]) \subseteq Portlets
    BY DefaultLayout, ListElements DEF Layout
  <2>2. Only(Default[c], Portlets) = Default[c]
    BY <2>1, OnlyWhole
  <2>3. Portlets \ Hidden = Portlets
    BY <1>3
  <2> QED
    BY <1>1, <2>2, <2>3
<1> QED
  BY <1>1, <1>2, <1>3, <1>4, <1>5, DefaultLayout DEF PortalInv

\* The columns without a portlet.
LEMMA WithoutPortlet ==
  ASSUME columns \in Layout, NEW p
  PROVE  /\ Portlet!Without(columns, p) \in Layout
         /\ \A c \in DOMAIN Default :
              Portlet!Without(columns, p)[c] = Only(columns[c], Portlets \ {p})
         /\ Placed(Portlet!Without(columns, p)) = Placed(columns) \ {p}
<1> DEFINE S == Portlets \ {p}
           W == [c \in DOMAIN columns |-> Only(columns[c], S)]
<1>1. Portlet!Without(columns, p) = W
  BY PortalLists DEF Portlet!Without
<1>2. DOMAIN columns = DOMAIN Default /\ \A c \in DOMAIN Default : columns[c] \in Seq(Portlets)
  BY DEF Layout
<1>3. \A c \in DOMAIN Default : W[c] = Only(columns[c], S)
  BY <1>2
<1>4. W \in Layout
  <2>1. \A c \in DOMAIN Default : Only(columns[c], S) \in Seq(Portlets)
    BY <1>2, OnlyOfPortlets
  <2> QED
    BY <1>2, <2>1 DEF Layout
<1>5. Placed(columns) \subseteq Portlets
  BY <1>2, ListElements DEF Placed
<1> HIDE DEF S, W
<1>6. Placed(W) = Placed(columns) \cap S
  BY <1>3, <1>4, PlacedOnly
<1>7. Placed(W) = Placed(columns) \ {p}
  BY <1>5, <1>6 DEF S
<1> QED
  BY <1>1, <1>3, <1>4, <1>7 DEF S

\* A portlet dragged: the layout that is saved is that of the columns.
LEMMA MoveNext ==
  ASSUME PortalInv, NEW p \in Portlets, NEW c \in DOMAIN columns,
         NEW k \in 0..Len(columns[c]), Portlet!Move(p, c, k)
  PROVE  PortalInv'
<1> DEFINE rest == Portlet!Without(columns, p)
<1>1. /\ p \in Placed(columns) /\ k \in 0..Len(rest[c])
      /\ columns' = [rest EXCEPT ![c] = InsertAt(rest[c], k + 1, p)]
      /\ layoutItem' = columns'
      /\ UNCHANGED <<folded, hiddenItem, foldedItem>>
  BY ShownIsPlaced, PortalLists DEF Portlet!Move
<1>2. columns \in Layout /\ c \in DOMAIN Default
  BY DEF PortalInv, Layout
<1>3. rest \in Layout /\ Placed(rest) = Placed(columns) \ {p}
  BY <1>2, WithoutPortlet
<1> HIDE DEF rest
<1> DEFINE r == rest[c]
           n == InsertAt(r, k + 1, p)
<1>4. r \in Seq(Portlets) /\ DOMAIN rest = DOMAIN Default
  BY <1>2, <1>3 DEF Layout
<1>5. k + 1 \in 1..Len(r) + 1
  BY <1>1, <1>4, LenProperties
<1> HIDE DEF r
<1>6. n \in Seq(Portlets) /\ ToSet(n) = ToSet(r) \cup {p}
  <2> DEFINE i == k + 1
  <2>1. r \in Seq(Portlets) /\ i \in 1..Len(r) + 1
    BY <1>4, <1>5
  <2> HIDE DEF i
  <2>2. InsertAt(r, i, p) \in Seq(Portlets) /\ ToSet(InsertAt(r, i, p)) = ToSet(r) \cup {p}
    BY <2>1, InsertAtToSet
  <2> QED
    BY <2>2 DEF i
<1> HIDE DEF n
<1>7. columns' = [rest EXCEPT ![c] = n]
  BY <1>1 DEF n, r
<1>8. /\ columns' \in Layout /\ columns'[c] = n
      /\ \A d \in DOMAIN Default : d # c => columns'[d] = rest[d]
      /\ DOMAIN columns' = DOMAIN Default
  BY <1>2, <1>3, <1>6, <1>7 DEF Layout
<1>9. Placed(columns') = Placed(rest) \cup {p}
  <2>1. \A x : x \in Placed(columns') <=> \E d \in DOMAIN Default : x \in ToSet(columns'[d])
    BY <1>8 DEF Placed
  <2>2. \A x : x \in Placed(rest) <=> \E d \in DOMAIN Default : x \in ToSet(rest[d])
    BY <1>4 DEF Placed
  <2>3. \A d \in DOMAIN Default : ToSet(columns'[d]) = IF d = c THEN ToSet(rest[d]) \cup {p}
                                                       ELSE ToSet(rest[d])
    BY <1>6, <1>8 DEF r
  <2> QED
    BY <1>2, <2>1, <2>2, <2>3
<1>10. Placed(columns') = Placed(columns)
  BY <1>1, <1>3, <1>9
<1>11. ASSUME NEW d \in DOMAIN Default
       PROVE  columns'[d] = Only(layoutItem'[d], Placed(columns'))
  <2>1. columns'[d] \in Seq(Portlets) /\ ToSet(columns'[d]) \subseteq Placed(columns')
    BY <1>8 DEF Layout, Placed
  <2> QED
    BY <1>1, <2>1, OnlyWhole
<1>12. layoutItem' # None
  BY <1>1, <1>8, FrontEndAssumption DEF Layout
<1>13. Portlet!Listed(hiddenItem)' = Portlet!Listed(hiddenItem) /\ FoldedList' = FoldedList
  BY <1>1 DEF Portlet!Listed, FoldedList
<1>14. Hidden' = Hidden
  BY <1>13 DEF Hidden
<1>15. Placed(columns)' = Placed(columns)
  BY <1>10
<1>16. /\ folded' = ToSet(FoldedList') \cap Placed(columns')
       /\ \A q \in Portlets : Occurrences(FoldedList', q) <= 1
       /\ FoldedList' \in Seq(Portlets) /\ Portlet!Listed(hiddenItem)' \in Seq(Portlets)
       /\ Placed(columns') = Placed(Default) \ Hidden'
  BY <1>1, <1>10, <1>13, <1>14 DEF PortalInv
<1>17. Placed(columns') \subseteq Placed(layoutItem')
  BY <1>1
<1> QED
  BY <1>1, <1>8, <1>10, <1>11, <1>12, <1>15, <1>16, <1>17 DEF PortalInv

\* A portlet closed: the stored layout names it, but what is left of it does not.
LEMMA CloseNext == ASSUME PortalInv, NEW p \in Portlets, Portlet!Close(p) PROVE PortalInv'
<1> DEFINE H == Portlet!Listed(hiddenItem)
<1>1. /\ p \in Placed(columns)
      /\ hiddenItem' = IF Contains(H, p) THEN H ELSE Append(H, p)
      /\ columns' = Portlet!Without(columns, p)
      /\ folded' = folded \ {p}
      /\ UNCHANGED <<layoutItem, foldedItem>>
  BY ShownIsPlaced, PortalLists DEF Portlet!Close, Portlet!Listing
<1>2. columns \in Layout /\ H \in Seq(Portlets) /\ Placed(columns) = Placed(Default) \ Hidden
  BY DEF PortalInv
<1>3. /\ columns' \in Layout
      /\ \A c \in DOMAIN Default : columns'[c] = Only(columns[c], Portlets \ {p})
      /\ Placed(columns') = Placed(columns) \ {p}
  BY <1>1, <1>2, WithoutPortlet
<1>4. H' \in Seq(Portlets) /\ Hidden' = Hidden \cup {p}
  <2>1. CASE Contains(H, p)
    <3>0. hiddenItem' = H
      BY <1>1, <2>1
    <3>1. H' = H
      BY <1>2, <3>0, FrontEndAssumption DEF Portlet!Listed
    <3>2. p \in ToSet(H)
      BY <1>2, <2>1, ContainsToSet
    <3> QED
      BY <1>2, <3>1, <3>2 DEF Hidden
  <2>2. CASE ~ Contains(H, p)
    <3>1. Append(H, p) \in Seq(Portlets) /\ ToSet(Append(H, p)) = ToSet(H) \cup {p}
      BY <1>2, AppendProperties, AppendToSet
    <3>2. hiddenItem' = Append(H, p)
      BY <1>1, <2>2
    <3>3. H' = Append(H, p)
      BY <3>1, <3>2, FrontEndAssumption DEF Portlet!Listed
    <3> QED
      BY <3>1, <3>3 DEF Hidden
  <2> QED
    BY <2>1, <2>2
<1> HIDE DEF H
<1>5. FoldedList' = FoldedList
  BY <1>1 DEF Portlet!Listed, FoldedList
<1>6. Placed(columns') = Placed(Default) \ (Hidden')
  BY <1>2, <1>3, <1>4
<1>7. \/ /\ layoutItem' = None
         /\ \A c \in DOMAIN Default : columns'[c] = Only(Default[c], Portlets \ (Hidden'))
      \/ /\ layoutItem' # None
         /\ \A c \in DOMAIN Default : columns'[c] = Only(layoutItem'[c], Placed(columns'))
         /\ Placed(columns') \subseteq Placed(layoutItem')
  <2> DEFINE S == Portlets \ {p}
  <2>1. \A c \in DOMAIN Default : columns'[c] = Only(columns[c], S)
    BY <1>3
  <2>2. CASE layoutItem = None
    <3> DEFINE A == Portlets \ Hidden
               B == Portlets \ (Hidden')
    <3>1. \A c \in DOMAIN Default : columns[c] = Only(Default[c], A)
      BY <2>2 DEF PortalInv
    <3>2. A \cap S = B
      BY <1>4
    <3> HIDE DEF A, B, S
    <3>3. ASSUME NEW c \in DOMAIN Default PROVE columns'[c] = Only(Default[c], B)
      <4>1. Default[c] \in Seq(Portlets)
        BY DefaultLayout DEF Layout
      <4>2. Only(Only(Default[c], A), S) = Only(Default[c], A \cap S)
        BY <4>1, OnlyOnly
      <4> QED
        BY <2>1, <3>1, <3>2, <4>2
    <3> QED
      BY <1>1, <2>2, <3>3 DEF B
  <2>3. CASE layoutItem # None
    <3> DEFINE A == Placed(columns)
               B == Placed(columns')
    <3>1. /\ layoutItem \in Layout
          /\ \A c \in DOMAIN Default : columns[c] = Only(layoutItem[c], A)
          /\ A \subseteq Placed(layoutItem)
      BY <2>3 DEF PortalInv
    <3>2. A \subseteq Portlets
      BY <1>2, ListElements DEF Placed, Layout
    <3>3. A \cap S = B /\ B \subseteq A
      BY <1>3, <3>2
    <3> HIDE DEF A, B, S
    <3>4. ASSUME NEW c \in DOMAIN Default PROVE columns'[c] = Only(layoutItem[c], B)
      <4>1. layoutItem[c] \in Seq(Portlets)
        BY <3>1 DEF Layout
      <4>2. Only(Only(layoutItem[c], A), S) = Only(layoutItem[c], A \cap S)
        BY <4>1, OnlyOnly
      <4> QED
        BY <2>1, <3>1, <3>3, <4>2
    <3> QED
      BY <1>1, <2>3, <3>1, <3>3, <3>4 DEF B
  <2> QED
    BY <2>2, <2>3
<1>8. Placed(columns)' = Placed(columns')
  OBVIOUS
<1>9. folded' = ToSet(FoldedList') \cap Placed(columns')
  BY <1>1, <1>3, <1>5 DEF PortalInv
<1>11. \A q \in Portlets : Occurrences(FoldedList', q) <= 1
  BY <1>1, <1>5 DEF PortalInv
<1>12. FoldedList' \in Seq(Portlets) /\ layoutItem' \in {None} \cup Layout
  BY <1>1, <1>5 DEF PortalInv
<1>13. Portlet!Listed(hiddenItem)' \in Seq(Portlets)
  BY <1>4 DEF H
<1> QED
  BY <1>3, <1>6, <1>7, <1>8, <1>9, <1>11, <1>12, <1>13 DEF PortalInv

\* What is stored is what is read back.
LEMMA StoredIsListed == ASSUME NEW s \in Seq(Portlets) PROVE Portlet!Listed(Portlet!Stored(s)) = s
BY FrontEndAssumption DEF Portlet!Listed, Portlet!Stored

\* A portlet that is folded is listed, in one place, which an unfolding takes
\* away; one that is there and not folded is not listed.
LEMMA FoldNext == ASSUME PortalInv, NEW p \in Portlets, Portlet!Fold(p) PROVE PortalInv'
<1> DEFINE F == FoldedList
           P == Placed(columns)
<1>1. /\ p \in P
      /\ UNCHANGED <<columns, layoutItem, hiddenItem>>
      /\ \/ /\ p \in folded /\ folded' = folded \ {p}
            /\ foldedItem' = Portlet!Stored(Portlet!Splice(F, p))
         \/ /\ p \notin folded /\ folded' = folded \cup {p}
            /\ foldedItem' = Portlet!Listing(foldedItem, p)
  BY ShownIsPlaced DEF Portlet!Fold, FoldedList
<1>2. /\ F \in Seq(Portlets) /\ folded = ToSet(F) \cap P
      /\ \A q \in Portlets : Occurrences(F, q) <= 1
  BY DEF PortalInv
<1>0. Portlet!Listing(foldedItem, p) = IF Contains(F, p) THEN F ELSE Append(F, p)
  BY PortalLists DEF Portlet!Listing, FoldedList
<1> HIDE DEF F
<1>3. /\ F' \in Seq(Portlets) /\ folded' = ToSet(F') \cap P
      /\ \A q \in Portlets : Occurrences(F', q) <= 1
  <2>0. \A q : q \in ToSet(F) <=> Occurrences(F, q) > 0
    BY <1>2, ContainsToSet, OccurrencesContains
  <2>00. \A q : Occurrences(F, q) \in Nat
    BY <1>2, OccurrencesType
  <2>1. CASE p \in folded
    <3> DEFINE W == WithoutFirsts(F, {p})
    <3>1. Contains(F, p) /\ p \in ToSet(F)
      BY <1>2, <2>1, ContainsToSet
    <3>2. Portlet!Splice(F, p) = W
      BY <3>1, PortalLists DEF Portlet!Splice
    <3>3. W \in Seq(Portlets)
      BY <1>2, WithoutFirstsType
    <3>4. F' = W
      <4>1. foldedItem' = Portlet!Stored(W)
        BY <1>1, <2>1, <3>2
      <4>2. F' = Portlet!Listed(foldedItem')
        BY DEF F, FoldedList, Portlet!Listed
      <4> QED
        BY <3>3, <4>1, <4>2, StoredIsListed
    <3>5. \A q : Occurrences(W, q) = IF q = p THEN Occurrences(F, q) - 1 ELSE Occurrences(F, q)
      <4> SUFFICES ASSUME NEW q
                   PROVE  Occurrences(W, q) = IF q = p THEN Occurrences(F, q) - 1
                                              ELSE Occurrences(F, q)
        OBVIOUS
      <4>1. Occurrences(W, q) = IF q \in {p} /\ Contains(F, q) THEN Occurrences(F, q) - 1
                                ELSE Occurrences(F, q)
        BY <1>2, OccurrencesWithoutFirsts
      <4> QED
        BY <3>1, <4>1
    <3>6. \A q : q \in ToSet(W) <=> Occurrences(W, q) > 0
      BY <3>3, ContainsToSet, OccurrencesContains
    <3> HIDE DEF W
    <3>7. \A q : q \in ToSet(W) <=> q \in ToSet(F) /\ q # p
      <4>1. Occurrences(F, p) <= 1 /\ Occurrences(F, p) \in Nat
        BY <1>2, <2>00
      <4> QED
        BY <2>0, <2>00, <3>5, <3>6, <4>1
    <3>8. folded' = folded \ {p}
      BY <1>1, <2>1
    <3>9. folded' = ToSet(W) \cap P
      BY <1>2, <3>7, <3>8
    <3>10. \A q \in Portlets : Occurrences(W, q) <= 1
      BY <1>2, <2>00, <3>5
    <3> QED
      BY <3>3, <3>4, <3>9, <3>10
  <2>2. CASE p \notin folded
    <3> DEFINE W == Append(F, p)
    <3>1. p \notin ToSet(F)
      BY <1>1, <1>2, <2>2
    <3>2. ~Contains(F, p)
      BY <1>2, <3>1, ContainsToSet
    <3>3. foldedItem' = W /\ folded' = folded \cup {p}
      BY <1>0, <1>1, <2>2, <3>2
    <3>4. W \in Seq(Portlets) /\ ToSet(W) = ToSet(F) \cup {p}
      BY <1>2, AppendProperties, AppendToSet
    <3>5. F' = W
      BY <3>3, <3>4, FrontEndAssumption DEF F, FoldedList, Portlet!Listed
    <3>6. ASSUME NEW q \in Portlets PROVE Occurrences(W, q) <= 1
      <4>1. Occurrences(W, q) = IF q = p THEN Occurrences(F, q) + 1 ELSE Occurrences(F, q)
        BY <1>2, OccurrencesAppend
      <4>2. Occurrences(F, p) = 0
        BY <2>0, <2>00, <3>1
      <4> QED
        BY <1>2, <4>1, <4>2
    <3> HIDE DEF W
    <3>7. folded' = ToSet(W) \cap P
      BY <1>1, <1>2, <3>3, <3>4
    <3> QED
      BY <3>4, <3>5, <3>6, <3>7
  <2> QED
    BY <2>1, <2>2
<1>4. /\ Portlet!Listed(hiddenItem)' = Portlet!Listed(hiddenItem)
      /\ Hidden' = Hidden /\ Placed(columns)' = P
  BY <1>1 DEF Portlet!Listed, Hidden
<1> QED
  BY <1>1, <1>3, <1>4 DEF PortalInv, F

\* A reload leaves the columns alone and folds what is listed, which stays so.
LEMMA ReloadNext == ASSUME PortalInv, Portlet!Reload PROVE PortalInv'
<1>1. columns' = columns /\ UNCHANGED <<layoutItem, hiddenItem, foldedItem>>
  BY RenderedIsThere DEF Portlet!Reload
<1>2. /\ Portlet!Listed(hiddenItem)' = Portlet!Listed(hiddenItem) /\ FoldedList' = FoldedList
      /\ Hidden' = Hidden /\ Placed(columns)' = Placed(columns)
  BY <1>1 DEF Portlet!Listed, FoldedList, Hidden
<1>3. Portlet!Shown' = Placed(columns)
  <2>1. Portlet!Shown' = Portlet!Shown
    BY <1>1 DEF Portlet!Shown
  <2> QED
    BY <2>1, ShownIsPlaced
<1>4. folded' = {p \in Placed(columns) : Contains(FoldedList, p)}
  BY <1>3, PortalLists DEF Portlet!Reload, FoldedList
<1>5. \A p : Contains(FoldedList, p) <=> p \in ToSet(FoldedList)
  <2>1. FoldedList \in Seq(Portlets)
    BY DEF PortalInv
  <2> QED
    BY <2>1, ContainsToSet
<1>6. folded' = ToSet(FoldedList) \cap Placed(columns)
  BY <1>4, <1>5
<1> QED
  BY <1>1, <1>2, <1>6 DEF PortalInv

LEMMA RestoreNext == ASSUME Portlet!Restore PROVE PortalInv'
<1>1. /\ columns' = Default /\ folded' = {}
      /\ layoutItem' = None /\ hiddenItem' = None /\ foldedItem' = None
  BY DEF Portlet!Restore
<1>2. Portlet!Listed(hiddenItem)' = <<>> /\ FoldedList' = <<>> /\ <<>> \in Seq(Portlets)
  BY <1>1, EmptySeq DEF Portlet!Listed, FoldedList
<1>3. Hidden' = {} /\ ToSet(FoldedList') = {}
  BY <1>2, EmptyToSet DEF Hidden
<1>4. \A p : Occurrences(FoldedList', p) <= 1
  BY <1>2, OccurrencesEmpty
<1>5. ASSUME NEW c \in DOMAIN Default PROVE columns'[c] = Only(Default[c], Portlets \ Hidden')
  <2>1. Default[c] \in Seq(Portlets) /\ ToSet(Default[c]) \subseteq Portlets
    BY DefaultLayout, ListElements DEF Layout
  <2>2. Only(Default[c], Portlets) = Default[c]
    BY <2>1, OnlyWhole
  <2>3. Portlets \ Hidden' = Portlets
    BY <1>3
  <2> QED
    BY <1>1, <2>2, <2>3
<1>6. Placed(columns)' = Placed(Default)
  BY <1>1
<1> QED
  BY <1>1, <1>2, <1>3, <1>4, <1>5, <1>6, DefaultLayout DEF PortalInv

LEMMA PortalNext == PortalInv /\ [Next]_vars => PortalInv'
<1> SUFFICES ASSUME PortalInv, [Next]_vars PROVE PortalInv'
  OBVIOUS
<1>1. ASSUME UNCHANGED portletVars PROVE PortalInv'
  <2>1. UNCHANGED <<columns, folded, layoutItem, hiddenItem, foldedItem>>
    BY <1>1 DEF portletVars
  <2>2. /\ Portlet!Listed(hiddenItem)' = Portlet!Listed(hiddenItem) /\ FoldedList' = FoldedList
        /\ Hidden' = Hidden /\ Placed(columns)' = Placed(columns)
    BY <2>1 DEF Portlet!Listed, FoldedList, Hidden
  <2> QED
    BY <2>1, <2>2 DEF PortalInv
<1>2. ASSUME Portlet!Next PROVE PortalInv'
  BY <1>2, MoveNext, CloseNext, FoldNext, ReloadNext, RestoreNext DEF Portlet!Next
<1> QED
  BY <1>1, <1>2 DEF Next, vars

\* A reload puts the portlets where they are, keeps closed what was closed, and
\* folds what is folded and nothing else (ironrhino.portal.js), whatever the user
\* and earlier reloads did.
THEOREM ReloadTheorem == Spec => []ReloadKeepsThePortal
<1>1. PortalInv => ReloadKeepsThePortal
  <2> SUFFICES ASSUME PortalInv PROVE Portlet!ReloadKeepsThePortal
    BY DEF ReloadKeepsThePortal
  <2>1. Portlet!ToSet(Portlet!Listed(foldedItem)) = ToSet(FoldedList)
    BY PortalLists DEF FoldedList
  <2> QED
    BY <2>1, RenderedIsThere, ShownIsPlaced DEF PortalInv, Portlet!ReloadKeepsThePortal
<1> QED
  BY PortalInit, PortalNext, <1>1, PTL DEF Spec
=============================================================================

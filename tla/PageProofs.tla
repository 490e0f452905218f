----------------------------- MODULE PageProofs -----------------------------
(***************************************************************************)
(* The pages' own parts: the forms (Form, with isValidEmailAddress), the   *)
(* keyboard that the registration page avoids (Keyboard) and the cells of  *)
(* the feed (FeedCells), for texts of every length, every phone and        *)
(* keyboard, and any number of cells.                                      *)
(*                                                                         *)
(* The relays hold what the fields show, and the button has the verdict on *)
(* them once all have sent; a relay that has sent never unsends (FormInv). *)
(* The translation follows from the phone and the keyboard alone           *)
(* (KeyboardInv).  A cell that is bound has one subscription (CellInv).    *)
(***************************************************************************)
EXTENDS Integers, Form, Keyboard, FeedCells, TLAPS
-----------------------------------------------------------------------------
(***************************************************************************)
(* The address.                                                            *)
(***************************************************************************)

\* The split that the expression finds is at the only @ and at the last dot.
LEMMA ValidIsWellFormed ==
  ASSUME NEW s \in Seq(Chars), isValidEmailAddress(s)
  PROVE  WellFormed(s)
<1>1. PICK a \in 1 .. Len(s), d \in 1 .. Len(s) :
        /\ s[a] = "at" /\ a > 1 /\ AllIn(s, 1, a - 1, Local)
        /\ s[d] = "dot" /\ d > a + 1 /\ AllIn(s, a + 1, d - 1, Domain)
        /\ Len(s) >= d + 2 /\ AllIn(s, d + 1, Len(s), {"letter"})
  BY DEF isValidEmailAddress
<1>2. \A i \in 1 .. Len(s) :
        \/ i < a /\ s[i] \in Local
        \/ i = a
        \/ a < i /\ i < d /\ s[i] \in Domain
        \/ i = d
        \/ i > d /\ s[i] = "letter"
  BY <1>1 DEF AllIn
<1>3. OnlyAt(s, "at", a) /\ LastAt(s, "dot", d)
  BY <1>1, <1>2 DEF OnlyAt, LastAt, Local, Domain
<1>4. \A i \in 1 .. Len(s) : s[i] # "other" /\ (i > a => s[i] # "mark")
                             /\ (i > d => s[i] = "letter")
  BY <1>1, <1>2 DEF Local, Domain
<1> QED
  BY <1>1, <1>3, <1>4 DEF WellFormed

\* The only @ and the last dot of a well-formed text are a split.
LEMMA WellFormedIsValid ==
  ASSUME NEW s \in Seq(Chars), WellFormed(s)
  PROVE  isValidEmailAddress(s)
<1>1. PICK a \in 1 .. Len(s), d \in 1 .. Len(s) :
        /\ OnlyAt(s, "at", a) /\ LastAt(s, "dot", d)
        /\ 1 < a /\ a + 1 < d /\ d + 2 <= Len(s)
        /\ \A i \in 1 .. Len(s) :
             /\ s[i] # "other"
             /\ i > a => s[i] # "mark"
             /\ i > d => s[i] = "letter"
  BY DEF WellFormed
<1>2. \A i \in 1 .. Len(s) : s[i] \in Chars
  OBVIOUS
<1>3. AllIn(s, 1, a - 1, Local)
  BY <1>1, <1>2 DEF AllIn, Local, Chars, OnlyAt
<1>4. AllIn(s, a + 1, d - 1, Domain)
  BY <1>1, <1>2 DEF AllIn, Domain, Chars, OnlyAt
<1>5. AllIn(s, d + 1, Len(s), {"letter"})
  BY <1>1 DEF AllIn
<1> QED
  BY <1>1, <1>3, <1>4, <1>5 DEF isValidEmailAddress, OnlyAt, LastAt

\* A letter after the last dot's letters is one more of them.
LEMMA LetterKeepsValid ==
  ASSUME NEW s \in Seq(Chars), isValidEmailAddress(s)
  PROVE  isValidEmailAddress(Append(s, "letter"))
<1> DEFINE t == Append(s, "letter")
<1>1. PICK a \in 1 .. Len(s), d \in 1 .. Len(s) :
        /\ s[a] = "at" /\ a > 1 /\ AllIn(s, 1, a - 1, Local)
        /\ s[d] = "dot" /\ d > a + 1 /\ AllIn(s, a + 1, d - 1, Domain)
        /\ Len(s) >= d + 2 /\ AllIn(s, d + 1, Len(s), {"letter"})
  BY DEF isValidEmailAddress
<1>2. /\ Len(s) \in Nat /\ Len(t) = Len(s) + 1 /\ t[Len(s) + 1] = "letter"
      /\ \A i \in 1 .. Len(s) : t[i] = s[i]
  OBVIOUS
<1> HIDE DEF t
<1>3. AllIn(t, 1, a - 1, Local) /\ AllIn(t, a + 1, d - 1, Domain)
  BY <1>1, <1>2 DEF AllIn
<1>4. AllIn(t, d + 1, Len(t), {"letter"})
  BY <1>1, <1>2 DEF AllIn
<1>5. isValidEmailAddress(t)
  BY <1>1, <1>2, <1>3, <1>4 DEF isValidEmailAddress
<1> QED
  BY <1>5 DEF t

(***************************************************************************)
(* isValidEmailAddress, which lets the matcher choose among several dots   *)
(* and @s, accepts exactly the well-formed texts, of whatever length.      *)
(***************************************************************************)
THEOREM ValidIffWellFormed ==
  \A s \in Seq(Chars) : isValidEmailAddress(s) <=> WellFormed(s)
  BY ValidIsWellFormed, WellFormedIsValid

(***************************************************************************)
(* Typing on: a letter added to a valid address leaves it valid, so the    *)
(* button that isValidEmailAddress enables does not flicker while the user *)
(* types the end of a long top-level domain.                               *)
(***************************************************************************)
THEOREM TypingOn ==
  \A s \in Seq(Chars) :
    isValidEmailAddress(s) => isValidEmailAddress(Append(s, "letter"))
  BY LetterKeepsValid
-----------------------------------------------------------------------------
(***************************************************************************)
(* The forms.                                                              *)
(***************************************************************************)

\* What a relay can hold.
Held(f) == CASE f = "profileImage" -> Images \cup {Unset}
             [] f = "email" -> Addresses
             [] OTHER -> Lengths

FormInv ==
  /\ page \in {"login", "registration"} /\ (page = "login" => modal = "none")
  /\ DOMAIN shown = Fields /\ \A f \in Fields : shown[f] \in Held(f)
  /\ latest = shown
  /\ isEnabled \in BOOLEAN /\ (isEnabled <=> Combined(latest) /\ Verdict(latest))

\* The verdict on a form that is there is that it is complete.
LEMMA VerdictIsComplete ==
  ASSUME FormInv
  PROVE  Combined(shown) /\ Verdict(shown) <=> Complete(shown)
<1>1. /\ shown.email \in Seq(Chars) /\ shown.password \in Nat
      /\ shown.email # Unset /\ shown.password # Unset
  BY FormAssumption DEF FormInv, Fields, loginFields, registrationFields, Held
<1>2. isValidEmailAddress(shown.email) <=> WellFormed(shown.email)
  BY <1>1, ValidIsWellFormed, WellFormedIsValid
<1>3. CASE page = "login"
  <2>1. DOMAIN shown = {"email", "password"}
    BY <1>3 DEF FormInv, Fields, loginFields
  <2>2. Complete(shown) <=> WellFormed(shown.email) /\ shown.password >= 7
    BY <2>1 DEF Complete, MinLength
  <2>3. Combined(shown)
    BY <1>1, <1>3 DEF Combined, Fields, loginFields
  <2> QED
    BY <1>1, <1>2, <1>3, <2>2, <2>3 DEF Verdict, isValidForm
<1>4. CASE page = "registration"
  <2>1. DOMAIN shown = {"profileImage", "email", "fullName", "userName", "password"}
    BY <1>4 DEF FormInv, Fields, registrationFields
  <2>2. /\ shown.profileImage \in {"nil", "image", Unset}
        /\ shown.fullName \in Nat /\ shown.userName \in Nat
        /\ shown.fullName # Unset /\ shown.userName # Unset
    BY <1>4, FormAssumption DEF FormInv, Fields, registrationFields, Held, Images
  <2>3. Complete(shown) <=>
          /\ shown.profileImage = "image" /\ WellFormed(shown.email)
          /\ shown.password >= 7 /\ shown.fullName >= 4 /\ shown.userName >= 4
    BY <2>1 DEF Complete, MinLength
  <2>4. Combined(shown) <=> shown.profileImage # Unset
    BY <1>1, <1>4, <2>2 DEF Combined, Fields, registrationFields
  <2>5. Unset # "image"
    BY FormAssumption
  <2>6. Verdict(shown) <=>
          /\ shown.profileImage # "nil" /\ WellFormed(shown.email)
          /\ shown.password > 6 /\ shown.fullName > 3 /\ shown.userName > 3
    BY <1>2, <1>4 DEF Verdict, isFormValid
  <2> QED
    BY <1>1, <2>2, <2>3, <2>4, <2>5, <2>6
<1> QED
  BY <1>3, <1>4 DEF FormInv

\* A field that is set and whose relay sends it.
LEMMA AcceptStep ==
  ASSUME FormInv, NEW f \in Fields, NEW v \in Held(f), v # Unset,
         shown' = [shown EXCEPT ![f] = v], Accept(f, v), UNCHANGED page,
         page = "login" => modal' = "none"
  PROVE  FormInv'
<1>1. /\ Fields' = Fields /\ latest' = shown'
      /\ \A form : (Verdict(form)' <=> Verdict(form)) /\ (Combined(form)' <=> Combined(form))
  BY DEF FormInv, Fields, Accept, Verdict, Combined
<1>2. DOMAIN shown' = Fields /\ \A g \in Fields : shown'[g] \in Held(g)
  BY DEF FormInv
<1>3. Combined(latest) => Combined(latest')
  BY DEF FormInv, Accept, Combined
<1>4. isEnabled' \in BOOLEAN /\ (isEnabled' <=> Combined(latest') /\ Verdict(latest'))
  <2>1. Verdict(latest') \in BOOLEAN
    BY DEF Verdict, isValidForm, isFormValid
  <2>2. CASE Combined(latest')
    BY <2>1, <2>2 DEF Accept
  <2>3. CASE ~Combined(latest')
    BY <1>3, <2>3 DEF Accept, FormInv
  <2> QED
    BY <2>2, <2>3
<1>5. page' \in {"login", "registration"} /\ (page' = "login" => modal' = "none")
  BY DEF FormInv
<1> QED
  BY <1>1, <1>2, <1>4, <1>5 DEF FormInv, Held

\* At first no form is valid.
LEMMA InitForm == Init => FormInv
<1> SUFFICES ASSUME Init PROVE FormInv
  OBVIOUS
<1>1. DOMAIN shown = Fields /\ \A f \in Fields : shown[f] = Initial(f)
  BY DEF Init
<1>2. \A f \in Fields : Initial(f) \in Held(f)
  BY FormAssumption DEF Initial, Held
<1>3. ~isValidEmailAddress(<<>>)
  BY DEF isValidEmailAddress
<1>4. shown.email = <<>>
  BY <1>1 DEF Init, Fields, loginFields, registrationFields, Initial
<1>5. ~Verdict(latest)
  BY <1>3, <1>4 DEF Init, Verdict, isValidForm, isFormValid
<1> QED
  BY <1>1, <1>2, <1>5 DEF Init, FormInv

\* What the user does keeps it.
LEMMA NextForm == FormInv /\ [Next]_vars => FormInv'
<1> SUFFICES ASSUME FormInv, [Next]_vars PROVE FormInv'
  OBVIOUS
<1>1. CASE \E f \in Fields : \E v \in Values(f) : Edit(f, v)
  <2>1. PICK f \in Fields : \E v \in Values(f) : Edit(f, v)
    BY <1>1
  <2>2. PICK v \in Values(f) : Edit(f, v)
    BY <2>1
  <2>3. v \in Held(f) /\ v # Unset
    BY <2>2, FormAssumption DEF Edit, Values, Held
  <2>4. /\ shown' = [shown EXCEPT ![f] = v] /\ Accept(f, v)
        /\ UNCHANGED page /\ modal' = "none"
    BY <2>2 DEF Edit, fixed
  <2> QED
    BY <2>3, <2>4, AcceptStep
<1>2. CASE \E image \in Images : FinishPicking(image)
  <2>1. PICK image \in Images : FinishPicking(image)
    BY <1>2
  <2>2. image \in Held("profileImage") /\ image # Unset
    BY FormAssumption DEF Held, Images
  <2>3. /\ shown' = [shown EXCEPT !["profileImage"] = image]
        /\ Accept("profileImage", image) /\ UNCHANGED page /\ modal' = "none"
    BY <2>1 DEF FinishPicking, setProfileImageButton, fixed
  <2>4. "profileImage" \in Fields
    BY <2>1 DEF FormInv, FinishPicking, Fields, registrationFields
  <2> QED
    BY <2>2, <2>3, <2>4, AcceptStep
<1>3. CASE /\ UNCHANGED <<page, shown, latest, isEnabled>>
           /\ page = "login" => modal' = "none"
  <2>1. /\ Fields' = Fields /\ (Combined(latest)' <=> Combined(latest))
        /\ (Verdict(latest)' <=> Verdict(latest))
    BY <1>3 DEF Fields, Combined, Verdict
  <2> QED
    BY <1>3, <2>1 DEF FormInv, Held
<1>4. ASSUME ~(\E f \in Fields : \E v \in Values(f) : Edit(f, v)),
             ~(\E image \in Images : FinishPicking(image))
      PROVE  /\ UNCHANGED <<page, shown, latest, isEnabled>>
             /\ page = "login" => modal' = "none"
  BY <1>4 DEF FormInv, Next, vars, fixed, didTapPlusPhotoButton, ChooseSource, CancelPicking,
     loginButtonTapped, signupButtonTapped, Tap
<1> QED
  BY <1>1, <1>2, <1>3, <1>4

\* What is known of every state of a form.
LEMMA FormInvHolds == Spec => []FormInv
BY InitForm, NextForm, PTL DEF Spec

(***************************************************************************)
(* The button is enabled exactly for a complete form, whatever is typed    *)
(* and picked, in any order.                                               *)
(***************************************************************************)
THEOREM EnabledIffComplete == Spec => []EnabledMeansComplete
<1>1. FormInv => EnabledMeansComplete
  BY VerdictIsComplete DEF FormInv, EnabledMeansComplete
<1> QED
  BY <1>1, FormInvHolds, PTL

(***************************************************************************)
(* A tap on the button sends what the page shows, and all of it.           *)
(***************************************************************************)
THEOREM TapsSendTheForm == Spec => SendsWhatIsShown
<1>1. FormInv /\ [Next]_vars => [sent' # sent => sent' = shown /\ Complete(sent')]_vars
  <2> SUFFICES ASSUME FormInv, Next, sent' # sent
               PROVE  sent' = shown /\ Complete(sent')
    BY DEF vars
  <2>1. isEnabled /\ sent' = latest
    BY DEF Next, Edit, didTapPlusPhotoButton, ChooseSource, FinishPicking, CancelPicking,
           loginButtonTapped, signupButtonTapped, Tap
  <2>2. sent' = shown
    BY <2>1 DEF FormInv
  <2>3. Complete(shown)
    BY <2>1, VerdictIsComplete DEF FormInv
  <2> QED
    BY <2>2, <2>3
<1> QED
  BY <1>1, FormInvHolds, PTL DEF Spec, SendsWhatIsShown
-----------------------------------------------------------------------------
(***************************************************************************)
(* The keyboard.                                                           *)
(***************************************************************************)

\* The conjunction is inductive.
KeyboardInv == TypeOK /\ NotCovered /\ NoCreep

\* The room below the stack is a length, whatever the phone.
LEMMA SpaceIsLength ==
  ASSUME TypeOK
  PROVE  bottomSpace \in Int /\ phone.bottom \in Nat
<1>1. phone \in [width : Nat, height : Nat, top : Nat, bottom : Nat]
  BY LengthAssumption DEF TypeOK
<1>2. (phone.width * 35) \div 100 \in Int
  <2>1. phone.width * 35 \in Int
    BY <1>1
  <2> QED
    BY <2>1
<1> QED
  BY <1>1, <1>2 DEF bottomSpace, stackBottom, plusPhotoBottom

\* keyboardWillShow sets the translation from the phone and the keyboard
\* alone, not from the translation before it.
LEMMA ShowStep ==
  ASSUME KeyboardInv, NEW known \in BOOLEAN, NEW height \in Heights,
         keyboardWillShow(known, height)
  PROVE  KeyboardInv'
<1>1. bottomSpace \in Int /\ phone.bottom \in Nat
  BY SpaceIsLength DEF KeyboardInv
<1>2. phone' = phone /\ keyboard' = height /\ framed' = known
  BY DEF keyboardWillShow
<1>3. bottomSpace' = bottomSpace
  BY <1>2 DEF bottomSpace
<1>4. PICK padding \in {0, phone.bottom} :
        lift' = getKeyboardFrameHeight(known, height) + padding
  BY DEF keyboardWillShow, SafeAreaBottom
<1>5. height \in Nat \ {0}
  BY LengthAssumption
<1>6. TypeOK'
  BY <1>1, <1>2, <1>4, <1>5 DEF getKeyboardFrameHeight, KeyboardInv, TypeOK
<1>7. NotCovered' /\ NoCreep'
  BY <1>1, <1>2, <1>3, <1>4, <1>5
     DEF getKeyboardFrameHeight, NotCovered, NoCreep
<1> QED
  BY <1>6, <1>7 DEF KeyboardInv

\* Init and every step keep the conjunction.
LEMMA KeyboardInvHolds == KeyboardSpec => []KeyboardInv
<1>1. KeyboardInit => KeyboardInv
  <2> SUFFICES ASSUME KeyboardInit PROVE KeyboardInv
    OBVIOUS
  <2>1. TypeOK
    BY DEF KeyboardInit, TypeOK
  <2> QED
    BY <2>1, SpaceIsLength DEF KeyboardInit, KeyboardInv, NotCovered, NoCreep
<1>2. KeyboardInv /\ [KeyboardNext]_keyboardVars => KeyboardInv'
  <2> SUFFICES ASSUME KeyboardInv, [KeyboardNext]_keyboardVars
               PROVE  KeyboardInv'
    OBVIOUS
  <2>1. CASE keyboardWillHide
    <3>1. /\ bottomSpace \in Int /\ phone.bottom \in Nat
          /\ bottomSpace' = bottomSpace
      BY <2>1, SpaceIsLength DEF KeyboardInv, keyboardWillHide, bottomSpace
    <3> QED
      BY <2>1, <3>1 DEF keyboardWillHide, KeyboardInv, TypeOK, NotCovered, NoCreep
  <2>2. CASE UNCHANGED keyboardVars
    BY <2>2 DEF keyboardVars, KeyboardInv, TypeOK, NotCovered, NoCreep, bottomSpace
  <2> QED
    BY <2>1, <2>2, ShowStep DEF KeyboardNext
<1> QED
  BY <1>1, <1>2, PTL DEF KeyboardSpec

\* No keyboard of any height, on any phone, covers the stack.
THEOREM NeverCovered == KeyboardSpec => []NotCovered
<1>1. KeyboardInv => NotCovered
  BY DEF KeyboardInv
<1> QED
  BY <1>1, KeyboardInvHolds, PTL

\* However often the keyboard changes, the page does not creep.
THEOREM NeverCreeping == KeyboardSpec => []NoCreep
<1>1. KeyboardInv => NoCreep
  BY DEF KeyboardInv
<1> QED
  BY <1>1, KeyboardInvHolds, PTL
-----------------------------------------------------------------------------
(***************************************************************************)
(* The cells of the feed.                                                  *)
(***************************************************************************)

\* A cell that was never used has no subscription, one that is in use has
\* exactly one; in the reuse queue it may keep the old one.
CellInv ==
  /\ place \in [Cells -> {"new", "pool", "bound", "shown"}]
  /\ item \in [Cells -> Items \cup {None}]
  /\ subscriptions \in [Cells -> Nat]
  /\ \A cell \in Cells :
       /\ place[cell] = "new" => subscriptions[cell] = 0
       /\ place[cell] \in {"bound", "shown"} => subscriptions[cell] = 1

\* Binding, displaying, reclaiming and tapping keep it.
LEMMA CellStep ==
  ASSUME CellInv, [CellsNext]_cellVars
  PROVE  CellInv'
<1> USE DEF CellInv
<1>1. CASE UNCHANGED cellVars
  BY <1>1 DEF cellVars
<1>2. ASSUME NEW cell \in Cells, NEW i \in Items, cellForItemAt(cell, i)
      PROVE  CellInv'
  <2>1. CASE place[cell] = "pool"
    <3>1. subscriptions' = [subscriptions EXCEPT ![cell] = 0 + 1]
      BY <1>2, <2>1 DEF cellForItemAt, prepareForReuse
    <3> QED
      BY <1>2, <3>1 DEF cellForItemAt
  <2>2. CASE place[cell] = "new"
    <3>1. subscriptions' = [subscriptions EXCEPT ![cell] = subscriptions[cell] + 1]
      BY <1>2, <2>2 DEF cellForItemAt
    <3>2. subscriptions[cell] + 1 = 1
      BY <2>2
    <3> QED
      BY <1>2, <3>1, <3>2 DEF cellForItemAt
  <2> QED
    BY <1>2, <2>1, <2>2 DEF cellForItemAt
<1>3. ASSUME NEW cell \in Cells, Display(cell) \/ Reclaim(cell) \/ TapUserName(cell)
      PROVE  CellInv'
  BY <1>3 DEF Display, Reclaim, TapUserName
<1> QED
  BY <1>1, <1>2, <1>3 DEF CellsNext

LEMMA CellInvHolds == CellsSpec => []CellInv
<1>1. CellsInit => CellInv
  BY DEF CellsInit, CellInv
<1>2. CellInv /\ [CellsNext]_cellVars => CellInv'
  BY CellStep
<1> QED
  BY <1>1, <1>2, PTL DEF CellsSpec

(***************************************************************************)
(* A tap on a user name sends one event, for the feed under the finger,    *)
(* with any number of cells and feeds.                                     *)
(***************************************************************************)
THEOREM TapsSendOneEvent == CellsSpec => OneTapOneEvent
<1>1. CellInv /\ [CellsNext]_cellVars =>
        [events' # events =>
           \E cell \in Cells : place[cell] = "shown" /\ events' = <<item[cell]>>]_cellVars
  <2> SUFFICES ASSUME CellInv, CellsNext, events' # events
               PROVE  \E cell \in Cells : place[cell] = "shown" /\ events' = <<item[cell]>>
    OBVIOUS
  <2>1. PICK cell \in Cells : TapUserName(cell)
    BY DEF CellsNext, cellForItemAt, Display, Reclaim
  <2>2. place[cell] = "shown" /\ events' = [n \in 1 .. 1 |-> item[cell]]
    BY <2>1 DEF TapUserName, CellInv
  <2>3. [n \in 1 .. 1 |-> item[cell]] = <<item[cell]>>
    OBVIOUS
  <2> QED
    BY <2>2, <2>3
<1> QED
  BY <1>1, CellInvHolds, PTL DEF CellsSpec, OneTapOneEvent
=============================================================================

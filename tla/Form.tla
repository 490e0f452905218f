-------------------------------- MODULE Form --------------------------------
(***************************************************************************)
(* The forms of the login and the registration page, from the fields on    *)
(* the page through the view model's relays and combineLatest to the       *)
(* button, and the sheet and picker that set the profile image.            *)
(*                                                                         *)
(* A text is represented by its length, an e-mail address by the kinds of  *)
(* its characters (module EmailAddress).                                   *)
(***************************************************************************)
EXTENDS EmailAddress

CONSTANTS
  Addresses,        \* the texts that are explored for the address
  Lengths,          \* the lengths of the other texts
  Unset             \* a relay that has not sent anything

ASSUME FormAssumption ==
  /\ Addresses \subseteq Seq(Chars) /\ <<>> \in Addresses
  /\ Lengths \subseteq Nat /\ 0 \in Lengths
  /\ Unset \notin Addresses /\ Unset \notin Lengths /\ Unset \notin {"nil", "image"}

VARIABLES
  page,         \* "login" or "registration"
  camera,       \* isSourceTypeAvailable(.camera)
  shown,        \* what the page shows in each field
  latest,       \* the latest value of each relay, in combineLatest
  isEnabled,    \* of the page's button
  modal,        \* what covers the page: "none", "sheet" or "picker"
  sent          \* what the last tap handed to AuthManager

vars == <<page, camera, shown, latest, isEnabled, modal, sent>>

fixed == <<page, camera>>

loginFields        == {"email", "password"}
registrationFields == {"profileImage", "email", "fullName", "userName", "password"}

Fields == IF page = "login" THEN loginFields ELSE registrationFields

Images == {"nil", "image"}
Values(f) == CASE f = "profileImage" -> Images
               [] f = "email" -> Addresses
               [] OTHER -> Lengths

\* What a relay has when the page is bound: rx.text sends the empty text at
\* once, profileImage nothing.
Initial(f) == CASE f = "profileImage" -> Unset
                [] f = "email" -> <<>>
                [] OTHER -> 0

\* LoginViewModel.
isValidForm(form) == isValidEmailAddress(form.email) /\ form.password > 6

\* Mutant: the image is not looked at.
isFormValidWithoutImage(form) ==
  /\ isValidEmailAddress(form.email) /\ form.password > 6
  /\ form.fullName > 3 /\ form.userName > 3

\* RegistrationViewModel.
isFormValid(form) ==
  /\ form.profileImage # "nil"
  /\ isValidEmailAddress(form.email) /\ form.password > 6
  /\ form.fullName > 3 /\ form.userName > 3

\* GeneralConfirmButton starts disabled; the forms of a new page are not valid.
Init ==
  /\ page \in {"login", "registration"} /\ camera \in BOOLEAN
  /\ shown = [f \in Fields |-> Initial(f)]
  /\ latest = shown
  /\ isEnabled = FALSE
  /\ modal = "none"
  /\ sent = Unset
-----------------------------------------------------------------------------
\* combineLatest sends when every relay has sent.
Combined(form) == \A f \in Fields : form[f] # Unset

Verdict(form) == IF page = "login" THEN isValidForm(form) ELSE isFormValid(form)

\* Mutant: the driver only ever enables the button.
AcceptOnce(f, v) ==
  /\ latest' = [latest EXCEPT ![f] = v]
  /\ isEnabled' = (isEnabled \/ (Combined(latest') /\ Verdict(latest')))

\* A relay sends v, and the driver of the verdict sets the button.
Accept(f, v) ==
  /\ latest' = [latest EXCEPT ![f] = v]
  /\ isEnabled' = IF Combined(latest') THEN Verdict(latest') ELSE isEnabled

\* rx.text.orEmpty.distinctUntilChanged: the text of f is edited.
Edit(f, v) ==
  /\ modal = "none"
  /\ f # "profileImage" /\ v # shown[f]
  /\ shown' = [shown EXCEPT ![f] = v]
  /\ Accept(f, v)
  /\ UNCHANGED <<fixed, modal, sent>>

\* plusPhotoButton.rx.tap: the action sheet.
didTapPlusPhotoButton ==
  /\ page = "registration" /\ modal = "none"
  /\ modal' = "sheet"
  /\ UNCHANGED <<fixed, shown, latest, isEnabled, sent>>

\* Take photo (if there is a camera), Photo Album, or Cancel.
ChooseSource(source) ==
  /\ modal = "sheet"
  /\ modal' = IF source = "album" \/ (source = "camera" /\ camera)
              THEN "picker" ELSE "none"
  /\ UNCHANGED <<fixed, shown, latest, isEnabled, sent>>

\* The picture on plusPhotoButton.
setProfileImageButton(image) == shown' = [shown EXCEPT !.profileImage = image]

\* didFinishPickingMediaWithInfo: there may be no original image.
FinishPicking(image) ==
  /\ modal = "picker"
  /\ Accept("profileImage", image)
  /\ setProfileImageButton(image)
  /\ modal' = "none"
  /\ UNCHANGED <<fixed, sent>>

CancelPicking ==
  /\ modal = "picker"
  /\ modal' = "none"
  /\ UNCHANGED <<fixed, shown, latest, isEnabled, sent>>

\* A tap on the page's button: withLatestFrom hands on the latest form.
Tap(on) ==
  /\ page = on /\ modal = "none" /\ isEnabled
  /\ sent' = latest
  /\ UNCHANGED <<fixed, shown, latest, isEnabled, modal>>

loginButtonTapped  == Tap("login")
signupButtonTapped == Tap("registration")

Next ==
  \/ \E f \in Fields : \E v \in Values(f) : Edit(f, v)
  \/ didTapPlusPhotoButton
  \/ \E source \in {"camera", "album", "cancel"} : ChooseSource(source)
  \/ \E image \in Images : FinishPicking(image)
  \/ CancelPicking
  \/ loginButtonTapped \/ signupButtonTapped

Spec == Init /\ [][Next]_vars
-----------------------------------------------------------------------------
\* What AuthManager may be asked to do: a well-formed address, a password
\* of seven characters or more, names of four or more and an image.
MinLength == [password |-> 7, fullName |-> 4, userName |-> 4]

Complete(form) ==
  \A f \in DOMAIN form :
    CASE f = "profileImage" -> form[f] = "image"
      [] f = "email" -> WellFormed(form[f])
      [] OTHER -> form[f] >= MinLength[f]

(***************************************************************************)
(* The button is enabled exactly when the page shows a complete form,      *)
(* through every order of edits and picks: also when an image that cannot  *)
(* be read (nil) follows one that could, and for addresses with several    *)
(* dots and @s.                                                            *)
(***************************************************************************)
EnabledMeansComplete == isEnabled <=> Complete(shown)

(***************************************************************************)
(* A tap sends the form that the page shows at that moment, and a complete *)
(* one: no relay lags behind its field.                                    *)
(***************************************************************************)
SendsWhatIsShown == [][sent' # sent => sent' = shown /\ Complete(sent')]_vars
=============================================================================

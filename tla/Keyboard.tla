------------------------------ MODULE Keyboard ------------------------------
(***************************************************************************)
(* The registration page moves up when the keyboard would cover its stack  *)
(* of fields and buttons.  Lengths are in points.                          *)
(*                                                                         *)
(* A translation changes neither the height of the page nor the frames in  *)
(* it, and the page's top inset is its navigation controller's, wherever   *)
(* the page is.  The phone is not turned while the keyboard is up.         *)
(***************************************************************************)
EXTENDS Integers

CONSTANTS
  Heights,        \* heights of keyboards, with and without the word bar
  Phones          \* width and height of the page, top and bottom inset

ASSUME LengthAssumption ==
  /\ Heights \subseteq Nat \ {0}
  /\ Phones \subseteq [width : Nat, height : Nat, top : Nat, bottom : Nat]

VARIABLES
  phone,          \* the phone, held one way
  keyboard,       \* height of the keyboard that is up, 0 if none is
  framed,         \* the last notification told its frame
  lift            \* how far view.transform moves the page up

keyboardVars == <<phone, keyboard, framed, lift>>

\* configurePlusPhotoButton: 50 below the safe area, 0.35 of the page's width.
plusPhotoBottom(p) == p.top + 50 + (p.width * 35) \div 100

\* configureInputContextStackView: four fields and a button of 50, spaced by
\* 20, 50 below the photo button.
stackBottom(p) == plusPhotoBottom(p) + 50 + 5 * 50 + 4 * 20

\* What is left below the stack; negative if the stack does not fit.
bottomSpace == phone.height - stackBottom(phone)

\* Mutant: one point too few.
getKeyboardFrameHeightOff(known, height) ==
  IF known /\ height > bottomSpace THEN height - bottomSpace - 1 ELSE 0

\* How far the stack's bottom would be below the keyboard's top.
getKeyboardFrameHeight(known, height) ==
  IF known /\ height > bottomSpace THEN height - bottomSpace ELSE 0

\* view.safeAreaInsets.bottom: of a page that has been moved up UIKit may
\* still report the inset, or none.
SafeAreaBottom == IF lift = 0 THEN {phone.bottom} ELSE {0, phone.bottom}

KeyboardInit ==
  /\ phone \in Phones
  /\ keyboard = 0
  /\ framed = TRUE
  /\ lift = 0

\* Mutant: the translation is added to the one the page already has.
keyboardWillShowAgain(known, height) ==
  /\ keyboard' = height
  /\ framed' = known
  /\ \E padding \in SafeAreaBottom :
       lift' = lift + getKeyboardFrameHeight(known, height) + padding
  /\ UNCHANGED phone

\* keyboardWillShowNotification: also when the keyboard that is up changes.
keyboardWillShow(known, height) ==
  /\ keyboard' = height
  /\ framed' = known
  /\ \E padding \in SafeAreaBottom :
       lift' = getKeyboardFrameHeight(known, height) + padding
  /\ UNCHANGED phone

\* keyboardWillHideNotification: .identity, set at once and shown by a spring.
keyboardWillHide ==
  /\ keyboard # 0
  /\ keyboard' = 0
  /\ lift' = 0
  /\ UNCHANGED <<phone, framed>>

KeyboardNext ==
  \/ \E known \in BOOLEAN, height \in Heights : keyboardWillShow(known, height)
  \/ keyboardWillHide

KeyboardSpec == KeyboardInit /\ [][KeyboardNext]_keyboardVars
-----------------------------------------------------------------------------
\* Lengths are integers; the page is never moved down.
TypeOK ==
  /\ phone \in Phones
  /\ keyboard \in Heights \cup {0}
  /\ framed \in BOOLEAN
  /\ lift \in Nat

(***************************************************************************)
(* While the keyboard is up the sign-up button and the fields above it are *)
(* not covered, whichever keyboards came before and although the page had  *)
(* been moved, and its safe area had changed, when getKeyboardFrameHeight  *)
(* measured it.                                                            *)
(***************************************************************************)
NotCovered == keyboard # 0 /\ framed => keyboard <= bottomSpace + lift

(***************************************************************************)
(* The page does not creep: however often the keyboard changes, the page   *)
(* is at most the home indicator's inset higher than it has to be, and it  *)
(* is back in its place when the keyboard is gone.                         *)
(***************************************************************************)
NoCreep ==
  /\ keyboard = 0 => lift = 0
  /\ lift <= phone.bottom + (IF keyboard > bottomSpace THEN keyboard - bottomSpace ELSE 0)
=============================================================================

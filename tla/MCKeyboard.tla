----------------------------- MODULE MCKeyboard -----------------------------
(***************************************************************************)
(* Phones that run iOS 13 or later, in portrait and in landscape.          *)
(***************************************************************************)
EXTENDS Keyboard

Phone(w, h, top, bottom) == [width |-> w, height |-> h, top |-> top, bottom |-> bottom]

MCPhones == {Phone(320, 568, 20, 0), Phone(375, 667, 20, 0), Phone(375, 812, 50, 34),
             Phone(414, 896, 48, 34), Phone(428, 926, 47, 34),
             Phone(667, 375, 0, 0), Phone(896, 414, 0, 21)}
=============================================================================

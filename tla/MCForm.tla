------------------------------- MODULE MCForm -------------------------------
(***************************************************************************)
(* Form with addresses on both sides of each condition of the expression:  *)
(* the length of the last part, more dots, more @s, marks and foreign      *)
(* characters on either side of the @.                                     *)
(***************************************************************************)
EXTENDS Form

a   == <<"letter">>
at  == <<"at">>
dot == <<"dot">>

MCAddresses ==
  {<<>>,
   a \o at \o a \o dot \o a,                        \* a@b.c
   a \o at \o a \o dot \o a \o a,                   \* a@b.cc
   a \o at \o a \o dot \o a \o a \o dot \o a,       \* a@b.cc.d
   a \o at \o a \o at \o a \o dot \o a \o a,        \* a@a@b.cc
   <<"mark">> \o at \o a \o dot \o a \o a,          \* +@b.cc
   a \o at \o <<"mark">> \o dot \o a \o a,          \* a@+.cc
   <<"other">> \o at \o a \o dot \o a \o a}         \* a space
=============================================================================

----------------------------- MODULE MCMystagram -----------------------------
(* Mystagram on a small instance. *)
EXTENDS Mystagram

FirstEmail == CHOOSE e \in Emails : TRUE

(***************************************************************************)
(* Calls are interchangeable, and so are addresses: of the behaviours that *)
(* differ only in their names one is kept, in which calls 1, 2, 3 begin in *)
(* this order and call 1 is about the first address.  Only beginnings are  *)
(* left out, on which there is no fairness, so this is sound for liveness. *)
(***************************************************************************)
Canonical ==
  /\ \A c \in Calls \ {1} : calls[c].op # "none" => calls[c - 1].op # "none"
  /\ calls[1].op # "none" => calls[1].email = FirstEmail
=============================================================================

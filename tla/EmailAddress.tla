---------------------------- MODULE EmailAddress ----------------------------
(***************************************************************************)
(* isValidEmailAddress (Extensions/Global+Ext.swift): the whole text must  *)
(* match  [A-Z0-9a-z._%+-]+@[A-Za-z0-9.-]+\.[A-Za-z]{2,}                   *)
(*                                                                         *)
(* A character is represented by what the expression can see of it.  The   *)
(* login and the registration page evaluate it after every keystroke       *)
(* (module Form).                                                          *)
(***************************************************************************)
EXTENDS Naturals, Sequences

\* letter: A-Z a-z.  sign: 0-9 and -.  mark: _ % +.  other: in no class.
Chars  == {"letter", "sign", "dot", "mark", "at", "other"}

\* The character classes before and after the @.
Local  == {"letter", "sign", "dot", "mark"}
Domain == {"letter", "sign", "dot"}

AllIn(s, from, to, class) == \A i \in from .. to : s[i] \in class

\* The text matches if some @ and some dot split it as the expression asks.
isValidEmailAddress(s) ==
  \E a, d \in 1 .. Len(s) :
    /\ s[a] = "at" /\ a > 1 /\ AllIn(s, 1, a - 1, Local)
    /\ s[d] = "dot" /\ d > a + 1 /\ AllIn(s, a + 1, d - 1, Domain)
    /\ Len(s) >= d + 2 /\ AllIn(s, d + 1, Len(s), {"letter"})
-----------------------------------------------------------------------------
\* The only place of ch in s, and its last place.
OnlyAt(s, ch, i)  == s[i] = ch /\ \A j \in 1 .. Len(s) : s[j] = ch => j = i
LastAt(s, ch, i)  == s[i] = ch /\ \A j \in 1 .. Len(s) : s[j] = ch => j <= i

(***************************************************************************)
(* What the expression is meant to say, without guessing a split: there is *)
(* a single @ with something before it, the last dot comes after it with   *)
(* something between them, two or more letters follow the last dot, and    *)
(* no character is foreign or an _, % or + of the domain.                  *)
(***************************************************************************)
WellFormed(s) ==
  \E a, d \in 1 .. Len(s) :
    /\ OnlyAt(s, "at", a) /\ LastAt(s, "dot", d)
    /\ 1 < a /\ a + 1 < d /\ d + 2 <= Len(s)
    /\ \A i \in 1 .. Len(s) :
         /\ s[i] # "other"
         /\ i > a => s[i] # "mark"
         /\ i > d => s[i] = "letter"
=============================================================================

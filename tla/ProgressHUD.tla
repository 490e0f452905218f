----------------------------- MODULE ProgressHUD -----------------------------
(***************************************************************************)
(* The one JGProgressHUD that all pages share (UIViewController.hud), and  *)
(* the fades that make its show and dismiss asynchronous.                  *)
(*                                                                         *)
(* _transitioning is true exactly while a fade runs, so only the fade is   *)
(* kept.  The program sets no delegate, delay or minimum display time.     *)
(* The operations are functions of the HUD's state because a page may call *)
(* two of them, and be deallocated, in one main-thread step.               *)
(***************************************************************************)
CONSTANTS Views,    \* the views of the pages that show the HUD
          NoView    \* nil

VARIABLE hud        \* view: targetView, a weak reference
                    \* fade: the animation that is running
                    \* dismissAfter: _dismissAfterTransitionFinished

NewHUD == [view |-> NoView, fade |-> "none", dismissAfter |-> FALSE]

\* showInView:animated: is ignored during a fade and while the HUD has a view.
Show(h, v) ==
  IF h.fade # "none" \/ h.view # NoView THEN h
  ELSE [h EXCEPT !.view = v, !.fade = "show"]

\* dismissAnimated: is postponed to the end of a fade.
Dismiss(h) ==
  CASE h.fade # "none"                      -> [h EXCEPT !.dismissAfter = TRUE]
    [] h.fade = "none" /\ h.view = NoView   -> h
    [] h.fade = "none" /\ h.view # NoView   -> [h EXCEPT !.fade = "hide"]

\* cleanUpAfterPresentation performs the dismissal that was postponed.
CleanUpAfterPresentation(h) ==
  LET shown == [h EXCEPT !.fade = "none"]
  IN  [(IF h.dismissAfter THEN Dismiss(shown) ELSE shown) EXCEPT !.dismissAfter = FALSE]

CleanUpAfterDismissal(h) == NewHUD

\* The pages with these views are deallocated: the weak reference is nil.
Release(h, views) == IF h.view \in views THEN [h EXCEPT !.view = NoView] ELSE h

\* hitTest:withEvent: takes every touch on the page when the HUD is shown;
\* while it fades in or out UIKit passes it over and touches reach the page.
Blocks(h, v) == h.view = v /\ h.fade = "none"
-----------------------------------------------------------------------------
Init == hud = NewHUD

animationDidFinish ==
  \/ hud.fade = "show" /\ hud' = CleanUpAfterPresentation(hud)
  \/ hud.fade = "hide" /\ hud' = CleanUpAfterDismissal(hud)
=============================================================================

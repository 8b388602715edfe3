---------------------------- MODULE MC_RunTimeline ----------------------------
(* One node that is visited again and again, two sessions, an operator who  *)
(* gives a reason and one who gives none.                                  *)
EXTENDS RunTimeline, TLC

Symmetry == Permutations(Sessions)
===============================================================================

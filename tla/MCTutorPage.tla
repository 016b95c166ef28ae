---------------------------- MODULE MCTutorPage ----------------------------
(***************************************************************************)
(* An instance of TutorPage for TLC: two handlers, so that an answer lost  *)
(* to the page can still be computed while the page asks again, and two    *)
(* workers, so that two sessions can finish turns at once.                 *)
(***************************************************************************)
EXTENDS TutorPage

CONSTANTS h1, h2, w1, w2

TwoHandlers == {h1, h2}
TwoWorkers  == {w1, w2}
=============================================================================

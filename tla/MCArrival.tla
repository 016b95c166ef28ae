----------------------------- MODULE MCArrival -----------------------------
(***************************************************************************)
(* An instance of Arrival for TLC: two signing keys, and two token loads,  *)
(* so that a load a request gave up on can meet the load of the next.      *)
(***************************************************************************)
EXTENDS Arrival

TwoLoads == {1, 2}
=============================================================================

-------------------------------- MODULE Turn --------------------------------
(***************************************************************************)
(* What the session API promises of an exercise: it is put once, one       *)
(* answer to it is taken, graded and recorded, and an answer can be given  *)
(* up only before it is recorded.  Session.tla implements this, whatever   *)
(* its threads, its page and its restarts do.                              *)
(***************************************************************************)
EXTENDS Naturals

CONSTANT Exercises

VARIABLES
    stage,       \* where the answer to each exercise stands
    recorded     \* how often the plan was updated from each exercise

vars == <<stage, recorded>>

InHand == {"open", "taken", "graded"}

Init ==
    /\ stage = [x \in Exercises |-> "unposed"]
    /\ recorded = [x \in Exercises |-> 0]

Move(x, from, to) ==
    /\ stage[x] = from
    /\ stage' = [stage EXCEPT ![x] = to]

Pose(x)  == Move(x, "unposed", "open") /\ UNCHANGED recorded
Take(x)  == Move(x, "open", "taken") /\ UNCHANGED recorded
Grade(x) == Move(x, "taken", "graded") /\ UNCHANGED recorded

Record(x) ==
    /\ Move(x, "graded", "recorded")
    /\ recorded' = [recorded EXCEPT ![x] = @ + 1]

(* A new start gives one exercise up, a restart every one in hand.         *)
GiveUp(X) ==
    /\ \A x \in X : stage[x] \in InHand
    /\ stage' = [x \in Exercises |-> IF x \in X THEN "dropped" ELSE stage[x]]
    /\ UNCHANGED recorded

Next ==
    \/ \E x \in Exercises : Pose(x) \/ Take(x) \/ Grade(x) \/ Record(x)
    \/ \E X \in SUBSET Exercises : GiveUp(X)

Spec == Init /\ [][Next]_vars
=============================================================================

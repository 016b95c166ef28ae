---------------------------- MODULE MCTutorGraph ----------------------------
(***************************************************************************)
(* Instances of TutorGraph for TLC.  The chain is the longest of the       *)
(* bundled skills.yaml: variables <- functions <- recursion <-             *)
(* recursion_tree.                                                         *)
(***************************************************************************)
EXTENDS TutorGraph

CONSTANTS variables, functions, recursion, recursion_tree

Pair      == {variables, functions}
Chain     == {variables, functions, recursion}
LongChain == {variables, functions, recursion, recursion_tree}

ChainPrereqs == [s \in Skills |-> CASE s = variables -> {}
                                    [] s = functions -> {variables}
                                    [] s = recursion -> {functions}
                                    [] OTHER         -> {recursion}]

ChainRank == [s \in Skills |-> CASE s = variables -> 0
                                 [] s = functions -> 1
                                 [] s = recursion -> 2
                                 [] OTHER         -> 3]

Alphabet == [s \in Skills |-> CASE s = functions -> 0
                                [] s = recursion -> 1
                                [] s = variables -> 3
                                [] OTHER         -> 2]

Node(m, c, a) == [mastery |-> m, confidence |-> c, attempts |-> a, misconceptions |-> "NONE"]

Prior == Node(30, 0, 0)

(* A new student; one good at everything but the basics, and one bad at    *)
(* everything, with enough attempts on record for the next one to settle   *)
(* it.                                                                     *)
Newcomer   == NoRows
Returning  == [s \in Skills |-> IF s = variables THEN Node(30, 0, 2) ELSE Node(90, 0, 2)]
Struggling == [s \in Skills |-> Node(30, 0, 3)]

NewcomerOrReturning  == {Newcomer, Returning}
NewcomerOrStruggling == {Newcomer, Struggling}
OnlyStruggling       == {Struggling}
OnlyNewcomer         == {Newcomer}

(* Every decision a model could make, or no model at all.                  *)
AnyProposal == Decisions
NoProposal  == {}

(* The skills a request or an analysis may name.                           *)
Undiagnosed   == {NoSkill}
Known         == Skills \cup {NoSkill}
AskFunctions  == {functions, Unknown}
OnlyFunctions == {functions}
AskLast       == {recursion_tree}
AskRecursion  == {recursion, Unknown}
=============================================================================

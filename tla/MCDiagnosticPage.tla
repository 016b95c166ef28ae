-------------------------- MODULE MCDiagnosticPage --------------------------
(* An instance of DiagnosticPage for TLC: the part of skills.yaml in which *)
(* one skill is the foundation of two, and a third builds on one of them.  *)
EXTENDS DiagnosticPage

CONSTANTS variables, functions, conditionals, recursion, h1, h2

TheSkills == {variables, functions, conditionals, recursion}

ThePrereqs == [s \in TheSkills |-> CASE s = variables -> {}
                                     [] s = recursion -> {functions, conditionals}
                                     [] OTHER         -> {variables}]

TheRank == [s \in TheSkills |-> CASE s = variables    -> 0
                                  [] s = functions    -> 1
                                  [] s = conditionals -> 2
                                  [] OTHER            -> 3]

Alphabet == [s \in TheSkills |-> CASE s = conditionals -> 0
                                   [] s = functions    -> 1
                                   [] s = recursion    -> 2
                                   [] OTHER            -> 3]

TwoHandlers == {h1, h2}
=============================================================================

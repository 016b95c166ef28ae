------------------------------ MODULE Evidence ------------------------------
(***************************************************************************)
(* What a graded submission is worth and what it shows: the observation    *)
(* update_mastery is handed (app/mastery/evidence.py), and the patterns    *)
(* that name a misconception without a model (misconceptions.py).          *)
(***************************************************************************)
EXTENDS Grading

-----------------------------------------------------------------------------
(* Observations.  A score is the number of cases passed out of a number,   *)
(* at least one, of cases run.                                             *)

Score(passed, run) == [passed |-> passed, of |-> IF run = 0 THEN 1 ELSE run]

FullMarks(score) == score.passed = score.of

(* What Observation.__post_init__ lets pass; it raises on anything else.   *)
IsObservation(outcome, score, distinct) ==
    /\ outcome \in StudentOutcomes
    /\ score.passed \in Nat /\ score.of \in Nat \ {0} /\ score.passed <= score.of
    /\ distinct \in Nat

-----------------------------------------------------------------------------
(* Patterns, in the order in which they are tried.  A pattern is known by  *)
(* what the interpreter says, or by the outcome, or by the outcome and a   *)
(* look at the program.                                                    *)

NoHint == "no skill"

BySaying(key, hint) ==
    [key |-> key, hint |-> hint, said |-> TRUE, outcome |-> "none", looks |-> FALSE]
ByOutcome(key, hint, outcome) ==
    [key |-> key, hint |-> hint, said |-> FALSE, outcome |-> outcome, looks |-> FALSE]
ByProgram(key, hint, outcome) ==
    [key |-> key, hint |-> hint, said |-> FALSE, outcome |-> outcome, looks |-> TRUE]

PATTERNS ==
    << BySaying("missing_base_case", "conditionals"),
       BySaying("unreturned_recursive_call", "functions"),
       ByProgram("print_instead_of_return", "functions", "WRONG_ANSWER"),
       ByProgram("accumulator_reset_in_loop", "variables", "WRONG_ANSWER"),
       ByProgram("overwrite_instead_of_accumulate", "variables", "WRONG_ANSWER"),
       ByOutcome("infinite_loop", "loops", "STUDENT_TIMEOUT"),
       ByProgram("off_by_one_recursion", "recursion", "none"),
       BySaying("name_error", "variables"),
       BySaying("indentation", NoHint) >>

NoPattern == [key |-> "none", hint |-> NoHint, said |-> FALSE, outcome |-> "none", looks |-> FALSE]

Keys == {PATTERNS[i].key : i \in 1 .. Len(PATTERNS)}

(* signs are the keys of the patterns whose signature is found in what the *)
(* interpreter said or in the program.  What it said comes first.          *)
SaidPatterns(signs) ==
    {i \in 1 .. Len(PATTERNS) : PATTERNS[i].said /\ PATTERNS[i].key \in signs}

OutcomePatterns(outcome, signs) ==
    {i \in 1 .. Len(PATTERNS) :
        /\ PATTERNS[i].outcome = outcome
        /\ PATTERNS[i].looks => PATTERNS[i].key \in signs}

FirstOf(patterns) ==
    PATTERNS[CHOOSE i \in patterns : \A j \in patterns : i <= j]

Detect(outcome, signs) ==
    IF SaidPatterns(signs) # {} THEN FirstOf(SaidPatterns(signs))
    ELSE IF OutcomePatterns(outcome, signs) # {} THEN FirstOf(OutcomePatterns(outcome, signs))
    ELSE NoPattern
=============================================================================

------------------------------ MODULE Exercise ------------------------------
(***************************************************************************)
(* One exercise after another in app/graph/nodes.py: generate_problem asks *)
(* the model for up to three drafts and falls back on the authored ladder, *)
(* the learner submits, execute_and_grade runs the submission case by case *)
(* and classifies what came of it, analyze_misconception looks for a       *)
(* pattern, and update_mastery is handed an observation.                   *)
(***************************************************************************)
EXTENDS Evidence, LLMClient, FiniteSets

CONSTANTS
    Variants,      \* how many authored tasks the rung may have
    Sandboxes,     \* what get_sandbox may return, "subprocess" or "docker"
    Signs,         \* the sets of pattern signatures a program may show
    MaxServed      \* bound on exercises served

DRAFTS == 3

(* The schema a draft is parsed into.  The key of an exercise tells which  *)
(* of the ladder's texts it is, or that a model drafted it.                *)
Origins  == {"none", "unavailable", "demand", "task", "model"}
Problems == [key : Origins \X Nat, expected : Outputs \cup {Blank}, cases : Seq(Cases)]

ASSUME ExerciseAssumption ==
    /\ Variants \subseteq Nat /\ MaxServed \in Nat
    /\ Sandboxes \subseteq {"subprocess", "docker"}
    /\ Signs \subseteq SUBSET Keys

ASSUME DraftAssumption == Values \subseteq {p \in Problems : p.key[1] = "model"}

VARIABLES
    pc,
    sandbox,       \* the backend the process was started with
    language,      \* "PYTHON", or one the ladder has no tasks for
    variants,      \* the rung's authored tasks
    draft,         \* attempts: which draft is being asked for
    problem,       \* current_problem
    degraded,      \* the problem is a fallback
    seen,          \* recent_content_keys
    served,        \* exercises served so far
    halted,        \* session_status is HALTED_ERROR
    code,          \* the submission brings code, not only an answer
    results,       \* the cases run so far, with what came of each
    failure,       \* first_failure, an index of results, or 0
    grade,         \* error_type, evidence_score and distinct_expectations
    found          \* the pattern recognised

posedVars    == <<problem, degraded, seen, served, halted>>
runVars      == <<code, results, failure>>
gradeVars    == <<runVars, grade, found>>
rungVars     == <<sandbox, language, variants>>
exerciseVars == <<rungVars, draft, posedVars, gradeVars>>
vars         == <<llmVars, pc, exerciseVars>>

NoProblem == [key |-> <<"none", 0>>, expected |-> Blank, cases |-> <<>>]

NoGrade == [outcome |-> "none", score |-> Score(0, 0), distinct |-> 1]

TheOutput == CHOOSE o \in Outputs : TRUE

(* _template_problem: an authored task, the rung's demand alone when there *)
(* is none, or the notice that the language has no offline exercises.  The *)
(* one debugging and the one tracing task are a rung of a single variant.  *)
Template(n) ==
    IF language # "PYTHON" THEN [NoProblem EXCEPT !.key = <<"unavailable", 0>>]
    ELSE IF variants = 0 THEN [NoProblem EXCEPT !.key = <<"demand", 0>>]
    ELSE [key |-> <<"task", n % variants>>, expected |-> TheOutput,
          cases |-> <<DefaultCase(TheOutput)>>]

Init ==
    /\ LLMInit
    /\ pc = "pose"
    /\ sandbox \in Sandboxes
    /\ language \in {"PYTHON", "OTHER"}
    /\ variants \in Variants
    /\ draft = 0 /\ problem = NoProblem /\ degraded = FALSE
    /\ seen = {} /\ served = 0 /\ halted = FALSE
    /\ code = FALSE /\ results = <<>> /\ failure = 0
    /\ grade = NoGrade /\ found = NoPattern

-----------------------------------------------------------------------------
(* generate_problem.                                                       *)

AskForDraft(n) ==
    /\ draft' = n
    /\ pc' = "ask"
    /\ Begin(Template(n))
    /\ UNCHANGED <<chain, rungVars, posedVars, gradeVars>>

(* The list of prompts to avoid has grown since the last exercise: the     *)
(* request is a new one.                                                   *)
Generate ==
    /\ pc = "pose" /\ served < MaxServed
    /\ AskForDraft(0)
    /\ cached' = NewRequest(cached # CacheOff)

Ask == pc = "ask" /\ CallStep(Template(draft)) /\ UNCHANGED <<pc, exerciseVars>>

Draft   == call.value
Wanted  == IsUsable(Draft) /\ Draft.key \notin seen
Offline == language # "PYTHON" /\ call.usedFallback

(* What the loop over drafts ends with: a draft that will do, the offline  *)
(* notice of a language without a ladder, or the third draft, replaced by  *)
(* the ladder's task when it cannot be marked.                             *)
LoopEnds == Wanted \/ Offline \/ draft = DRAFTS - 1

Chosen ==
    IF ~ Wanted /\ ~ Offline /\ ~ IsUsable(Draft)
    THEN [problem |-> Template(draft), degraded |-> TRUE]
    ELSE [problem |-> Draft, degraded |-> call.usedFallback]

(* Plausible bug, for mutation: drafts are asked for until one will do.    *)
NextDraftAnyway ==
    /\ pc = "ask" /\ Calling("answered") /\ ~ Wanted
    /\ AskForDraft(draft + 1)
    /\ UNCHANGED cached

(* Plausible bug, for mutation: every draft is counted as the first.       *)
NextDraftUncounted ==
    /\ pc = "ask" /\ Calling("answered") /\ ~ LoopEnds
    /\ AskForDraft(draft)
    /\ UNCHANGED cached

NextDraft ==
    /\ pc = "ask" /\ Calling("answered") /\ ~ LoopEnds
    /\ AskForDraft(draft + 1)
    /\ UNCHANGED cached

(* Plausible bug, for mutation: a repeat is noted and served all the same. *)
ServeRepeat ==
    /\ pc = "ask" /\ Calling("answered") /\ (LoopEnds \/ IsUsable(Draft))
    /\ IsUsable(Chosen.problem)
    /\ problem' = Chosen.problem
    /\ degraded' = Chosen.degraded
    /\ seen' = seen \cup {problem'.key}
    /\ served' = served + 1
    /\ pc' = "await"
    /\ call' = NoCall
    /\ UNCHANGED <<chain, cached, rungVars, draft, halted, gradeVars>>

Serve ==
    /\ pc = "ask" /\ Calling("answered") /\ LoopEnds
    /\ IsUsable(Chosen.problem)
    /\ problem' = Chosen.problem
    /\ degraded' = Chosen.degraded
    /\ seen' = seen \cup {problem'.key}
    /\ served' = served + 1
    /\ pc' = "await"
    /\ call' = NoCall
    /\ UNCHANGED <<chain, cached, rungVars, draft, halted, gradeVars>>

(* No exercise can be marked: the session halts.  The edge to await_student *)
(* is unconditional, so the graph still waits for a submission.            *)
Halt ==
    /\ pc = "ask" /\ Calling("answered") /\ LoopEnds
    /\ ~ IsUsable(Chosen.problem)
    /\ problem' = NoProblem
    /\ degraded' = FALSE
    /\ halted' = TRUE
    /\ pc' = "await"
    /\ call' = NoCall
    /\ UNCHANGED <<chain, cached, rungVars, draft, seen, served, gradeVars>>

-----------------------------------------------------------------------------
(* execute_and_grade.  A blank submission is asked for again and changes   *)
(* nothing; an answer without code is not run.                             *)

Submit ==
    /\ pc = "await"
    /\ code' \in BOOLEAN
    /\ pc' = "run"
    /\ UNCHANGED <<llmVars, rungVars, draft, posedVars, results, failure, grade, found>>

IsFault(r) == ClassifyWithExpectation(r.execution, r.passed) \in SystemFaults
Stopped    == results # <<>> /\ IsFault(results[Len(results)])
Reached    == IF results = <<>> THEN 0 ELSE results[Len(results)].case
ToRun      == {i \in Tested(problem) : i > Reached}

(* Plausible bug, for mutation: the suite stops at a fault but reports the *)
(* failure that came before it.                                            *)
FirstFailureKept(r) ==
    IF ~ r.passed /\ failure = 0 THEN Len(results) + 1 ELSE failure

(* The first failure is kept; a fault takes its place.                     *)
FirstFailure(r) ==
    IF IsFault(r) \/ (~ r.passed /\ failure = 0) THEN Len(results) + 1 ELSE failure

(* A program is refused by its text, so by its first run or never.  What a *)
(* program prints matters when it ends well.                               *)
Run(case, expected) ==
    \E execution \in Executions(sandbox, language), printed \in Outputs :
        LET passed == execution.status = "ok" /\ expected \in {printed, Blank}
            result == [case |-> case, execution |-> execution, expected |-> expected,
                       printed |-> IF execution.status = "ok" THEN printed ELSE Blank,
                       passed |-> passed]
        IN  /\ execution.status = "blocked" => results = <<>>
            /\ results' = Append(results, result)
            /\ failure' = FirstFailure(result)
            /\ UNCHANGED <<llmVars, pc, rungVars, draft, posedVars, code, grade, found>>

ExecuteCase ==
    /\ pc = "run" /\ code
    /\ ~ Stopped
    /\ \E i \in ToRun :
           /\ \A j \in ToRun : i <= j
           /\ Run(i, RunnerExpectation(Suite(problem)[i]))

(* Nothing to compare with: the program is run, and running is enough.     *)
ExecuteWhole ==
    /\ pc = "run" /\ code
    /\ Kept(problem) = {} /\ results = <<>>
    /\ Run(1, Blank)

AllRun == Stopped \/ IF Kept(problem) = {} THEN results # <<>> ELSE ToRun = {}

Verdict ==
    IF ~ code \/ results = <<>>
    THEN "WRONG_ANSWER"
    ELSE LET decisive == IF failure = 0 THEN Len(results) ELSE failure
         IN  ClassifyWithExpectation(results[decisive].execution, failure = 0)

PassedCount == Cardinality({i \in 1 .. Len(results) : results[i].passed})

(* How falsifiable the suite was.                                          *)
Distinct ==
    IF ~ code \/ Kept(problem) = {} THEN 1
    ELSE Cardinality({Expectation(Suite(problem)[i]) : i \in Kept(problem)})

Grade ==
    /\ pc = "run"
    /\ code => AllRun
    /\ grade' = [outcome |-> Verdict, score |-> Score(PassedCount, Len(results)),
                 distinct |-> Distinct]
    /\ pc' = "graded"
    /\ UNCHANGED <<llmVars, rungVars, draft, posedVars, runVars, found>>

(* analyze_misconception, on the way of evidence.  What the interpreter    *)
(* said is there when the decisive run was started, and the program when   *)
(* one was submitted.                                                      *)
Shown(signs) ==
    {key \in signs : \E i \in 1 .. Len(PATTERNS) :
        /\ PATTERNS[i].key = key
        /\ IF PATTERNS[i].said THEN code /\ results # <<>> ELSE code}

AnalyzeMisconception ==
    /\ pc = "graded" /\ grade.outcome \in StudentOutcomes
    /\ IF grade.outcome = "CORRECT" THEN found' = NoPattern
       ELSE \E signs \in Signs : found' = Detect(grade.outcome, Shown(signs))
    /\ pc' = "analysed"
    /\ UNCHANGED <<llmVars, rungVars, draft, posedVars, runVars, grade>>

(* update_mastery takes the observation, or recover the fault, and the     *)
(* turn goes on to the next exercise, of this rung or another; what is     *)
(* known of the last submission is not looked at again.                    *)
GoOn ==
    /\ pc = "analysed" \/ (pc = "graded" /\ grade.outcome \in SystemFaults)
    /\ ~ halted
    /\ pc' = "pose"
    /\ variants' \in Variants
    /\ code' = FALSE /\ results' = <<>> /\ failure' = 0
    /\ grade' = NoGrade /\ found' = NoPattern
    /\ UNCHANGED <<llmVars, sandbox, language, draft, posedVars>>

Next == Generate \/ Ask \/ NextDraft \/ Serve \/ Halt
        \/ Submit \/ ExecuteCase \/ ExecuteWhole \/ Grade
        \/ AnalyzeMisconception \/ GoOn

Spec == Init /\ [][Next]_vars

(* A provider answers or times out, and so does the sandbox; the learner   *)
(* need not submit.                                                        *)
Busy == Ask \/ NextDraft \/ Serve \/ Halt \/ ExecuteCase \/ ExecuteWhole \/ Grade

FairSpec == Spec /\ WF_vars(Busy)

-----------------------------------------------------------------------------
(* The types of the variables.                                             *)
CallTypeOK ==
    /\ call.at \in {"idle", "look", "ask", "answered"}
    /\ call.provider \in 0 .. chain /\ call.attempt \in 0 .. MAX_RETRIES
    /\ call.repaired \in BOOLEAN /\ call.usedFallback \in BOOLEAN
    /\ call.asked \in [1 .. chain -> Seq(Results)]
    /\ call.fault \in {"none", "LLM_FAILURE", "MALFORMED_MODEL_OUTPUT"}

ExerciseTypeOK ==
    /\ CallTypeOK
    /\ chain \in Chain /\ cached \in {CacheOff} \cup [1 .. chain -> Values \cup {NoValue}]
    /\ pc \in {"pose", "ask", "await", "run", "graded", "analysed"}
    /\ variants \in Variants /\ draft \in 0 .. DRAFTS - 1 /\ served \in 0 .. MaxServed
    /\ problem \in Problems
    /\ {halted, code, degraded} \subseteq BOOLEAN
    /\ Len(results) <= Len(problem.cases) + 1
    /\ failure \in 0 .. Len(results)
    /\ grade.outcome \in {"none"} \cup StudentOutcomes \cup SystemFaults
    /\ found.key \in Keys \cup {"none"}

(* The recovery chain of a call keeps its budget whatever mixture of       *)
(* failures it meets: a provider is asked at most MAX_RETRIES + 1 times    *)
(* and repaired once, is not asked again after a permanent failure or an   *)
(* answer, and no provider is asked before the one ahead of it was given   *)
(* up (call_structured).                                                   *)
GivenUpAfter(requests, n) ==
    \/ n = MAX_RETRIES + 1
    \/ n > 0 /\ requests[n] = "permanent"
    \/ \E i, j \in 1 .. n : i # j /\ requests[i] = "malformed" /\ requests[j] = "malformed"

AsksWithinBudget ==
    \A p \in 1 .. chain :
        LET requests == call.asked[p]
        IN  /\ \A n \in 0 .. Len(requests) - 1 :
                   ~ GivenUpAfter(requests, n) /\ (n > 0 => requests[n] # "valid")
            /\ p < call.provider => GivenUpAfter(requests, Len(requests))
            /\ p > call.provider => requests = <<>>

(* What the learner is shown is the model's own exercise exactly when it   *)
(* is not declared degraded, and a call has a fault exactly when its value *)
(* is the fallback: the log never pretends that a model succeeded          *)
(* (call_structured, generate_problem).                                    *)
FallbackIsDeclared ==
    /\ Calling("answered") =>
           /\ call.usedFallback <=> call.fault # "none"
           /\ call.usedFallback <=> call.value \notin Values
    /\ pc \in {"await", "run", "graded", "analysed"} /\ ~ halted => (degraded <=> problem \notin Values)

(* A question is put a second time only after three drafts, and what       *)
(* stands in for a draft is not a repeat while the rung has a task the     *)
(* learner has not had and there is no model to answer.                    *)
NoIdleRepeat ==
    [][served' # served /\ problem'.key \in seen =>
           /\ draft = DRAFTS - 1
           /\ chain = 0 => \A n \in 0 .. DRAFTS - 1 : Template(n).key \in seen]_vars

(* An expectation that execute_and_grade keeps and run_test_cases skips,   *)
(* because it is hidden behind an empty field.                             *)
Hidden(p) == \E i \in 1 .. Len(p.cases) :
                 Expectation(p.cases[i]) # RunnerExpectation(p.cases[i])

(* A trouble of ours is never held against the learner: when the outcome   *)
(* is the learner's, every run behind it was started and none was refused, *)
(* whatever the other runs of the suite said, what update_mastery is       *)
(* handed is an observation, which it does not refuse, and a pattern is    *)
(* named only of a program that was run (run_test_cases, classify,         *)
(* Observation, detect).                                                   *)
FaultsAreNotEvidence ==
    /\ pc \in {"graded", "analysed"} /\ grade.outcome \in StudentOutcomes =>
           /\ \A i \in 1 .. Len(results) : results[i].execution.started
           /\ IsObservation(grade.outcome, grade.score, grade.distinct)
    /\ \A i \in 1 .. Len(results) - 1 : results[i].execution.started
    /\ found # NoPattern /\ ~ Hidden(problem) => results # <<>>

(* When the problem says what to print, every expectation it states is     *)
(* compared unless the suite is cut short, and the outcome is CORRECT, and *)
(* the score full, exactly when all of them were printed by a program that *)
(* ended well; and as many different expectations were compared as the     *)
(* guess is priced on (execute_and_grade).  Left out: a problem one of     *)
(* whose expectations is hidden.                                           *)
Stated(p) ==
    LET told == {Expectation(p.cases[i]) : i \in 1 .. Len(p.cases)} \ {Blank}
    IN  IF told # {} THEN told ELSE {p.expected} \ {Blank}

Compared == {results[i].expected : i \in 1 .. Len(results)}

VerdictIsEarned ==
    pc \in {"graded", "analysed"} /\ code /\ grade.outcome \notin SystemFaults
        /\ Stated(problem) # {} /\ ~ Hidden(problem)
    => /\ Compared = Stated(problem)
       /\ grade.distinct = Cardinality(Compared)
       /\ FullMarks(grade.score) <=> grade.outcome = "CORRECT"
       /\ grade.outcome = "CORRECT" <=>
              \A i \in 1 .. Len(results) :
                  results[i].execution.status = "ok" /\ results[i].printed = results[i].expected

(* Authoring ends in an exercise or in a halt and grading ends in a        *)
(* verdict, however the providers and the sandbox fail.                    *)
ExerciseSettles == pc \in {"ask", "run"} ~> pc \in {"await", "graded", "analysed"}
=============================================================================

------------------------------ MODULE Grading ------------------------------
(***************************************************************************)
(* Grading by execution: what one run in either sandbox reports            *)
(* (subprocess_sandbox.py and docker_sandbox.py of app/tools/sandbox), how *)
(* a run is classified (classifier.py), and which of a problem's test      *)
(* cases can decide anything, as the graph (nodes.py) and as the runner    *)
(* (runner.py) see it.                                                     *)
(***************************************************************************)
EXTENDS Naturals, Sequences

CONSTANTS
    Outputs,    \* what programs print, blanks stripped
    Absent,     \* a field that is not there
    Blank,      \* an empty field
    Spaces      \* a field of white space

ASSUME OutputAssumption ==
    /\ Outputs # {}
    /\ Absent # Blank /\ Spaces \notin {Absent, Blank}
    /\ {Absent, Blank, Spaces} \cap Outputs = {}

-----------------------------------------------------------------------------
(* One run.                                                                *)

Programs == {"zero", "syntax error", "traceback", "other exit", "timeout"}

Unstarted(status) == [status |-> status, started |-> FALSE]
Ended(status)     == [status |-> status, started |-> TRUE]

StatusFromCompleted(program) ==
    CASE program = "zero"         -> "ok"
      [] program = "syntax error" -> "syntax_error"
      [] program = "traceback"    -> "runtime_error"
      [] program = "other exit"   -> "nonzero_exit"

EndOf(program) ==
    IF program = "timeout" THEN Ended("timeout") ELSE Ended(StatusFromCompleted(program))

(* In a subprocess: whether the code is refused before it runs, whether    *)
(* the language's runtime is installed and the operating system lets us    *)
(* start it, and how the compiler, if there is one, and the program end.   *)
(* Only Python is refused by its text, and it has no compiler.             *)
Environments(language) ==
    [refused : IF language = "PYTHON" THEN BOOLEAN ELSE {FALSE},
     runtime : BOOLEAN, starts : BOOLEAN,
     compiler : IF language = "PYTHON" THEN {"none"} ELSE {"none", "ok", "error", "timeout"},
     program : Programs]

Execution(env) ==
    IF env.refused THEN Unstarted("blocked")
    ELSE IF ~ (env.runtime /\ env.starts) THEN Unstarted("sandbox_error")
    ELSE IF env.compiler = "error" THEN Ended("syntax_error")
    ELSE IF env.compiler = "timeout" THEN Ended("timeout")
    ELSE EndOf(env.program)

(* In a container: the daemon answers or not, the files can be written or  *)
(* not, and the learner's process is known to have started by the first    *)
(* line that the wrapper around it prints; without that line neither an    *)
(* exit nor a timeout says anything about the learner.                     *)
DockerEnvironments ==
    [available : BOOLEAN, files : BOOLEAN, sentinel : BOOLEAN, program : Programs]

DockerExecution(env) ==
    IF env.available /\ env.files /\ env.sentinel
    THEN EndOf(env.program)
    ELSE Unstarted("sandbox_error")

(* run_submission: the container knows of no language but Python.          *)
Executions(sandbox, language) ==
    IF sandbox = "subprocess"
    THEN {Execution(env) : env \in Environments(language)}
    ELSE IF language = "PYTHON"
    THEN {DockerExecution(env) : env \in DockerEnvironments}
    ELSE {Unstarted("sandbox_error")}

-----------------------------------------------------------------------------
(* Classification.                                                         *)

StudentOutcomes == {"CORRECT", "WRONG_ANSWER", "STUDENT_SYNTAX_ERROR",
                    "STUDENT_RUNTIME_ERROR", "STUDENT_TIMEOUT"}
SystemFaults    == {"EXECUTION_REFUSED", "SANDBOX_FAILURE"}

Classify(e) ==
    CASE e.status = "blocked" -> "EXECUTION_REFUSED"
      [] e.status = "sandbox_error" \/ (e.status # "blocked" /\ ~ e.started) -> "SANDBOX_FAILURE"
      [] e.started /\ e.status = "timeout"      -> "STUDENT_TIMEOUT"
      [] e.started /\ e.status = "syntax_error" -> "STUDENT_SYNTAX_ERROR"
      [] e.started /\ e.status \in {"runtime_error", "nonzero_exit"} -> "STUDENT_RUNTIME_ERROR"
      [] e.started /\ e.status = "ok" -> "WRONG_ANSWER"

ClassifyWithExpectation(e, passed) ==
    IF e.status = "ok" /\ e.started
    THEN IF passed THEN "CORRECT" ELSE "WRONG_ANSWER"
    ELSE Classify(e)

-----------------------------------------------------------------------------
(* Test cases.  A model may leave out any of the three names under which   *)
(* an expectation is looked for, or leave it empty, or put white space     *)
(* there, which counts as something until it is stripped.  A null counts   *)
(* as absent for the first name and as empty for the others.               *)

Fields   == Outputs \cup {Absent, Blank, Spaces}
Cases    == [expected_output : Fields, expected : Fields, output : Fields]

Stripped(field) == IF field = Spaces THEN Blank ELSE field

(* nodes.py: the first of the three that is not empty.                     *)
Expectation(case) ==
    IF case.expected_output \notin {Absent, Blank} THEN Stripped(case.expected_output)
    ELSE IF case.expected \notin {Absent, Blank} THEN Stripped(case.expected)
    ELSE IF case.output \notin {Absent, Blank} THEN Stripped(case.output)
    ELSE Blank

(* runner.py: the first of the three that is there.                        *)
RunnerExpectation(case) ==
    IF case.expected_output # Absent THEN Stripped(case.expected_output)
    ELSE IF case.expected # Absent THEN Stripped(case.expected)
    ELSE IF case.output # Absent THEN Stripped(case.output)
    ELSE Blank

(* The suite execute_and_grade passes on: the problem's cases, or its      *)
(* expected_output alone when no case can decide.                          *)
DefaultCase(expected) == [expected_output |-> expected, expected |-> Absent, output |-> Absent]

(* Plausible bug, for mutation: any case at all hides the problem's own    *)
(* expected_output.                                                        *)
SuiteShadowed(problem) ==
    IF problem.expected # Blank /\ problem.cases = <<>>
    THEN <<DefaultCase(problem.expected)>>
    ELSE problem.cases

Suite(problem) ==
    IF problem.expected # Blank
       /\ \A i \in 1 .. Len(problem.cases) : Expectation(problem.cases[i]) = Blank
    THEN <<DefaultCase(problem.expected)>>
    ELSE problem.cases

(* The cases of the suite that are kept, and those that are run.           *)
Kept(problem) ==
    {i \in 1 .. Len(Suite(problem)) : Expectation(Suite(problem)[i]) # Blank}

Tested(problem) ==
    {i \in Kept(problem) : RunnerExpectation(Suite(problem)[i]) # Blank}

(* _is_usable.                                                             *)
IsUsable(problem) == problem.expected # Blank \/ problem.cases # <<>>
=============================================================================

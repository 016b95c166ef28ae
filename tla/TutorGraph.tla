----------------------------- MODULE TutorGraph -----------------------------
(***************************************************************************)
(* The tutoring graph of one student: app/graph/builder.py wires the nodes *)
(* of app/graph/nodes.py, app/api/main.py starts it, resumes it with a     *)
(* submission, and continues it after a failure.  One action per node; the *)
(* store calls of update_mastery, which commit one by one, are actions of  *)
(* their own.  A new POST /session puts a new graph in the place of one    *)
(* that may still run; what the old one then does to the store they share  *)
(* is modelled beside the graph.                                           *)
(***************************************************************************)
EXTENDS Guard

CONSTANTS
    Levels,          \* the mastery values that occur
    Confidences,     \* the confidence values that occur
    PriorNode,       \* the record of a skill never practised
    InitialStores,   \* what the store may hold for the student at first
    Targets,         \* the target_skill a start request may name
    Languages,       \* the languages it may choose
    Proposals,       \* the decisions the model may propose; {} when no model answers
    Diagnoses,       \* the prerequisites an analysis may implicate
    MAX_ERRORS,      \* system faults tolerated in a session
    MaxStarts,       \* bound on start requests
    MaxBreakdowns    \* bound on nodes that raise

(* A row of skill_mastery; whether a misconception is on it, not which.    *)
SkillNodes == [mastery : Levels, confidence : Confidences, attempts : Nat,
               misconceptions : {"NONE", "SOME"}]

(* A store, or a mirror of it, before any row is there.                    *)
NoRows == [s \in {} |-> PriorNode]

ASSUME NodeAssumption ==
    /\ Levels \subseteq 0 .. 100
    /\ Confidences \subseteq 0 .. 100
    /\ PriorNode \in SkillNodes
    /\ InitialStores \subseteq [Skills -> SkillNodes] \cup {NoRows}

ASSUME InputAssumption ==
    /\ Targets \subseteq Names
    /\ Languages \subseteq {"PYTHON", "OTHER"}
    /\ Proposals \subseteq Decisions
    /\ Diagnoses \subseteq Names
    /\ MAX_ERRORS \in Nat
    /\ MaxStarts \in Nat
    /\ MaxBreakdowns \in Nat

VARIABLES
    pc,           \* the node to run next, or where the graph rests
    running,      \* an invocation of the graph is in progress
    call,         \* the store call update_mastery makes next
    language,
    status,       \* session_status
    problem,      \* current_problem is set
    target,       \* target_skill
    stack,        \* prereq_return_stack
    depth,        \* prereq_depth
    loops,        \* loop_count
    failures,     \* consecutive_failures
    topic,        \* topic_attempt_count
    errors,       \* error_count
    outcome,      \* error_type: the last grade
    hint,         \* attribution_hint
    detected,     \* the latest skill implicated while practising each skill
    action,       \* next_action
    difficulty,   \* difficulty_level
    recommended,  \* recommended_next_skill
    skills,       \* skill_graph: the session's mirror of the records
    store,        \* the durable skill_mastery rows
    moved,        \* the rows update_mastery has computed from the grade
    rows,         \* the number of exercise rows in attempt_log
    submissions,  \* history: submissions graded as student evidence
    seeded,       \* history: the attempts on record at first
    starts,       \* history: start requests served
    breakdowns,   \* history: nodes that raised
    older,        \* the threads of replaced sessions that can still reach the store
    foreign       \* history: the rows they wrote since this session last read or wrote them

control  == <<pc, running, call>>
request  == <<language, target>>
detour   == <<stack, depth>>
counters == <<loops, failures, topic, errors>>
grade    == <<outcome, hint, detected>>
plan     == <<action, difficulty, recommended>>
records  == <<skills, store, moved, rows>>
history  == <<submissions, seeded, starts, breakdowns>>
others   == <<older, foreign>>

vars == <<control, request, status, problem, detour, counters, grade, plan, records, history,
          others>>

Nodes == {"load_student", "diagnose", "plan_action", "retrieve", "generate_problem",
          "execute_and_grade", "analyze_misconception", "update_mastery", "adapt",
          "recover", "finalize"}

-----------------------------------------------------------------------------
(* Running and stopping.                                                   *)

Run(node) == running /\ pc = node

GoTo(node) == pc' = node /\ UNCHANGED <<running, call>>

(* The edge into await_student suspends the invocation at its interrupt.   *)
Suspend == pc' = "await_student" /\ running' = FALSE /\ UNCHANGED call

NoDiagnosis == [s \in Skills |-> NoSkill]

Init ==
    /\ pc = "idle" /\ running = FALSE /\ call = "save"
    /\ language = "PYTHON" /\ target = NoSkill
    /\ status = "ACTIVE" /\ problem = FALSE
    /\ stack = <<>> /\ depth = 0
    /\ loops = 0 /\ failures = 0 /\ topic = [s \in Skills |-> 0] /\ errors = 0
    /\ outcome = "NONE" /\ hint = NoSkill /\ detected = NoDiagnosis
    /\ action = "NONE" /\ difficulty = "MEDIUM" /\ recommended = NoSkill
    /\ store \in InitialStores
    /\ skills = NoRows /\ moved = NoRows /\ rows = 0
    /\ seeded = [s \in Skills |-> IF store = NoRows THEN PriorNode.attempts
                                                    ELSE store[s].attempts]
    /\ submissions = 0 /\ starts = 0 /\ breakdowns = 0
    /\ older = [n \in {} |-> 0] /\ foreign = {}

(* What a thread still needs of its session's state to reach the store,    *)
(* and the nodes from which it does before it rests.                       *)
Present == [pc |-> pc, call |-> call, target |-> target, outcome |-> outcome, hint |-> hint,
            skills |-> skills, moved |-> moved]

StoreNodes == {"load_student", "execute_and_grade", "analyze_misconception", "update_mastery"}

(* POST /session replaces the session, its graph and its lock, and stops   *)
(* nothing: the thread that runs the old graph goes on, known by its start. *)
LeaveRunning ==
    older' = IF running /\ pc \in StoreNodes
             THEN [n \in DOMAIN older \cup {starts} |-> IF n = starts THEN Present ELSE older[n]]
             ELSE older

(* POST /start: initial_state overwrites every channel except the one it   *)
(* does not mention, recommended_next_skill, which only a new thread (a    *)
(* new POST /session) forgets.  While the graph runs the lock lets only a  *)
(* new session start.                                                      *)
Start ==
    /\ starts < MaxStarts
    /\ LeaveRunning
    /\ pc' = "load_student" /\ running' = TRUE /\ call' = "save"
    /\ target' \in Targets
    /\ language' \in Languages
    /\ recommended' \in IF running THEN {NoSkill} ELSE {recommended, NoSkill}
    /\ status' = "ACTIVE" /\ problem' = FALSE
    /\ stack' = <<>> /\ depth' = 0
    /\ loops' = 0 /\ failures' = 0 /\ topic' = [s \in Skills |-> 0] /\ errors' = 0
    /\ outcome' = "NONE" /\ hint' = NoSkill /\ detected' = NoDiagnosis
    /\ action' = "NONE" /\ difficulty' = "MEDIUM"
    /\ skills' = NoRows /\ moved' = NoRows
    /\ starts' = starts + 1
    /\ UNCHANGED <<store, rows, submissions, seeded, breakdowns, foreign>>

FirstRows == [s \in Skills |-> PriorNode]

Misconceived(node) == [node EXCEPT !.misconceptions = "SOME"]

(* What a node that breaks off may have committed to the store by then;    *)
(* the calls of update_mastery are actions of their own.                   *)
LeaveBehind ==
    \/ store' = store
    \/ /\ pc = "load_student" /\ store = NoRows
       /\ store' = FirstRows
    \/ /\ pc = "analyze_misconception" /\ outcome = "INCORRECT"
       /\ store' = [store EXCEPT ![target] = Misconceived(skills[target])]

(* A node raises, or the worker that should run it cannot be started: the  *)
(* checkpoint still names the node, and none of its patch is applied.      *)
Breakdown ==
    /\ running
    /\ breakdowns < MaxBreakdowns
    /\ running' = FALSE
    /\ call' = "save"
    /\ breakdowns' = breakdowns + 1
    /\ LeaveBehind
    /\ UNCHANGED <<pc, request, status, problem, detour, counters, grade, plan, skills, moved,
                   rows, submissions, seeded, starts, others>>

(* Plausible bug, for mutation: only the usual breakpoint is continued.    *)
ContinueAfterGradingOnly ==
    /\ ~running
    /\ pc = "analyze_misconception"
    /\ running' = TRUE
    /\ UNCHANGED <<pc, call, request, status, problem, detour, counters, grade, plan, records,
                   history, others>>

(* POST /continue: the broken-off node runs again, from its start.         *)
Continue ==
    /\ ~running
    /\ pc \in Nodes
    /\ running' = TRUE
    /\ UNCHANGED <<pc, call, request, status, problem, detour, counters, grade, plan, records,
                   history, others>>

-----------------------------------------------------------------------------
(* Up to the question.                                                     *)

LoadStudent ==
    /\ Run("load_student")
    /\ store' = IF store = NoRows THEN FirstRows ELSE store
    /\ skills' = store'
    /\ foreign' = {}
    /\ GoTo("diagnose")
    /\ UNCHANGED <<request, status, problem, detour, counters, grade, plan, moved, rows, history,
                   older>>

(* Without a requested target the weakest skill is taken; which of several *)
(* equally weak ones depends on the order of the rows.                     *)
Diagnose ==
    /\ Run("diagnose")
    /\ target # Unknown
    /\ IF target \in Skills
       THEN target' = target
       ELSE target' \in {s \in Skills : \A t \in Skills : skills[s].mastery <= skills[t].mastery}
    /\ GoTo("plan_action")
    /\ UNCHANGED <<language, status, problem, detour, counters, grade, plan, records, history,
                   others>>

(* The request named a skill that does not exist: SkillGraphError.         *)
DiagnoseUnknown ==
    /\ Run("diagnose")
    /\ target = Unknown
    /\ running' = FALSE
    /\ UNCHANGED <<pc, call, request, status, problem, detour, counters, grade, plan, records,
                   history, others>>

(* Retrieval is skipped when the material at hand is all about the target; *)
(* the material is not modelled, so either edge may be taken.              *)
PlanAction ==
    /\ Run("plan_action")
    /\ difficulty' = DifficultyFor(skills[target].mastery)
    /\ loops' = loops + 1
    /\ \/ GoTo("retrieve")
       \/ GoTo("generate_problem")
    /\ UNCHANGED <<request, status, problem, detour, failures, topic, errors, grade, action,
                   recommended, records, history, others>>

Retrieve ==
    /\ Run("retrieve")
    /\ GoTo("generate_problem")
    /\ UNCHANGED <<request, status, problem, detour, counters, grade, plan, records, history,
                   others>>

(* There is an authored exercise for every skill in Python; in another     *)
(* language there is none when no model answers with a markable one.       *)
Author ==
    /\ problem' \in BOOLEAN
    /\ language = "PYTHON" => problem'

(* Without an exercise the session halts -- but the edge to await_student  *)
(* is unconditional.                                                       *)
GenerateProblem ==
    /\ Run("generate_problem")
    /\ Author
    /\ status' = IF problem' THEN status ELSE "HALTED_ERROR"
    /\ Suspend
    /\ UNCHANGED <<request, detour, counters, grade, plan, records, history, others>>

-----------------------------------------------------------------------------
(* From a submission to its grade.                                         *)

(* POST /submit, at the interrupt only.                                    *)
SubmitAnswer ==
    /\ ~running
    /\ pc = "await_student"
    /\ pc' = "execute_and_grade" /\ running' = TRUE
    /\ UNCHANGED <<call, request, status, problem, detour, counters, grade, plan, records, history,
                   others>>

RouteEvidence(o) == IF o \in StudentOutcomes THEN "analyze_misconception" ELSE "recover"

ExecuteAndGrade ==
    /\ Run("execute_and_grade")
    /\ outcome' \in StudentOutcomes \cup SystemFaults
    /\ submissions' = IF outcome' \in StudentOutcomes THEN submissions + 1 ELSE submissions
    /\ GoTo(RouteEvidence(outcome'))
    /\ UNCHANGED <<request, status, problem, detour, counters, hint, detected, plan, records,
                   seeded, starts, breakdowns, others>>

(* The misconception goes on the mirrored record, and from there to the    *)
(* store unless that write fails, which is swallowed.                      *)
RecordMisconception ==
    /\ skills' = [skills EXCEPT ![target] = Misconceived(skills[target])]
    /\ store' \in {store, [store EXCEPT ![target] = skills'[target]]}

(* Only an entry that implicates something hides the earlier ones.         *)
Detect(implicated) ==
    detected' = IF implicated = NoSkill THEN detected
                ELSE [detected EXCEPT ![target] = implicated]

(* There is nothing to diagnose about a correct answer.                    *)
AnalyzeNothing ==
    /\ Run("analyze_misconception")
    /\ outcome # "INCORRECT"
    /\ GoTo("update_mastery")
    /\ UNCHANGED <<request, status, problem, detour, counters, grade, plan, records, history,
                   others>>

(* A deterministic pattern names the mistake: it may move a score.         *)
AnalyzeByRule ==
    /\ Run("analyze_misconception")
    /\ outcome = "INCORRECT"
    /\ hint' \in Diagnoses
    /\ Detect(hint')
    /\ RecordMisconception
    /\ GoTo("update_mastery")
    /\ UNCHANGED <<request, status, problem, detour, counters, outcome, plan, moved, rows, history,
                   others>>

(* The model names it: that routes the next exercise, and moves no score.  *)
AnalyzeByModel ==
    /\ Run("analyze_misconception")
    /\ outcome = "INCORRECT"
    /\ Proposals # {}
    /\ hint' = NoSkill
    /\ \E gap \in Diagnoses : Detect(gap)
    /\ RecordMisconception
    /\ GoTo("update_mastery")
    /\ UNCHANGED <<request, status, problem, detour, counters, outcome, plan, moved, rows, history,
                   others>>

(* Neither could: nothing is put on record.                                *)
AnalyzeFallback ==
    /\ Run("analyze_misconception")
    /\ outcome = "INCORRECT"
    /\ hint' = NoSkill
    /\ GoTo("update_mastery")
    /\ UNCHANGED <<request, status, problem, detour, counters, outcome, detected, plan, records,
                   history, others>>

-----------------------------------------------------------------------------
(* Moving mastery: update_mastery, one store call at a time.               *)

(* The mastery no answer lifts a student above, and, rounded up, the one    *)
(* that repeated failure converges to, from above and from below.          *)
MASTERY_CEILING == 99
AnalyticFloor   == 10

(* The records one graded observation may leave of a node.  A correct      *)
(* answer never lowers mastery below the ceiling, a wrong one never raises *)
(* it above the floor; confidence can move either way, but takes three     *)
(* observations to reach the bar.                                          *)
Observed(node, o) ==
    {n \in [mastery : Levels, confidence : Confidences, attempts : {node.attempts + 1},
            misconceptions : {node.misconceptions}] :
        /\ n.mastery <= MASTERY_CEILING
        /\ o = "CORRECT" => n.mastery >= node.mastery \/ n.mastery = MASTERY_CEILING
        /\ o # "CORRECT" => n.mastery <= node.mastery \/ n.mastery <= AnalyticFloor
        /\ n.confidence >= CONFIDENCE_THRESHOLD => n.attempts >= PREREQ_MIN_ATTEMPTS}

(* resolve_misconceptions                                                  *)
Resolved(node) == IF IsMastered(node) THEN [node EXCEPT !.misconceptions = "NONE"] ELSE node

Payers == SharedWith(outcome, target, hint)

(* update_skill: a row computed from the mirror and written through.  A    *)
(* re-run of the node computes the same row from the same mirror and grade, *)
(* so a row already in moved is written again.                             *)
SaveSkill(s, candidates) ==
    /\ \/ s \in DOMAIN moved /\ moved' = moved
       \/ /\ s \notin DOMAIN moved
          /\ \E n \in candidates :
                moved' = [x \in DOMAIN moved \cup {s} |-> IF x = s THEN n ELSE moved[x]]
    /\ store' = [store EXCEPT ![s] = moved'[s]]
    /\ foreign' = foreign \ {s}

(* Plausible bug, for mutation: rows computed from the store, so that a    *)
(* re-run applies the same grade on top of itself.                         *)
SaveTargetFromStore ==
    /\ Run("update_mastery") /\ call = "save"
    /\ \E n \in Observed(store[target], outcome) :
          /\ moved' = [x \in {target} |-> Resolved(n)]
          /\ store' = [store EXCEPT ![target] = Resolved(n)]
    /\ foreign' = foreign \ {target}
    /\ call' = "log"
    /\ UNCHANGED <<pc, running, request, status, problem, detour, counters, grade, plan, skills,
                   rows, history, older>>

(* Anything but student evidence is refused: the node raises.              *)
SaveTarget ==
    /\ Run("update_mastery") /\ call = "save"
    /\ outcome \in StudentOutcomes
    /\ SaveSkill(target, {Resolved(n) : n \in Observed(skills[target], outcome)})
    /\ call' = "log"
    /\ UNCHANGED <<pc, running, request, status, problem, detour, counters, grade, plan, skills,
                   rows, history, older>>

(* The exercise row; with nobody to share the failure it is the last call. *)
LogTarget ==
    /\ Run("update_mastery") /\ call = "log"
    /\ rows' = rows + 1
    /\ call' = IF Payers = {} THEN "return" ELSE "save_share"
    /\ UNCHANGED <<pc, running, request, status, problem, detour, counters, grade, plan, skills,
                   store, moved, history, others>>

SaveShare ==
    /\ Run("update_mastery") /\ call = "save_share"
    /\ \E p \in Payers : SaveSkill(p, Observed(skills[p], outcome))
    /\ call' = "log_share"
    /\ UNCHANGED <<pc, running, request, status, problem, detour, counters, grade, plan, skills,
                   rows, history, older>>

(* The share's row names the exercise it came from and is not an attempt.  *)
LogShare ==
    /\ Run("update_mastery") /\ call = "log_share"
    /\ call' = "return"
    /\ UNCHANGED <<pc, running, request, status, problem, detour, counters, grade, plan, records,
                   history, others>>

(* Plausible bug, for mutation: the mirror keeps the shared row as it was. *)
PatchedTargetOnly == [skills EXCEPT ![target] = moved[target]]

(* The mirror with the rows that moved.                                    *)
Patched == [s \in Skills |-> IF s \in DOMAIN moved THEN moved[s] ELSE skills[s]]

(* The patch, applied when the node returns.                               *)
ReturnFromUpdate ==
    /\ Run("update_mastery") /\ call = "return"
    /\ skills' = Patched
    /\ moved' = NoRows
    /\ failures' = IF outcome = "CORRECT" THEN 0 ELSE failures + 1
    /\ topic' = [topic EXCEPT ![target] = @ + 1]
    /\ call' = "save" /\ pc' = "adapt"
    /\ UNCHANGED <<running, request, status, problem, detour, loops, errors, grade, plan, store,
                   rows, history, others>>

-----------------------------------------------------------------------------
(* Replaced sessions.  Their threads go through the same nodes on their    *)
(* own mirrors; what they do short of the store concerns nobody any more,  *)
(* and no request reaches them.                                            *)

Replaced(n, node) == n \in DOMAIN older /\ older[n].pc = node

Leave(n) == older' = [m \in DOMAIN older \ {n} |-> older[m]]

(* A row written by another session than the present one.                  *)
Overwrite(s, node) ==
    /\ store' = [store EXCEPT ![s] = node]
    /\ foreign' = foreign \cup {s}

(* The row update_mastery saves: the one it has computed already, if any.  *)
RowsFor(o, s, candidates) == IF s \in DOMAIN o.moved THEN {o.moved[s]} ELSE candidates

OlderLoads(n) ==
    /\ Replaced(n, "load_student")
    /\ store' = IF store = NoRows THEN FirstRows ELSE store
    /\ Leave(n)
    /\ UNCHANGED <<rows, submissions, foreign>>

OlderGrades(n) ==
    /\ Replaced(n, "execute_and_grade")
    /\ \E o \in StudentOutcomes :
          older' = [older EXCEPT ![n].pc = "analyze_misconception", ![n].outcome = o]
    /\ submissions' = submissions + 1
    /\ UNCHANGED <<store, rows, foreign>>

(* Nothing to diagnose, or nobody who could.                               *)
OlderFindsNothing(n) ==
    /\ Replaced(n, "analyze_misconception")
    /\ older' = [older EXCEPT ![n].pc = "update_mastery",
                              ![n].hint = IF older[n].outcome = "INCORRECT" THEN NoSkill ELSE @]
    /\ UNCHANGED <<store, rows, submissions, foreign>>

OlderAnalyzes(n) ==
    LET s    == older[n].target
        node == Misconceived(older[n].skills[s])
    IN  /\ Replaced(n, "analyze_misconception")
        /\ older[n].outcome = "INCORRECT"
        /\ \E h \in Diagnoses \cup (IF Proposals = {} THEN {} ELSE {NoSkill}) :
              older' = [older EXCEPT ![n].pc = "update_mastery", ![n].hint = h,
                                     ![n].skills[s] = node]
        /\ Overwrite(s, node) \/ UNCHANGED <<store, foreign>>
        /\ UNCHANGED <<rows, submissions>>

OlderSaves(n) ==
    LET o == older[n]
    IN  /\ Replaced(n, "update_mastery") /\ o.call = "save"
        /\ \E row \in RowsFor(o, o.target, {Resolved(r) : r \in Observed(o.skills[o.target],
                                                                        o.outcome)}) :
              Overwrite(o.target, row)
        /\ older' = [older EXCEPT ![n].call = "log"]
        /\ UNCHANGED <<rows, submissions>>

OlderLogs(n) ==
    /\ Replaced(n, "update_mastery") /\ older[n].call = "log"
    /\ rows' = rows + 1
    /\ older' = [older EXCEPT ![n].call = "save_share"]
    /\ UNCHANGED <<store, submissions, foreign>>

OlderSavesShare(n) ==
    LET o == older[n]
    IN  /\ Replaced(n, "update_mastery") /\ o.call = "save_share"
        /\ \E p \in SharedWith(o.outcome, o.target, o.hint) :
              \E row \in RowsFor(o, p, Observed(o.skills[p], o.outcome)) : Overwrite(p, row)
        /\ Leave(n)
        /\ UNCHANGED <<rows, submissions>>

(* It comes to where it writes no more, raises, or dies with its process.  *)
OlderEnds(n) ==
    /\ n \in DOMAIN older
    /\ Leave(n)
    /\ UNCHANGED <<store, rows, submissions, foreign>>

OlderStep(n) ==
    \/ OlderLoads(n) \/ OlderGrades(n) \/ OlderFindsNothing(n) \/ OlderAnalyzes(n)
    \/ OlderSaves(n) \/ OlderLogs(n) \/ OlderSavesShare(n) \/ OlderEnds(n)

RunOlder ==
    /\ \E n \in DOMAIN older : OlderStep(n)
    /\ UNCHANGED <<control, request, status, problem, detour, counters, grade, plan, skills, moved,
                   seeded, starts, breakdowns>>

-----------------------------------------------------------------------------
(* What comes next.                                                        *)

Context ==
    [target |-> target, nodes |-> skills, outcome |-> outcome, failures |-> failures,
     topicAttempts |-> topic[target], loopCount |-> loops, depth |-> depth, stack |-> stack,
     difficulty |-> difficulty, hint |-> detected[target]]

RouteNext(st, act, lps, errs) ==
    IF \/ st # "ACTIVE"
       \/ act = "COMPLETE"
       \/ lps >= MAX_LOOPS
       \/ errs > MAX_ERRORS
    THEN "finalize" ELSE "plan_action"

(* Plausible bug, for mutation: the stack is popped, the counter forgotten. *)
ReturnKeepingDepth ==
    /\ stack' = Front(stack)
    /\ UNCHANGED depth

(* Back to the skill the student came from.                                *)
Return ==
    /\ stack' = Front(stack)
    /\ depth' = IF depth > 0 THEN depth - 1 ELSE 0

Redirect ==
    /\ stack' = Append(stack, target)
    /\ depth' = depth + 1

(* A redirect without a target is accepted on a detour and changes nothing.*)
ApplyDecision(d) ==
    /\ action' = d.action
    /\ IF d.action = "REVISIT_PREREQUISITE" /\ d.target # NoSkill
       THEN /\ IF stack # <<>> /\ d.target = Last(stack) THEN Return ELSE Redirect
            /\ target' = d.target
            /\ failures' = 0
       ELSE /\ failures' = IF d.action \in {"ADVANCE", "ESCALATE_DIFFICULTY"} THEN 0 ELSE failures
            /\ UNCHANGED <<target, detour>>

Adapt ==
    /\ Run("adapt")
    /\ \E proposal \in Proposals \cup {Decide(Context)} :
          ApplyDecision(Validate(proposal, Context))
    /\ GoTo(RouteNext(status, action', loops, errors))
    /\ UNCHANGED <<language, status, problem, loops, topic, errors, grade, difficulty, recommended,
                   records, history, others>>

Recover ==
    /\ Run("recover")
    /\ errors' = errors + 1
    /\ action' = IF errors' > MAX_ERRORS THEN "COMPLETE" ELSE "RETRY_VARIATION"
    /\ status' = IF errors' > MAX_ERRORS THEN "HALTED_ERROR" ELSE status
    /\ GoTo(RouteNext(status', action', loops, errors'))
    /\ UNCHANGED <<request, problem, detour, loops, failures, topic, grade, difficulty, recommended,
                   records, history, others>>

(* next_skills(...)[0], if the session's target unlocked anything.         *)
Finalize ==
    /\ Run("finalize")
    /\ status' = CASE status # "ACTIVE" -> status
                   [] status = "ACTIVE" /\ loops >= MAX_LOOPS -> "HALTED_LIMIT"
                   [] OTHER -> "COMPLETED"
    /\ LET unlocked == NextSkills(skills, target)
       IN  recommended' \in IF unlocked = {} THEN {recommended} ELSE Readiest(skills, unlocked)
    /\ pc' = "end" /\ running' = FALSE /\ UNCHANGED call
    /\ UNCHANGED <<request, problem, detour, counters, grade, action, difficulty, records, history,
                   others>>

-----------------------------------------------------------------------------
(* The specification.                                                      *)

UpdateMastery == SaveTarget \/ LogTarget \/ SaveShare \/ LogShare \/ ReturnFromUpdate

AnalyzeMisconception ==
    AnalyzeNothing \/ AnalyzeByRule \/ AnalyzeByModel \/ AnalyzeFallback

RunNode ==
    \/ LoadStudent \/ Diagnose \/ DiagnoseUnknown \/ PlanAction \/ Retrieve
    \/ GenerateProblem \/ ExecuteAndGrade \/ AnalyzeMisconception \/ UpdateMastery
    \/ Adapt \/ Recover \/ Finalize

Next == RunNode \/ Start \/ SubmitAnswer \/ Breakdown \/ Continue \/ RunOlder

Spec == Init /\ [][Next]_vars

(* An invocation runs on; a student who was asked answers in the end; a    *)
(* page that shows a broken-off turn offers to continue it, and is obeyed. *)
Fairness == WF_vars(RunNode) /\ WF_vars(SubmitAnswer) /\ WF_vars(Continue)

FairSpec == Spec /\ Fairness

-----------------------------------------------------------------------------
(* Correctness.                                                            *)

Calls == {"save", "log", "save_share", "log_share", "return"}

Outcomes == StudentOutcomes \cup SystemFaults \cup {"NONE"}

(* Rows of some of the skills.                                             *)
AreRows(r) == \E S \in SUBSET Skills : r \in [S -> SkillNodes]

(* A thread of a replaced session that has computed the rows of S.         *)
Thread(S) ==
    [pc : StoreNodes, call : Calls, target : Names, outcome : Outcomes, hint : Names,
     skills : [Skills -> SkillNodes] \cup {NoRows}, moved : [S -> SkillNodes]]

(* A replaced session knows its skill and has a mirror of the rows once it *)
(* is past load_student.                                                   *)
OthersOK ==
    /\ older = [n \in DOMAIN older |-> older[n]]
    /\ \A n \in DOMAIN older : \E S \in SUBSET Skills : older[n] \in Thread(S)
    /\ \A n \in DOMAIN older : older[n].pc # "load_student" =>
          older[n].target \in Skills /\ older[n].skills # NoRows /\ store # NoRows
    /\ foreign \subseteq Skills

(* Every variable has the type the code's state declares, and the mirror   *)
(* is there once load_student has run.                                     *)
TypeOK ==
    /\ pc \in Nodes \cup {"idle", "await_student", "end"}
    /\ running \in BOOLEAN
    /\ call \in Calls
    /\ language \in {"PYTHON", "OTHER"}
    /\ status \in {"ACTIVE", "COMPLETED", "HALTED_LIMIT", "HALTED_ERROR"}
    /\ problem \in BOOLEAN
    /\ target \in Names
    /\ pc \notin {"idle", "load_student", "diagnose"} => target \in Skills
    /\ stack \in Seq(Skills)
    /\ depth \in Nat /\ loops \in Nat /\ failures \in Nat /\ errors \in Nat
    /\ topic \in [Skills -> Nat]
    /\ outcome \in Outcomes
    /\ hint \in Names
    /\ detected \in [Skills -> Names]
    /\ action \in AdaptationActions \cup {"NONE"}
    /\ difficulty \in {"EASY", "MEDIUM", "HARD"}
    /\ recommended \in Skills \cup {NoSkill}
    /\ store \in [Skills -> SkillNodes] \cup {NoRows}
    /\ skills \in [Skills -> SkillNodes] \cup {NoRows}
    /\ pc \notin {"idle", "load_student"} => skills # NoRows /\ store # NoRows
    /\ AreRows(moved)
    /\ rows \in Nat /\ submissions \in Nat /\ starts \in Nat /\ breakdowns \in Nat
    /\ seeded \in [Skills -> Nat]
    /\ OthersOK

(* Remediation is bounded: the depth adapt counts is the length of the     *)
(* stack it keeps apart from it, and never exceeds MAX_PREREQ_DEPTH, even  *)
(* though a detour started from a detour may name any skill.               *)
DepthMatchesStack ==
    /\ depth = Len(stack)
    /\ depth <= MAX_PREREQ_DEPTH

(* The ceilings of builder.py hold whatever the model proposes and however *)
(* often nodes are run again: no session poses more than MAX_LOOPS         *)
(* exercises, practises a skill more than MAX_ATTEMPTS_PER_SKILL times, or *)
(* goes on after more than MAX_ERRORS faults.                              *)
SessionCeilings ==
    /\ loops <= MAX_LOOPS
    /\ \A s \in Skills : topic[s] <= MAX_ATTEMPTS_PER_SKILL
    /\ errors <= MAX_ERRORS + 1

(* The mirror the decisions are made from agrees with the durable rows     *)
(* whenever no node that writes them is at work, but for the rows that a   *)
(* replaced session, still running, has written since -- also after such a *)
(* node was broken off and run again, and after a misconception whose      *)
(* write was swallowed, which the next mastery write carries along.        *)
MirrorAgreesWithStore ==
    pc \notin {"load_student", "analyze_misconception", "update_mastery"} /\ skills # NoRows
        => \A s \in Skills \ foreign : store[s] = skills[s]

(* One submission is one observation: however often update_mastery is      *)
(* broken off and continued, or the session replaced half-way and left to  *)
(* finish beside its successor, no record gains more attempts than there   *)
(* were submissions graded.                                                *)
EvidenceCountedOnce ==
    store # NoRows => \A s \in Skills : store[s].attempts <= seeded[s] + submissions

Estimate(node) == <<node.mastery, node.confidence, node.attempts>>

MovedEstimates == {s \in DOMAIN store : Estimate(store'[s]) # Estimate(store[s])}

(* The session whose thread takes a step.                                  *)
Mover ==
    LET moving == {n \in DOMAIN older : n \in DOMAIN older' => older'[n] # older[n]}
    IN  IF moving = {} THEN Present ELSE older[CHOOSE n \in moving : TRUE]

(* A system fault, and a session with nothing graded yet, moves no score:  *)
(* the edge out of execute_and_grade keeps faults away from update_mastery, *)
(* in a replaced session as well.                                          *)
FaultsNeverMoveMastery ==
    [][MovedEstimates # {} => Mover.outcome \notin SystemFaults \cup {"NONE"}]_vars

(* A score moves only for the skill practised in the session that moves    *)
(* it, or for a direct prerequisite of it when the answer was wrong; a     *)
(* hint left over from an earlier failure does not make a correct answer   *)
(* cost anybody anything.                                                  *)
OnlyImplicatedSkillsMove ==
    [][\A s \in MovedEstimates :
          s = Mover.target \/ (Mover.outcome = "INCORRECT" /\ s \in Prereqs[Mover.target])]_vars

(* A pending return is an obligation: a model may not advance or escalate  *)
(* inside a detour, and abandon the skill the student came for.            *)
OwedReturn ==
    [][pc = "adapt" /\ pc' # "adapt" /\ stack # <<>>
          => action' \notin {"ADVANCE", "ESCALATE_DIFFICULTY"}]_vars

(* The first detour rests on evidence: it leads to an unmastered direct    *)
(* prerequisite that was diagnosed, or was measured and found broken after *)
(* at least two failures in a row.                                         *)
RedirectJustified ==
    [][stack = <<>> /\ stack' # <<>> =>
          /\ target' \in Unmastered(skills, target)
          /\ \/ detected[target] = target'
             \/ failures >= 2 /\ HasRedirectEvidence(skills, target')]_vars

(* Under the rule-based policy a detour only ever descends: each skill     *)
(* waited for by the one above it on the stack is its direct prerequisite. *)
StackIsPrereqChain ==
    \A i \in 1 .. Len(stack) :
        IF i = Len(stack) THEN target \in Prereqs[stack[i]]
                          ELSE stack[i + 1] \in Prereqs[stack[i]]

(* What generate_problem says of halting: a session without an exercise    *)
(* costs the student nothing, their mastery is untouched.                  *)
HaltingCostsNothing ==
    [][~problem => MovedEstimates = {}]_vars

(* What decide says of its second rule: returning to the original          *)
(* objective outranks everything but the limits, once the detour is        *)
(* mastered.                                                               *)
MasteredDetourReturns ==
    [][( /\ pc = "adapt" /\ pc' # "adapt"
         /\ stack # <<>> /\ outcome = "CORRECT" /\ IsMastered(skills[target])
         /\ ~LimitsBreached(Context) )
       => target' = Last(stack)]_vars

(* What the architecture document says of an override: with no model to    *)
(* propose anything, what is applied is the rule-based decision.           *)
RuleBasedDecisionApplied ==
    [][pc = "adapt" /\ pc' # "adapt" => action' = Decide(Context).action]_vars

(* What attempts.py says of attempt_log: its exercise rows are exactly the *)
(* submissions that were graded as student evidence.                       *)
OneExerciseRowPerSubmission ==
    rows <= submissions

(* Every session on a skill of the graph comes to an end.                  *)
SessionTerminates ==
    (pc = "load_student" /\ target # Unknown) ~> (pc = "end")

(* Every submission is settled: the student gets another exercise, or the  *)
(* session ends, whatever breaks in between.                               *)
SubmissionSettles ==
    (pc = "execute_and_grade") ~> (pc \in {"await_student", "end"})

=============================================================================

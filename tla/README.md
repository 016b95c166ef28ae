# CogniFlow in TLA+

Specifications of the tutoring engine in `app/`: TLA+ modules, TLC
configurations that check them on small instances, and proofs, checked by
TLAPS, that the main properties hold for every instance.

## 1. The system

CogniFlow tutors one student at a time through a graph of skills with
prerequisites. A *session* is a LangGraph state machine that poses an exercise,
waits for a submission, grades it by running it, updates an estimate of the
student's mastery, and decides what comes next. A language model may propose
the decision; a deterministic guard disposes.

| Part | State it keeps | Operations | Correct when |
|---|---|---|---|
| Tutoring graph (`app/graph`) | one checkpointed `AgentState` per thread: target skill, return stack and depth, counters, last grade, mirror of the skill rows | eleven nodes and an interrupt | detours are bounded and justified, a pending return is kept, sessions end, each submission counts once |
| Policy and guard (`app/mastery/policy.py`, `guard.py`) | none | `decide`, `validate` | no applied decision breaks a rule; the rule-based decision is the fallback |
| Skill graph (`skill_graph.py`, `skills.yaml`) | none | weakest prerequisite, what is unlocked | acyclic; ties broken the same way everywhere |
| Mastery estimation (`bkt.py`, `evidence.py`, `attribution.py`, `misconceptions.py`) | none | `update_skill`, `debits` | only student evidence moves a score; one submission is one observation |
| Student store (`student_store.py`) | `students`, `skill_mastery`, `attempt_log` | one transaction per call | agrees with the mirror; the log counts attempts |
| Session API (`app/api/main.py`) | registry of sessions; per session a lock, a phase, a diagnostic | session, diagnostic, start, submit, continue, reads | one turn at a time; a failed turn can be finished |
| Diagnostic (`diagnostic.py`) | answers, skips, beliefs | next question, record, finish | nothing is asked that is known; never overwrites measured progress |
| LLM client (`app/llm`) | reply cache | `call_structured` | bounded attempts; never raises; fallback reported as such |
| Sandbox and grading (`app/tools/sandbox`) | none | run, classify, suite verdict | our faults are never the student's |
| Token verification (`auth.py`) | key cache | verify | fails closed; refresh is rate-limited |
| Browser (`web/lib`, `page.tsx`) | engine status, turn phase | probe, poll, submit, continue | a stale probe changes nothing; an unfinished turn is never submitted twice |
| Retrieval (`app/rag`), exercise ladder, views, demo, evaluation | data or derived | | not about state |

They interact as follows. The browser calls the API. `POST /start` and
`POST /submit` invoke the graph; with `phased` submissions the request returns
after grading and a thread finishes the turn, holding the session's lock.
`POST /continue` resumes a turn that broke off. Inside the graph, nodes read
the *mirror* (`skill_graph` in the state) and write through to the store; the
mirror is patched only when a node returns. Everything hard in this system
comes from that shape: a node that has committed some of its writes and then
fails, a turn that is run again, a second `/start` on the same thread, a model
that proposes anything, and two registry entries for one student.
`PROJECT.json` lists each hazard at its line.

## 2. The modules

    Policy <- Guard <- TutorGraph <- MCTutorGraph                  (TLC)
    Policy <- PolicyProofs        <- TutorGraphProofs              (TLAPS)

    Session <- TutorPage <- MCTutorPage                            (TLC)
    Turn    <-'          <- SessionProofs <- PageProofs            (TLAPS)

    Grading <- Evidence <- Exercise <- MCExercise                  (TLC)
    LLMClient           <-'         <- ExerciseProofs              (TLAPS)

    Policy <- Diagnostic <- DiagnosticPage <- MCDiagnosticPage     (TLC)
    Policy <- PolicyProofs                 <- DiagnosticProofs     (TLAPS)

    Engine  <- Arrival <- MCArrival                                (TLC)
    Account <-'        <- ArrivalProofs                            (TLAPS)
    Engine  <- EngineProofs <-'

An arrow is `EXTENDS`, except that `TutorPage` instantiates `Turn`, the
abstract specification it implements. There are five compositions, one for each
place where components that run concurrently meet: the graph with the store
(`TutorGraph`), the page with the sessions (`TutorPage`), authoring with grading
(`Exercise`), the page with the diagnostic endpoints (`DiagnosticPage`), and the
page with the engine and the account service (`Arrival`). Between them a
component appears at the grain its own hazards need: in `TutorPage` a node of
the graph is one step that may raise, in `TutorGraph` it is the calls it makes.

### 2.1 The policy, the guard and the tutoring graph

**`Policy`** holds the pure operators of `policy.py`, `skill_graph.py` and
`attribution.py`: thresholds, `IsMastered`, `WeakestPrerequisite`, `SharedWith`
(`debits`), `HasRedirectEvidence`, `Suspect` and `Decide`, which takes a context
record as `decide` takes a `PolicyContext`. Percentages stand for fractions, so
that the thresholds are exact. The skill graph is a constant with the assumption
that it is acyclic, stated by a topological rank.

**`Guard`** is `guard.py`. Each of the nine rules keeps the name the code
reports; `ViolatedRules` is their union; `Validate` is `validate(...).final`,
with `_safe_complete` as the last resort.

**`TutorGraph`** is the graph and the requests that drive it.

| Action | Code |
|---|---|
| `Start` | `POST /start`, perhaps after a new `POST /session`: `initial_state` overwrites every channel but `recommended_next_skill`, which a new session forgets. A session that still runs is replaced, not stopped (`LeaveRunning`) |
| `LoadStudent`, `Diagnose`, `DiagnoseUnknown`, `PlanAction`, `Retrieve`, `GenerateProblem` | the nodes up to the interrupt; an unknown skill raises in `diagnose` |
| `SubmitAnswer` | `POST /submit`, accepted at the interrupt only |
| `ExecuteAndGrade` | the grade, and the edge by `route_evidence` |
| `AnalyzeNothing`, `AnalyzeByRule`, `AnalyzeByModel`, `AnalyzeFallback` | the four ways through `analyze_misconception`; only a deterministic pattern sets the hint that moves a score |
| `SaveTarget`, `LogTarget`, `SaveShare`, `LogShare`, `ReturnFromUpdate` | the store calls of `update_mastery`, which commit one by one, and its patch |
| `Adapt` | `decide`, a proposal, `validate`, the stack and the depth, `route_next` |
| `Recover`, `Finalize` | the fault path and the end |
| `Breakdown` | a node raises, or the worker cannot be started: what it committed stays (`LeaveBehind`), its patch is lost, the checkpoint still names it |
| `Continue` | `POST /continue`: the node runs again from its start |
| `RunOlder`: `OlderLoads`, `OlderGrades`, `OlderFindsNothing`, `OlderAnalyzes`, `OlderSaves`, `OlderLogs`, `OlderSavesShare`, `OlderEnds` | what the thread of a replaced session still does to the rows, node by node and store call by store call, on its own mirror |

`pc` is the checkpoint's next node, `running` whether an invocation is in
progress, `call` the store call `update_mastery` makes next. `skills` is the
mirror and `store` the rows. `moved` is what `update_mastery` computes from
mirror and grade: a re-run computes the same rows again, so it survives a
breakdown. `rows` counts the exercise rows of `attempt_log`. `submissions`,
`seeded`, `starts` and `breakdowns` are history.

*Two sessions of one student.* `POST /session` puts a new graph with a new lock in
the registry and stops nothing (`main.py:597-616`), so a thread of the old graph
may be anywhere in a turn while the new one loads its mirror. `older` holds, for
every such thread, what it still needs to reach the store: its node and call, its
target, grade and hint, its mirror and the rows it has computed. A thread past its
last store call is dropped, since nothing it does from there is seen by anybody. No
request reaches a replaced session, and no fairness is assumed of it: it may end
anywhere, as a daemon thread does. `foreign` is history: the rows such a thread has
written since the present session last read or wrote them. Looking a session up and
taking its lock are one step, and so are the read of the rows and their first
seeding in `load_student`.

*What is abstracted.* A mastery or confidence is a representative value; an
observation may leave any record with one more attempt, whose mastery did not
move the wrong way -- but for the ceiling of 0.99 and for the drift of a very low
estimate up to the floor of 0.096, which `bkt.py` allows after a failure
(`MASTERY_CEILING`, `AnalyticFloor`) -- and whose confidence reaches the bar only
from the third observation on (the direction, count and budget of `update_skill`;
not its floating-point arithmetic). A grade is correct, incorrect or a fault. An
exercise is there or not. Retrieved material, teaching mode, difficulty texts
and wording are left out; the edge that skips retrieval may be taken or not.
Blank submissions, which the API refuses, are left out. Misconceptions on a row
are none or some. A proposal is any well-typed decision, including unknown and
absent targets.

### 2.2 The sessions and the page that polls them

**`Session`** is the tutoring part of `app/api/main.py`: request handlers in the
server's thread pool, the `Session` objects, and the worker a graded turn is
handed to together with the lock. A session keeps its lock, its phase, the node
its graph stands at and the exercise in hand; a job is what a thread does next.

| Action | Code |
|---|---|
| `OpenSession`, `MissingSession` | `POST /session` replaces the registry's entry; 404 |
| `Busy`, `BeginTutoring`, `Submit`, `SubmitNothingAwaited`, `ContinueTurn`, `ContinueNothing` | `lock.acquire(blocking=False)` and what is read under it |
| `CurrentReadsGraph`, `CurrentReadsPhase` | `GET /session`: `_view` without the lock, in two reads |
| `PoseNode`, `GradeNode`, `RecordNode`, `AdaptNode`, `HandlerRaises`, `WorkerRaises`, `StartDone` | one invocation of the graph, by the thread that holds the lock |
| `HandOver`, `HandOverFails`, `WorkerDone`, `WorkerReleases` | `_start_finish_worker` and `_finish_turn`: phase, thread, terminal phase, release |
| `Restart` | the process ends: sessions and threads are gone, rows stay |

Only the holder of the lock moves a graph, so taking the lock and reading under
it are one step. `Restart` keeps the numbering of the session objects and empties
them; the registry forgets them.

**`TutorPage`** is `web/app/page.tsx` in front of it: `flow` is the request a flow
awaits, `turn` holds the local variables of `pollTurn` (`canContinueFailure`,
whether the deadline has passed) and the control to fall back to. `Send` takes the
answer in hand and sends the next request; `PollTurn` is the loop body of
`pollTurn`, `Started`, `Submitted`, `Polled`, `Continued`, `Recovered` the
continuations, `ResumeTurn` both recovery buttons, `Reload` and `LoseAnswer` the
ways in which the page forgets a request the server goes on with.

**`Turn`** is what the API promises of an exercise: put once, answered at most
once, graded, recorded at most once, and given up only before it is recorded.
The refinement mapping reads the stage of exercise `x` off the sessions
(`StageOf`): recorded if the plan was updated from it, else where the session that
holds it stands, else dropped.

### 2.3 Authoring and grading

**`LLMClient`** is `call_structured`: the replay cache, `MAX_RETRIES + 1` attempts
per provider, one repair, permanent failures, the next provider, the fallback.
**`Grading`** is one run as `subprocess_sandbox.py` or `docker_sandbox.py` reports
it (`Execution`, `DockerExecution`), its classification (`classifier.py`), and the
two different ways in which `nodes.py` (`Expectation`) and `runner.py`
(`RunnerExpectation`) look for what a test case expects. **`Evidence`** is what a
graded submission is worth: `IsObservation` is what `Observation` lets pass, and
`PATTERNS` and `Detect` are the misconception patterns in the order in which they
are tried, first by what the interpreter said, then by the outcome.

**`Exercise`** composes them as `generate_problem`, `execute_and_grade` and
`analyze_misconception` do: `Generate`, `NextDraft`, `Serve` and `Halt` are the
loop over drafts, `ExecuteCase` and `ExecuteWhole` the suite with its first
failure, `Grade` its verdict, its score and the number of distinct expectations,
`AnalyzeMisconception` the pattern recognised, `GoOn` the way to the next
exercise, on this rung or another. A draft is a record of the shape the grader
tells apart, not a text, and the key of an exercise tells where it came from;
`DraftAssumption` says that a draft is never one of the ladder's own texts word
for word. What a program shows (`Signs`) is chosen, not computed from its text.

### 2.4 The skill check

**`Diagnostic`** is `services/diagnostic.py` with `POST /session` and the two
diagnostic endpoints, which take no lock: each action is what a handler does
between two moments at which another handler may matter (a store call, a run in
the sandbox). `NextQuestion` is `next_question` with the skips it makes on the
way, `FailedPrerequisite` its walk up the prerequisites, `Record` and `Profile`
what `record` and `finish` compute, `TargetSkill` the headline and
`WeakestStartable` the plan's own suggestion. Beliefs are computed in percent from
the answers, with the code's four parameters, so that ties and thresholds are the
code's. **`DiagnosticPage`** is the page: it opens a session, asks, answers, opens
the session again once when it is missing, and shows the plan in the end.

### 2.5 Arrival

**`Engine`** is `useEngineStatus`: one action per callback of the event loop
(probe ends, timers, visibility, retry button, `reportUnreachable`, mounting).
Timers that pace probes fire at any time; the wake window is counted in visible
time. **`Account`** is the token half of `web/lib/api.ts` (`getJwt`, `loadJwt`,
the one retry with a forced refresh, `sendToSignIn`) and the key cache of
`services/auth.py` (`KeyFor` is `_key_for` with its rate limit). A token is minted
when its route answers (`TokenRoute`, `SessionRoute`) and ages while the answer is
under way (`minted`); `TokenLoaded` caches it when it arrives, so that the load a
request left behind may put an older token, of an older key, over a newer one. The
account service, which is not in `src/`, appears as its token and key endpoints,
marked external; one thing is assumed of it, that a key is not withdrawn while a
request signed with it may be on its way (`WithdrawKey`). **`Arrival`** composes
both with `startupDecision` and the effects of `page.tsx` that act on it; what the
effect of the stage "resuming" remembers is forgotten on the welcome, since
nothing reads it there and only a new load leads back (`ToWelcome`).

## 3. The runs

### 3.1 The tutoring graph

`MCTutorGraph` instantiates chains of two, three or four skills of
`skills.yaml`.

| Run | Question | Bounds |
|---|---|---|
| `tutor_proposals` | May a live model break the learning path? | two skills, every decision as a proposal, 4 exercises, 3 attempts per skill, depth 2, 1 fault |
| `tutor_recovery` | Is a score moved once, for the right skill, whatever breaks and whoever else writes? | two skills, two mastery levels, one breakdown, two starts, the second of which may overtake the first, 2 exercises |
| `tutor_offline` | Does the policy alone finish what it starts? | three skills, 5 exercises, one breakdown, fairness |
| `halt_costs`, `detour_return`, `rule_override`, `log_once` | one statement of the source each, refuted | as small as the case allows; `detour_return` uses the limits of the code; `rule_override` starts, over the API, a skill whose prerequisite was never measured |

The bounds suffice for the cases that matter: two skills give a target and a
prerequisite, so redirect, return, nested redirect (a model may name the target's
dependent from inside a detour) and a shared failure all occur; depth 2 puts the
depth limit below the number of exercises; two mastery levels, one below and one
above every threshold, let a score move and not move, which is all that
`tutor_recovery` asks of it, and `rule_override`, `halt_costs` and `log_once` have
levels between the thresholds 45, 60 and 80 too; one breakdown meets every store
call, and a second start meets the old session at every one of them, 8,018,900
states; three skills are the shortest chain with a detour inside a detour that the
policy itself takes. A student starts either without rows, or with rows that put
the next observation at the evidence threshold. No run uses symmetry: the chain
distinguishes its skills.

*Properties.* `DepthMatchesStack` and `SessionCeilings` bound the session;
`OwedReturn` and `RedirectJustified` are the guard's promises seen from the state
changes, not from the rules; `MirrorAgreesWithStore`, `EvidenceCountedOnce`,
`FaultsNeverMoveMastery` and `OnlyImplicatedSkillsMove` are about mastery under
breakdowns, restarts and replaced sessions -- the mirror in every row that no
other session has overwritten (`foreign`), the scores by what the session that
moves them knows (`Mover`); `StackIsPrereqChain` holds only without a model, since
inside a detour the guard lets a model name any known skill; `SessionTerminates`
and `SubmissionSettles` are liveness. Each property has a mutant, a definition
placed before the one it replaces and marked *Plausible bug, for mutation*.

*Fairness.* `RunNode`: an invocation in progress runs to its end. `SubmitAnswer`:
a student who was asked answers in the end, an assumption about the environment
without which no session ends. `Continue`: `page.tsx` shows a broken-off turn
with a way to continue it and continues an updating one by itself; it is assumed
to be used. No fairness is assumed of `Start` and `Breakdown`. The bound on
breakdowns makes them finitely many; with endlessly many no turn could settle.

### 3.2 The sessions (`session`)

Two handlers, two workers, two sessions, two exercises, any two troubles;
181,723 states. Two handlers are what it takes for an answer the page gave up on
to be computed beside its next request; two sessions and two workers let the
registry's entry be replaced while a worker still runs on the old one; a second
exercise is what a late submission can be graded against by mistake; two
troubles allow a failure during the recovery from a failure. `OneRunner` and
`WorkIsAnnounced` are about the lock and the phase across the hand-over;
`UnfinishedIsReported` and `SavedIsTrue` about what the page is told of a graded
answer, `GradedAsShown` about which exercise an answer is graded against;
`ImplementsTurn` is the refinement; `TurnEnds`, `LocksAreReleased` and
`AnswerSettles` are liveness.

*Exemptions, each a behaviour of the code (section 4).* `GradedAsShown` speaks of
a page that never gave up on a request (`abandoned`); `SavedIsTrue` of one that
did not and of a server that still has the session; `UnfinishedIsReported` and
`AnswerSettles` leave out a session whose worker could not be started
(`stranded`).

*Fairness.* Threads are scheduled (`HandlerStep`, `WorkerStep`, each with its
node's time limits behind it), the page handles answers that have come (`Page`)
and its deadline timer fires (`Deadline`). The learner need not do anything.

### 3.3 Authoring and grading (`exercise`)

No provider or two, with and without a replay cache, `MAX_RETRIES` as in the code,
drafts of five shapes (two expectations, the problem's own beside a field of white
space, one hidden behind an empty field, cases that say nothing, no cases; two of
them put the same question), two outputs, both sandboxes, three sets of signatures
a program may show, rungs of zero, one or two authored tasks, three exercises;
1,378,976 states. Two providers show a failover and an exhausted chain; three
exercises on a rung of two tasks force a repeat; the signatures include one the
interpreter's words reveal beside one only the program does, and one no outcome
leads to. `AsksWithinBudget` holds of every mixture of failures;
`FallbackIsDeclared` and `NoIdleRepeat` relate what is shown to where it came
from; `FaultsAreNotEvidence` and `VerdictIsEarned` relate the verdict, the
observation made of it and the pattern named to the runs behind them, except for a
problem with a hidden expectation (section 4). *Fairness:* a provider and the
sandbox answer or time out (`Busy`), both being bounded in the code; the learner
need not submit.

### 3.4 The skill check (`diagnostic`, `fault_recorded`)

Four skills of `skills.yaml`, a diamond: the smallest part in which a skill has
two prerequisites that share one, so that a skip can be inherited along two paths
and names compete. Two handlers, two troubles; 627,955 states. `AskedWhenReady`,
`SkipsAreEarned` and `HeadlineAgrees` are about what is asked, skipped and
concluded; `PlanHasItsRows` about the three writes that end the check, any of
which may fail; `CheckEnds` is liveness. The two invariants about conclusions are
stated for diagnostics in which no question was answered twice, which two
concurrent requests can do (section 4). *Fairness:* the server works on, the page
reacts, the learner presses start and answers; a learner who keeps being told of
an error loads the page again (strong fairness, since the error comes and goes).
`fault_recorded` is the same page with no troubles but the sandbox's.

### 3.5 Arrival (`arrival`)

A wake window of 2, tokens that live for 3 units with a refresh window of 1 and no
leeway, a key cache of 2 and a refresh limit of 1, two keys, two token loads, two
troubles; 1,550,626 states. The numbers keep the order of the code's: a refresh
limit below the cache's life, a refresh window below the token's life; a window of
2 is paused half-way by a hidden tab; a token outlives the cache, so that a
withdrawn key meets a token signed with it; two loads let one that was given up on
finish after the next, and cache the older token. A leeway above 0 is left to the
proofs (5.3). *Fairness:* callbacks, timers and promises of the browser, a server
that is up answers, time passes, the student signs in where asked and presses the
button. Nothing makes a service recover or the student look at the page:
`StudentArrives` is conditional on everything being well from some time on.
`KeysAreCurrent` and `SignInIsNeeded` are action properties of the verifier under
outages and rotation; `SignInIsNeeded` allows the one way in which the code does
send a signed-in student away, a key it could not get.

`CHECK_DEADLOCK FALSE` is set everywhere: a finished session, a page at rest with
its bounds used up, and a student who has arrived all stop. The bounds on
exercises, sessions, keys and troubles are guards of the actions they bound; the
bound on sessions is reserved before a request is sent, so that no request in
flight is blocked by it.

## 4. What the runs found

- **A halted session takes a submission** (`halt_costs`). `generate_problem`
  halts when it cannot author an exercise and says this costs the student
  nothing; its only edge leads to `await_student`, the submission is graded by
  whether it runs at all, and mastery moves.
- **A detour at the depth limit cannot return** (`detour_return`).
  `prereq_depth_exceeded` does not tell a redirect from a return. Mastering the
  third nested prerequisite ends the session.
- **The guard overrides the policy's own decision by ending the session**
  (`rule_override`). Two failures with an unmastered but unmeasured prerequisite
  make `decide` step down the difficulty, which
  `repeated_failure_needs_investigation` rejects from `decide` as well. The run
  reaches it on a skill that a client names to `/start` before its prerequisite was
  measured: one correct answer, then two failures.
- **A continued turn can log its exercise twice** (`log_once`), against the
  definition of an attempt in `services/attempts.py`. The score itself is
  counted once: `EvidenceCountedOnce` holds, and is proved.
- **An answer of the skill check that could not be run counts as wrong**
  (`fault_recorded`). `diagnostic_answer` takes every suite that did not pass for
  a wrong answer, a refused or failed sandbox included, and the belief it lowers
  can skip every skill that builds on it.

The following are not stated otherwise by the repository, so they are no
findings; the properties exempt them where they must.

- A replaced session's update can be overwritten. A session opened while another of
  the same student is in `update_mastery` loads its mirror before the other's write
  and later writes its own row over it, with an attempt less. `student_store.py:3-4`
  speaks of crashes, killed processes and closed laptops, not of two sessions;
  `MirrorAgreesWithStore` leaves out the rows so written, and `EvidenceCountedOnce`
  shows that nothing is counted twice.
- After the page gives up on a request, a submission can be graded against an
  exercise posed since: `/submit` names no exercise.
- A worker thread that does not start leaves the phase at "updating" for good:
  the page polls to its deadline, and "Check again" finds the same.
- A graph that raises while grading leaves the session at a node where a further
  submission is refused, until `/start`; which in turn discards an answer already
  graded and not yet recorded.
- "Your answer was saved" is not true of a session the process has lost.
- A problem whose only test cases are blank, and with no expected output, is
  graded by whether the program ends. An expectation under a second name, behind
  an empty first one, is kept by `nodes.py` and skipped by `runner.py`: every
  answer is then wrong. Such an expectation is also counted among the distinct
  ones that price a guess (`nodes.py:789-802`).
- The pattern `off_by_one_recursion` (`misconceptions.py:424-440`) looks at the
  program, but names no outcome, and `detect` looks at programs only for patterns
  of the outcome in hand: it is never found.
- With the container backend every submission that is not Python is a sandbox
  failure, since `run_submission` knows no other backend that takes a language
  (`runner.py:101-111`).
- Two answers to one question of the skill check are both recorded, and can turn
  a foundation others were asked upon; of two requests that finish the check at
  once, one can find the diagnostic gone and fail.
- While the key endpoint is down an engine without keys sends signed-in students
  to the sign-in page; a failed refresh for an unknown key bars the next one for
  the length of the limit. An account session that cannot be read counts as none.
- A read that times out is not reported to the engine's status.

## 5. What is proved

For every value of the constants, from the named assumptions on them alone.

### 5.1 The tutoring graph

`TutorGraphProofs` proves the following of `Spec`, for every finite acyclic
skill graph, every limit, every set of proposals and diagnoses, and any number
of breakdowns, starts and replaced sessions, from the named assumptions of `Policy` and
`TutorGraph` alone.

| Theorem | Property | Argument |
|---|---|---|
| `TypeCorrect` | `TypeOK` | inductive; the target stays a known skill because `Validate` yields one (`ValidateType`) |
| `RemediationBounded` | `DepthMatchesStack` | inductive with `TypeOK`; no redirect is applied at the limit (`RedirectBelowLimit`) |
| `CeilingsHold` | `SessionCeilings` | `CeilingInv` |
| `MirrorFaithful` | `MirrorAgreesWithStore` | `MirrorInv`, for the rows no replaced session has written since |
| `CountedOnce` | `EvidenceCountedOnce` | `EvidenceInv`, with `OthersInv` for the replaced sessions |
| `ReturnIsOwed` | `OwedReturn` | `NoLeavingDetour` |
| `DetoursJustified` | `RedirectJustified` | `RedirectSound` |
| `FaultsHarmless`, `OnlyImplicatedPay` | `FaultsNeverMoveMastery`, `OnlyImplicatedSkillsMove` | `WhoseScoreMoves`, from `EvidenceInv` (`PresentScoreMoves`, `OlderScoreMoves`) |
| `DetoursDescend`, if `Proposals = {}` | `StackIsPrereqChain` | `ChainInv` |

The ceilings are not inductive: that `loops <= MAX_LOOPS` survives `plan_action`
needs that `route_next` never sends a session there at the limit, and likewise
for attempts and faults. `CeilingInv` adds, per counter, where the program may be
when it is at its limit.

The mirror is not equal to the store while a node writes. `MirrorInv` says what
holds meanwhile: in `update_mastery`, the rows already written (`Written`, read
off the next call) hold what was computed, and the others are still the mirror's;
in `analyze_misconception`, the two differ at most by a misconception on the
target. When the node returns, patching the mirror makes it equal. All of it is said
of `Skills \ foreign`: a replaced session takes exactly the rows it writes out of the
statement, and loading or saving a row puts it back. Without the exception the claim
is false (section 4).

That a submission counts once needs the mirror too: computing a row from the
mirror adds one attempt to a count that is one behind the submissions, however
often it is computed (`EvidenceInv`). Every replaced session carries the same
evidence on its own mirror (`ThreadEvidence`, `OthersInv`), so that a row it writes
late may lose an attempt but never adds one too many. Who moves a score is read off
the session that does (`PresentScoreMoves`, `OlderScoreMoves`).

`DetoursDescend` alone has a hypothesis: that no model proposes anything. It is the
property's own condition, not the proof's. Inside a detour the guard lets a model
name any known skill (section 3.1), and the run `tutor_offline`, which checks the
property, has no proposals either. `ChainInv` adds that a session that has not chosen
its skill is on no detour; what `decide` names is then a prerequisite of the target
or the top of the stack (`DecideDescends`), the former because among the unmastered
prerequisites there is a weakest one (`WeakestIsUnmastered`).

### 5.2 The sessions

`SessionProofs` proves of `TutorPage`'s `Spec`, for any number of handlers,
workers, sessions, exercises and troubles:

| Theorem | Property |
|---|---|
| `SessionInvariant` | the state is well typed and threads, locks and graphs fit |
| `SessionsHaveOneRunner` | `OneRunner` |
| `SessionWorkIsAnnounced` | `WorkIsAnnounced` |
| `SessionUnfinishedIsReported` | `UnfinishedIsReported` |

None of the three is inductive. `SessionInv` says of every thread what it relies on
(`Fits`): the lock is its own while it runs, hands over or releases; a handler's
graph stands at a node of its request; a worker's session says "updating" while it
runs, and once it has published, an unfinished turn says "failed". A session whose
lock is free is then reported (`Reported`). A step of one thread touches only a
session whose lock is free or its own (`SessionStep`), so every other thread's
`Fits` survives; the page's steps touch no session (`PageStepKeeps`).

It also proves the refinement:

| Theorem | Property |
|---|---|
| `SessionsImplementTurn` | `ImplementsTurn`, that is, `Spec => T!Spec` |

Every step is first shown to be one of eight kinds (`NextMoves`): nothing moves,
one session moves in one of six ways, or all are dropped. `Ledger` is the
strengthening: an exercise is held by at most one session, a session at work on an
answer holds an exercise not yet recorded, every other one none or a recorded one.
It is what makes the `CHOOSE` in `StageOf` unique (`Stages`, `Holders`), and from
it each kind of step is a step of `Turn` or none (`StepImplements`).

`PageProofs` adds the page, for the same constants:

| Theorem | Property |
|---|---|
| `PageTypes` | `PageTypeOK` |
| `SavedHolds` | `SavedIsTrue` |
| `SubmissionsGradedAsShown` | `GradedAsShown` |

`PageTypes` needs a count: the exercises posed, the sessions about to pose one and
the requests on their way that will make a session do so stay together within the
bound (`Counted`). The other two need to know how far the page can be behind the
session it talks to (`InStep`): a page that never gave up on a request is the only
one that has a request with the server (`Alone`), and then (`Near`) what the page
shows is the exercise that is awaited or an answer is coming that will replace it
(`Fresh`), what an answer on its way says is still so (`TellsExercise`,
`TellsPhase`, `TellsStatus`), a submission on its way is for the exercise shown
(`Submits`), and a page that polls does so for an answer that is graded (`Saved`).
The case that needs most care is a submission the session refuses as busy: the page
polls, and is told that the turn before it is over. `SavedHolds` says no more than
its property: the answer the message speaks of is graded, if not yet recorded, while
the server still has the session and the page has given no request up; after a
restart, or behind an abandoned request, the message may be untrue (section 4).

### 5.3 Arrival

| Theorem | Property |
|---|---|
| `HookTypeCorrect`, `HookNeverStranded`, `HookOfflineIsEarned` (`EngineProofs`) | of the hook alone, under any engine, tab and request |
| `ArrivalKeepsTheHook`, `ArrivalNeverStranded`, `ArrivalOfflineIsEarned` (`ArrivalProofs`) | the same in the composition |
| `ArrivalKeysAreCurrent` | `KeysAreCurrent` |
| `ArrivalSignInIsNeeded` | `SignInIsNeeded` |

`EngineInv` adds to the two properties that the counted times agree (`TimesAgree`:
what is left of the deadline, what was watched and the window add up) and which
probe can be in flight in which state (`ProbesFit`). The composition does nothing
to the hook but call its actions. For the keys, `KeysInv` bounds the age of a
withdrawn key by the age of the copy that holds it, and `RequestInv` says that a
request that is sent again carries a token made for it: of a key that is still
published, and no older than the request. While it waits, its load has no other
token under way; one that arrives late from an earlier load replaces the cached
token, not the request's.

### 5.4 Authoring and grading

`ExerciseProofs` proves of `Exercise`'s `Spec`, for every chain of providers, cache,
number of retries, set of drafts, rungs, sandboxes and signatures:

| Theorem | Property | Argument |
|---|---|---|
| `AsksWithinBudgetAlways` | `AsksWithinBudget` | `BudgetInv` |
| `FallbackIsDeclaredAlways` | `FallbackIsDeclared` | `ValueInv` |
| `NoIdleRepeatAlways` | `NoIdleRepeat` | `DraftsInv` |
| `VerdictIsEarnedAlways`, `FaultsAreNotEvidenceAlways`, `ExerciseTypeOKAlways` | `VerdictIsEarned`, `FaultsAreNotEvidence`, `ExerciseTypeOK` | `GradingInv` |

The budget is a statement about the requests made; the code counts attempts and
remembers that it repaired. `AskInv` ties the two: of the provider in turn, the
attempts are its requests, and it was repaired exactly when it once answered amiss.
For repeats, `DraftsInv` says that without a provider every task that an earlier
draft offered had been served before. For verdicts, `RunsInv` says that only the
last run of a suite may not have been started, and is then the failure reported;
`SuiteInv` that the runs are the cases that can decide, in their order, none left
out. The cases are sets of positions, so that "all were compared" is a statement
about what is left to run (`ToRun`); cardinalities compare the number passed with
the number run.

### 5.5 The skill check

`DiagnosticProofs` proves of `DiagnosticPage`'s `Spec`, for every finite acyclic
skill graph and any finite number of handlers, sessions and troubles:

| Theorem | Property | Argument |
|---|---|---|
| `PlanRows` | `PlanHasItsRows` | `CheckInv` |
| `SkipsEarned` | `SkipsAreEarned` | `DiagnosticSound`, part of `CheckInv` |
| `AskedReady` | `AskedWhenReady` | `CheckStands`, `FoundationsPassed` |
| `DiagnosticTypes` | `DiagnosticTypeOK` | `RoomInv` |
| `HeadlineStands` | `HeadlineAgrees` | `ProfilesInv` |

`CheckInv` says of the store that a student marked as checked has all rows
(`StoreInv`); of a handler that what it found done or did stays done
(`DoneIsDone`), that a check it finishes has nothing left to ask and that an answer
on its way is to a question that may be asked (`CheckStands`); and of every
diagnostic, whoever works on it, that what is skipped has a failed skill under it
and what is asked had everything under it passed (`DiagnosticSound`), while no
question has been answered twice. `RoomInv` counts: the answers recorded to a
question and those on their way are at most as many as there are handlers, which is
what bounds a row. `ProfilesInv` says of the beliefs to be saved that a skill not
asked has a failed ancestor and an asked one only passed ones; of what can be
started, all was therefore asked, so the lowest belief among the measured is the
lowest among all, and the headline, which looks at the first, names what the plan,
which looks at the second, suggests.

Ancestors, the rank by depth and the walk to a failed prerequisite are functions
that call themselves on prerequisites. That such a function exists on every acyclic
graph is `RankRecursion` of `PolicyProofs`, proved from the rank the graph is
assumed to have: the set of ranks at which it would fail has a least element. The
same module has what sorting needs: every finite set of skills has one that is
lowest in a measure, the names breaking ties (`HasLowest`), and what fails of some
skill fails of one whose prerequisites it holds of (`HasFoundation`). The beliefs
are folds over answers; in the cases where the property speaks a question has one
answer at most, and the folds are computed for those.

### 5.6 Only model-checked

Liveness, since the prover has no `ENABLED`: `SessionTerminates`,
`SubmissionSettles`, `TurnEnds`, `LocksAreReleased`, `AnswerSettles`,
`ExerciseSettles`, `CheckEnds` and `StudentArrives`. Every other property of a
passing run is stated by a theorem above. The five refutations (section 4) are
TLC's. Not proved either is what a fold over several answers computes, an induction
over data; the theorems about the skill check do not need it.

## 6. Not modelled

- Of the session API: the unphased submission, whose turn ends inside the
  request; hints, which change no state the graph reads; `reset_mastery`; the
  read-only plan, dashboard and health routes.
- Of the page: navigation between its tabs, settings and drafts of code.
- Of the graph: the texts of exercises and misconceptions, retrieval, whose
  failure becomes an empty result, and the choice of a rung of the ladder, of which
  only the number of authored tasks is kept. Which signatures a program shows is
  not computed from its text.
- The Bayesian arithmetic beyond the skill check: an observation is one of the
  records it may leave (section 2.1).
- The provider adapters, the container daemon and the operating system: modelled by
  the outcomes their callers tell apart. Limits on output, memory and processes,
  and the list of what is refused before it runs, are left out.
- Of replaced sessions, what does not reach the store: their exercises, their
  decisions and their answers, which no request asks for. In `TutorPage` they are
  sessions like any other, without the rows.
- Demo and evaluation, which drive the same graph with scripted students, and the
  account pages.

Abstractions worth naming: the list of content keys an exercise may not repeat is
longer in the code (20) than any run serves, so it is never cut; the application
passes the LLM client no cache, the replay cache is the evaluation's; leaving a
page is immediate; the signature, the issuer and the subject of a token are taken
as right.

Next: `reset_mastery` under a live session; the unphased submission in `Session`;
the skill check beside a tutoring session of the same student; the totality of the
policy as a theorem.

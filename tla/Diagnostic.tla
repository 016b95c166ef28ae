----------------------------- MODULE Diagnostic -----------------------------
(***************************************************************************)
(* The quick check of a new student: app/services/diagnostic.py, and its   *)
(* two endpoints and POST /session in app/api/main.py with the store calls *)
(* they make.  The endpoints take no lock: handlers run side by side, and  *)
(* a step here is what a handler does between two moments at which another *)
(* handler may matter.  The diagnostic lives in the session, in memory;    *)
(* the skill rows and the mark that the check is over are durable.         *)
(*                                                                         *)
(* The student is new and practises nothing yet, so attempt_log is empty.  *)
(***************************************************************************)
EXTENDS Policy

CONSTANTS
    Handlers,        \* threads that serve requests
    NoRow,           \* a skill has no row in skill_mastery
    MaxTroubles      \* bound on what goes wrong: store calls that raise, restarts,
                     \* answers that are lost, pages loaded again

ASSUME DiagnosticAssumption ==
    NoRow \notin Seq(StudentOutcomes) /\ IsFiniteSet(Handlers) /\ MaxTroubles \in Nat

VARIABLES
    jobs,          \* what each handler is doing
    sessions,      \* the Session objects somebody holds
    registry,      \* SESSIONS[student_id]: the current one, 0 for none
    exists,        \* the row of students
    diagnosed,     \* its diagnosed_at is set
    rows,          \* skill_mastery: the answers each estimate was made from
    troubles

storeVars  == <<exists, diagnosed, rows>>
serverVars == <<jobs, sessions, registry, storeVars, troubles>>

-----------------------------------------------------------------------------
(* The diagnostic of a session.                                            *)

(* answers[s]: the outcomes recorded for s; answered[s] is the last one,   *)
(* the belief about s is made from all.  skipped[s] is the failed          *)
(* prerequisite that made asking pointless.                                *)
NewDiagnostic == [answers |-> [s \in Skills |-> <<>>], skipped |-> [s \in Skills |-> NoSkill]]

Asked(d, s)  == d.answers[s] # <<>>
Failed(d, s) == Asked(d, s) /\ Last(d.answers[s]) # "CORRECT"

Before(s, t) == NameOrder[s] < NameOrder[t]
First(names) == CHOOSE s \in names : \A t \in names \ {s} : Before(s, t)

depth[s \in Skills] ==
    IF Prereqs[s] = {} THEN 0 ELSE 1 + Max({depth[p] : p \in Prereqs[s]})

(* _order: foundations first, then by name.                                *)
Earlier(s, t) == depth[s] < depth[t] \/ (depth[s] = depth[t] /\ Before(s, t))

(* Plausible bug, for mutation: only the prerequisites themselves count,   *)
(* not what is further up the chain.                                       *)
DirectlyFailed(d) ==
    [s \in Skills |-> LET failed == {p \in Prereqs[s] : Failed(d, p)}
                     IN  IF failed = {} THEN NoSkill ELSE First(failed)]

(* Plausible bug, for mutation: a prerequisite that was not asked about    *)
(* counts as failed, and is named.                                         *)
NotPassed(d) ==
    [s \in Skills |-> LET failed == {p \in Prereqs[s] : Failed(d, p) \/ ~ Asked(d, p)}
                     IN  IF failed = {} THEN NoSkill ELSE First(failed)]

(* _failed_prerequisite, of every skill.                                   *)
FailedPrerequisite(d) ==
    LET blocker[s \in Skills] ==
            LET Via(p) == CASE Failed(d, p) -> p
                            [] ~ Failed(d, p) /\ d.skipped[p] # NoSkill -> d.skipped[p]
                            [] OTHER -> blocker[p]
                blocked == {p \in Prereqs[s] : Via(p) # NoSkill}
            IN  IF blocked = {} THEN NoSkill ELSE Via(First(blocked))
    IN  blocker

(* next_question: the first question worth asking, and what is skipped on  *)
(* the way to it.  A skip made on the way names what the walk up the       *)
(* prerequisites would find without it.                                    *)
NextQuestion(d) ==
    LET blocker  == FailedPrerequisite(d)
        open     == {s \in Skills : ~ Asked(d, s) /\ d.skipped[s] = NoSkill}
        worth    == {s \in open : blocker[s] = NoSkill}
        question == IF worth = {} THEN NoSkill
                    ELSE CHOOSE s \in worth : \A t \in worth \ {s} : Earlier(s, t)
        Passed(s) == s \in open \ worth /\ (question # NoSkill => Earlier(s, question))
    IN  [d |-> [d EXCEPT !.skipped = [s \in Skills |-> IF Passed(s) THEN blocker[s] ELSE @[s]]],
         question |-> question]

(* Plausible bug, for mutation: only a passed question is put down, so     *)
(* that the student tries again.                                           *)
RecordPass(d, skill, outcome) ==
    IF outcome = "CORRECT" THEN [d EXCEPT !.answers[skill] = Append(@, outcome)] ELSE d

Record(d, skill, outcome) == [d EXCEPT !.answers[skill] = Append(@, outcome)]

(* The belief in percent: Bayes with p_slip 15 and the p_guess 20 of a     *)
(* question with one expected output, then p_transit 8, from p_init 30.    *)
Observe(mastery, outcome) ==
    LET known   == mastery * (IF outcome = "CORRECT" THEN 85 ELSE 15)
        unknown == (100 - mastery) * (IF outcome = "CORRECT" THEN 20 ELSE 80)
        p       == (100 * known) \div (known + unknown)
    IN  p + (8 * (100 - p)) \div 100

(* finish: the records the answers justify.                                *)
Profile(answers) ==
    [s \in Skills |-> [mastery  |-> FoldLeft(Observe, 30, answers[s]),
                       measured |-> answers[s] # <<>>]]

Weak(nodes) == {s \in Skills : nodes[s].mastery < MASTERY_THRESHOLD}

Least(names, Below(_, _)) == CHOOSE s \in names : \A t \in names \ {s} : Below(s, t)

(* Plausible bug, for mutation: the headline is the first weakest skill of *)
(* the curriculum, whether or not it can be started.                       *)
TargetByRank(nodes) ==
    IF Weak(nodes) = {} THEN NoSkill
    ELSE Least(Weak(nodes), LAMBDA s, t :
             \/ nodes[s].mastery < nodes[t].mastery
             \/ (nodes[s].mastery = nodes[t].mastery /\ Rank[s] < Rank[t]))

(* The headline: the weakest skill measured, one that can be started       *)
(* before one that cannot, then by name; or the first unmeasured.          *)
TargetSkill(nodes) ==
    LET measured == {s \in Weak(nodes) : nodes[s].measured}
        blocked  == {s \in Skills : Unmastered(nodes, s) # {}}
    IN  CASE measured # {} ->
               Least(measured, LAMBDA s, t :
                   \/ nodes[s].mastery < nodes[t].mastery
                   \/ /\ nodes[s].mastery = nodes[t].mastery
                      /\ s \notin blocked /\ t \in blocked
                   \/ /\ nodes[s].mastery = nodes[t].mastery
                      /\ s \in blocked <=> t \in blocked
                      /\ Before(s, t))
          [] measured = {} /\ Weak(nodes) # {} -> First(Weak(nodes))
          [] OTHER -> NoSkill

(* skill_graph.weakest_startable, what the plan suggests.                  *)
Startable(nodes) == {s \in Weak(nodes) : Unmastered(nodes, s) = {}}

WeakestStartable(nodes) ==
    IF Startable(nodes) = {} THEN NoSkill
    ELSE Least(Startable(nodes), LAMBDA s, t :
             \/ nodes[s].mastery < nodes[t].mastery
             \/ (nodes[s].mastery = nodes[t].mastery /\ Before(s, t)))

-----------------------------------------------------------------------------
(* Handlers and sessions.                                                  *)

(* diagnostic is None in a session whose student needs none.               *)
NoSession == [open |-> FALSE, diagnostic |-> NewDiagnostic]
Slots     == 1 .. Cardinality(Handlers) + 1

Runs == {"passed", "failed", "fault"}

Idle == [kind |-> "none", step |-> "idle", session |-> 0, skill |-> NoSkill, run |-> "none",
         needs |-> FALSE, profile |-> NewDiagnostic.answers, status |-> "none", heard |-> TRUE]

Request(kind, skill) == [Idle EXCEPT !.kind = kind, !.step = "enter", !.skill = skill]

ServerInit ==
    /\ jobs = [h \in Handlers |-> Idle]
    /\ sessions = [i \in Slots |-> NoSession]
    /\ registry = 0
    /\ exists = FALSE /\ diagnosed = FALSE
    /\ rows = [s \in Skills |-> NoRow]
    /\ troubles = 0

At(h, kind, step) == jobs[h].kind = kind /\ jobs[h].step = step

Held(h) == jobs[h].session

(* A session nobody can reach any more is gone.                            *)
Reachable(objects) ==
    [i \in Slots |-> IF i = registry' \/ \E h \in Handlers : jobs'[h].session = i
                     THEN objects[i] ELSE NoSession]

(* An answer nobody waits for is dropped.                                  *)
Replied(job, status, skill) ==
    IF job.heard THEN [Idle EXCEPT !.step = "replied", !.status = status, !.skill = skill]
                 ELSE Idle

Reply(h, status, skill) == jobs' = [jobs EXCEPT ![h] = Replied(@, status, skill)]

Step(h, step) == jobs' = [jobs EXCEPT ![h].step = step]

Keep     == registry' = registry /\ sessions' = Reachable(sessions) /\ UNCHANGED troubles
Trouble  == troubles < MaxTroubles /\ troubles' = troubles + 1

-----------------------------------------------------------------------------
(* POST /session.                                                          *)

EnsureStudent(h) ==
    /\ At(h, "open", "enter")
    /\ exists' = TRUE
    /\ Step(h, IF exists THEN "check" ELSE "seed")
    /\ Keep /\ UNCHANGED <<diagnosed, rows>>

SeedSkills(h) ==
    /\ At(h, "open", "seed")
    /\ rows' = NewDiagnostic.answers
    /\ Step(h, "check")
    /\ Keep /\ UNCHANGED <<exists, diagnosed>>

NeedsDiagnostic(h) ==
    /\ At(h, "open", "check")
    /\ jobs' = [jobs EXCEPT ![h].step = "place", ![h].needs = ~ diagnosed]
    /\ Keep /\ UNCHANGED storeVars

PlaceSession(h) ==
    /\ At(h, "open", "place")
    /\ \E i \in Slots :
          /\ i # registry /\ \A g \in Handlers : jobs[g].session # i
          /\ \A j \in 1 .. i - 1 : j = registry \/ \E g \in Handlers : jobs[g].session = j
          /\ registry' = i
          /\ Reply(h, IF jobs[h].needs THEN "needed" ELSE "not needed", NoSkill)
          /\ sessions' = Reachable([sessions EXCEPT ![i] = [NoSession EXCEPT !.open = jobs[h].needs]])
    /\ UNCHANGED <<storeVars, troubles>>

-----------------------------------------------------------------------------
(* GET and POST /session/{id}/diagnostic.                                  *)

Missing(h) ==
    /\ jobs[h].kind \in {"question", "answer"} /\ jobs[h].step = "enter"
    /\ registry = 0
    /\ Reply(h, "missing", NoSkill)
    /\ Keep /\ UNCHANGED storeVars

Closed(h) ==
    /\ jobs[h].kind \in {"question", "answer"} /\ jobs[h].step = "enter"
    /\ registry # 0 /\ ~ sessions[registry].open
    /\ Reply(h, IF jobs[h].kind = "question" THEN "complete" ELSE "refused", NoSkill)
    /\ Keep /\ UNCHANGED storeVars

Open(h, kind) == At(h, kind, "enter") /\ registry # 0 /\ sessions[registry].open

Looked(next) == [sessions EXCEPT ![registry].diagnostic = next.d]

Question(h) ==
    /\ Open(h, "question")
    /\ LET next == NextQuestion(sessions[registry].diagnostic)
       IN  /\ IF next.question # NoSkill
              THEN Reply(h, "asked", next.question)
              ELSE jobs' = [jobs EXCEPT ![h].step = "finish", ![h].session = registry]
           /\ registry' = registry
           /\ sessions' = Reachable(Looked(next))
    /\ UNCHANGED <<storeVars, troubles>>

Accept(h) ==
    /\ Open(h, "answer")
    /\ LET next == NextQuestion(sessions[registry].diagnostic)
       IN  /\ IF next.question = jobs[h].skill
              THEN jobs' = [jobs EXCEPT ![h].step = "run", ![h].session = registry]
              ELSE Reply(h, "refused", NoSkill)
           /\ registry' = registry
           /\ sessions' = Reachable(Looked(next))
    /\ UNCHANGED <<storeVars, troubles>>

RunAnswer(h) ==
    /\ At(h, "answer", "run")
    /\ \E run \in Runs : jobs' = [jobs EXCEPT ![h].step = "record", ![h].run = run]
    /\ Keep /\ UNCHANGED storeVars

(* Whatever did not pass is a wrong answer.  The diagnostic may be gone by *)
(* now: None has no record.                                                *)
RecordAnswer(h) ==
    /\ At(h, "answer", "record")
    /\ LET i == Held(h)
           outcome == IF jobs[h].run = "passed" THEN "CORRECT" ELSE "INCORRECT"
       IN  /\ Reply(h, IF sessions[i].open THEN "ok" ELSE "broken", NoSkill)
           /\ registry' = registry
           /\ sessions' = Reachable(IF sessions[i].open
                   THEN [sessions EXCEPT ![i].diagnostic = Record(@, jobs[h].skill, outcome)]
                   ELSE sessions)
    /\ UNCHANGED <<storeVars, troubles>>

FinishDiagnostic(h) ==
    /\ At(h, "question", "finish")
    /\ IF sessions[Held(h)].open
       THEN jobs' = [jobs EXCEPT ![h].step = "save",
                                 ![h].profile = sessions[Held(h)].diagnostic.answers]
       ELSE Reply(h, "broken", NoSkill)
    /\ Keep /\ UNCHANGED storeVars

(* Plausible bug, for mutation: the diagnostic is dropped once its profile *)
(* is saved, before the student is marked.                                 *)
SaveAndDrop(h) ==
    /\ At(h, "question", "save")
    /\ rows' = jobs[h].profile
    /\ Step(h, "mark")
    /\ registry' = registry
    /\ sessions' = Reachable([sessions EXCEPT ![Held(h)] = NoSession])
    /\ UNCHANGED <<exists, diagnosed, troubles>>

SaveProfile(h) ==
    /\ At(h, "question", "save")
    /\ rows' = jobs[h].profile
    /\ Step(h, "mark")
    /\ Keep /\ UNCHANGED <<exists, diagnosed>>

MarkDiagnosed(h) ==
    /\ At(h, "question", "mark")
    /\ diagnosed' = TRUE
    /\ Step(h, "close")
    /\ Keep /\ UNCHANGED <<exists, rows>>

CloseDiagnostic(h) ==
    /\ At(h, "question", "close")
    /\ Reply(h, "complete", NoSkill)
    /\ registry' = registry
    /\ sessions' = Reachable([sessions EXCEPT ![Held(h)] = NoSession])
    /\ UNCHANGED <<storeVars, troubles>>

(* A store call raises; nothing of it is committed.                        *)
StoreFails(h) ==
    /\ \/ jobs[h].kind = "open" /\ jobs[h].step \in {"enter", "seed", "check"}
       \/ jobs[h].kind = "question" /\ jobs[h].step \in {"save", "mark"}
    /\ Reply(h, "broken", NoSkill)
    /\ Trouble
    /\ registry' = registry /\ sessions' = Reachable(sessions)
    /\ UNCHANGED storeVars

(* The process stops and comes back.                                       *)
Restart ==
    /\ Trouble
    /\ jobs' = [h \in Handlers |->
                   IF jobs[h].step = "idle" \/ ~ jobs[h].heard THEN Idle
                   ELSE IF jobs[h].step = "replied" THEN jobs[h]
                   ELSE Replied(jobs[h], "lost", NoSkill)]
    /\ registry' = 0
    /\ sessions' = [i \in Slots |-> NoSession]
    /\ UNCHANGED storeVars

Handle(h) ==
    \/ EnsureStudent(h) \/ SeedSkills(h) \/ NeedsDiagnostic(h) \/ PlaceSession(h)
    \/ Missing(h) \/ Closed(h) \/ Question(h) \/ Accept(h) \/ RunAnswer(h) \/ RecordAnswer(h)
    \/ FinishDiagnostic(h) \/ SaveProfile(h) \/ MarkDiagnosed(h) \/ CloseDiagnostic(h)
=============================================================================

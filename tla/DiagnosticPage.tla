--------------------------- MODULE DiagnosticPage ---------------------------
(***************************************************************************)
(* web/app/page.tsx as far as the quick check goes: one page that opens a  *)
(* session, asks for a question, sends the answer and asks again, against  *)
(* the endpoints of Diagnostic.  One request is awaited at a time; one     *)
(* that was given up is still handled.                                     *)
(***************************************************************************)
EXTENDS Diagnostic

CONSTANT Nobody

ASSUME NobodyAssumption == Nobody \notin Handlers

VARIABLES
    stage,       \* "welcome", "diagnostic", or "app" once there is a plan to show
    shown,       \* step: the question on the screen, NoSkill when it is complete
    flow,        \* what the page awaits
    req,         \* the handler of the request it awaits
    told         \* an error is on the screen

pageVars == <<stage, shown, flow, req, told>>
vars     == <<serverVars, pageVars>>

Init ==
    /\ ServerInit
    /\ stage = "welcome" /\ shown = NoSkill /\ flow = "rest" /\ req = Nobody /\ told = FALSE

-----------------------------------------------------------------------------
(* Requests and answers.                                                   *)

(* The handler that served the last request is free again.                 *)
Taken == [h \in Handlers |-> IF h = req THEN Idle ELSE jobs[h]]

ServerRests == UNCHANGED <<sessions, registry, storeVars, troubles>>

Send(kind, skill, next) ==
    /\ \E h \in Handlers :
          /\ Taken[h].step = "idle"
          /\ jobs' = [Taken EXCEPT ![h] = Request(kind, skill)]
          /\ req' = h
    /\ flow' = next
    /\ ServerRests

Settle ==
    /\ jobs' = Taken
    /\ req' = Nobody
    /\ flow' = "rest"
    /\ ServerRests

Answered(f) == flow = f /\ req # Nobody /\ jobs[req].step = "replied"
Status      == jobs[req].status

(* presentError: the stage and the question stay as they are.              *)
Fail == Settle /\ told' = TRUE /\ UNCHANGED <<stage, shown>>

AskQuestion(next) == Send("question", NoSkill, next) /\ UNCHANGED <<stage, shown, told>>
ReopenSession     == Send("open", NoSkill, "reopening") /\ UNCHANGED <<stage, shown, told>>

(* Plausible bug, for mutation: a question that comes after an error is    *)
(* not put on the screen.                                                  *)
ApplyUnlessTold ==
    /\ Settle
    /\ stage' = "diagnostic"
    /\ shown' = IF told THEN shown ELSE jobs[req].skill
    /\ UNCHANGED told

(* applyDiagnosticStep; a complete one leads to the plan.                  *)
ApplyDiagnosticStep ==
    /\ Settle
    /\ stage' = IF Status = "complete" THEN "app" ELSE "diagnostic"
    /\ shown' = jobs[req].skill
    /\ UNCHANGED told

-----------------------------------------------------------------------------
(* What the learner does: every action clears the error on the screen.     *)

Begin ==
    /\ stage = "welcome" /\ flow = "rest"
    /\ Send("open", NoSkill, "opening")
    /\ told' = FALSE
    /\ UNCHANGED <<stage, shown>>

Answer ==
    /\ stage = "diagnostic" /\ flow = "rest"
    /\ Send("answer", shown, "answering")
    /\ told' = FALSE
    /\ UNCHANGED <<stage, shown>>

(* The page is loaded again, by a learner who was told of an error or, as  *)
(* a trouble, by one who does not wait; what it awaited is forgotten.      *)
Forgotten == [h \in Handlers |-> CASE h = req /\ jobs[h].step = "replied" -> Idle
                                   [] h = req /\ jobs[h].step # "replied" -> [jobs[h] EXCEPT !.heard = FALSE]
                                   [] OTHER -> jobs[h]]

Fresh ==
    /\ jobs' = Forgotten
    /\ stage' = "welcome" /\ shown' = NoSkill /\ flow' = "rest" /\ req' = Nobody /\ told' = FALSE
    /\ UNCHANGED <<sessions, registry, storeVars>>

Reload   == stage = "diagnostic" /\ flow = "rest" /\ told /\ Fresh /\ UNCHANGED troubles
ReloadAt == req # Nobody /\ Trouble /\ Fresh

(* READ_TIMEOUT_MS, or the network: the page gives up on its request.      *)
GiveUp ==
    /\ req # Nobody /\ jobs[req].step # "replied"
    /\ Trouble
    /\ jobs' = Forgotten
    /\ req' = Nobody /\ flow' = "rest" /\ told' = TRUE
    /\ UNCHANGED <<sessions, registry, storeVars, stage, shown>>

-----------------------------------------------------------------------------
(* What the page does with an answer.  A session that is missing is opened *)
(* again, once.                                                            *)

Opened ==
    /\ Answered("opening")
    /\ \/ Status = "needed" /\ AskQuestion("asking")
       \/ Status = "not needed" /\ Settle /\ stage' = "app" /\ UNCHANGED <<shown, told>>
       \/ Status \in {"broken", "lost"} /\ Fail

Reopened ==
    /\ Answered("reopening")
    /\ \/ Status \in {"needed", "not needed"} /\ AskQuestion("reasking")
       \/ Status \in {"broken", "lost"} /\ Fail

Told ==
    /\ Answered("asking") \/ Answered("reasking")
    /\ \/ Status \in {"asked", "complete"} /\ ApplyDiagnosticStep
       \/ Status = "missing" /\ flow = "asking" /\ ReopenSession
       \/ Status \in {"broken", "lost"} \cup (IF flow = "reasking" THEN {"missing"} ELSE {})
          /\ Fail

Graded ==
    /\ Answered("answering")
    /\ \/ Status = "ok" /\ AskQuestion("asking")
       \/ Status = "missing" /\ ReopenSession
       \/ Status \in {"refused", "broken", "lost"} /\ Fail

PageReacts == Opened \/ Reopened \/ Told \/ Graded

ServerWorks == (\E h \in Handlers : Handle(h)) /\ UNCHANGED pageVars

Next ==
    \/ ServerWorks
    \/ ((\E h \in Handlers : StoreFails(h)) \/ Restart) /\ UNCHANGED pageVars
    \/ Begin \/ Answer \/ Reload \/ ReloadAt \/ GiveUp \/ PageReacts

Spec == Init /\ [][Next]_vars

(* Handlers end, answers arrive, and a learner who is asked answers; one   *)
(* who keeps being told of an error loads the page again.                  *)
FairSpec ==
    /\ Spec
    /\ WF_vars(ServerWorks)
    /\ WF_vars(PageReacts)
    /\ WF_vars(Begin)
    /\ WF_vars(Answer)
    /\ SF_vars(Reload)

-----------------------------------------------------------------------------
Ancestors[s \in Skills] == Prereqs[s] \cup UNION {Ancestors[p] : p \in Prereqs[s]}

(* The types of the variables.                                             *)
DiagnosticTypeOK ==
    /\ registry \in {0} \cup Slots
    /\ exists \in BOOLEAN /\ diagnosed \in BOOLEAN
    /\ rows \in [Skills -> {NoRow} \cup UNION {[1 .. n -> StudentOutcomes] : n \in 0 .. Cardinality(Handlers)}]
    /\ \A h \in Handlers : jobs[h].session \in {0} \cup Slots /\ jobs[h].skill \in Skills \cup {NoSkill}
    /\ stage \in {"welcome", "diagnostic", "app"} /\ shown \in Skills \cup {NoSkill}
    /\ req \in {Nobody} \cup Handlers
    /\ flow \in {"rest", "opening", "asking", "reopening", "reasking", "answering"}
    /\ stage = "diagnostic" => shown # NoSkill

(* A question is put, and an answer to it taken, only when the student has *)
(* last passed everything it builds on, all the way down, in the session   *)
(* that asks, and has not answered it (next_question, diagnostic_answer),  *)
(* though duplicate answers may have turned a foundation since.            *)
MayBeAsked(d, skill) ==
    /\ ~ Asked(d, skill) /\ d.skipped[skill] = NoSkill
    /\ \A p \in Ancestors[skill] : Asked(d, p) /\ ~ Failed(d, p)

AskedWhenReady ==
    [][\A h \in Handlers :
           /\ jobs[h].step = "enter" /\ jobs'[h].status = "asked"
                  => MayBeAsked(sessions[registry].diagnostic, jobs'[h].skill)
           /\ jobs[h].step = "enter" /\ jobs'[h].step = "run"
                  => MayBeAsked(sessions[registry].diagnostic, jobs[h].skill)]_vars

(* While no question has been answered twice, a skill is never both        *)
(* answered and skipped, and a skip names a question under it that was     *)
(* failed; when the check ends, every skill is one or the other, and a     *)
(* skipped one keeps the prior (next_question, finish).                    *)
AnsweredOnce(d) == \A s \in Skills : Len(d.answers[s]) <= 1

SkipsAreEarned ==
    /\ \A i \in Slots : LET d == sessions[i].diagnostic IN
           AnsweredOnce(d) =>
               \A s \in Skills : d.skipped[s] # NoSkill =>
                   /\ ~ Asked(d, s)
                   /\ d.skipped[s] \in Ancestors[s]
                   /\ Failed(d, d.skipped[s])
    /\ \A h \in Handlers : At(h, "question", "finish") =>
           LET s == sessions[jobs[h].session] IN
           s.open => \A k \in Skills : Asked(s.diagnostic, k) \/ s.diagnostic.skipped[k] # NoSkill

(* The headline of the check names what the plan suggests, unless what it  *)
(* names cannot be started yet, and while no question was answered twice   *)
(* (finish, weakest_startable).  Two answers can turn a foundation after   *)
(* what builds on it was passed; then the plan may prefer a skill that was *)
(* skipped to the weakest one that was measured.                           *)
HeadlineAgrees ==
    \A h \in Handlers :
        LET answers == jobs[h].profile
            nodes   == Profile(answers)
        IN  At(h, "question", "save") /\ (\A s \in Skills : Len(answers[s]) <= 1)
                /\ TargetSkill(nodes) \in Startable(nodes)
            => TargetSkill(nodes) = WeakestStartable(nodes)

(* What the page is told is kept: once it shows the plan, and as soon as   *)
(* the student is marked as checked, every skill has its row, whatever     *)
(* call failed or was made twice on the way (diagnostic_question).         *)
PlanHasItsRows ==
    /\ stage = "app" => diagnosed
    /\ diagnosed => \A s \in Skills : rows[s] # NoRow

(* The check comes to its end for a learner who answers, whatever was lost *)
(* on the way.                                                             *)
CheckEnds == <>(stage = "app")

(* A trouble of ours is not put down to the student: an answer that the    *)
(* sandbox could not run is not recorded.                                  *)
FaultsAreNotRecorded ==
    [][\A h \in Handlers : At(h, "answer", "record") /\ jobs[h].run = "fault"
           => \A i \in Slots : sessions'[i] \in {sessions[i], NoSession}]_vars
=============================================================================

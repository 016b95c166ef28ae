----------------------------- MODULE PageProofs -----------------------------
(***************************************************************************)
(* The page and the sessions behind it stay in step, for any number of     *)
(* threads, sessions, exercises and troubles: no answer reaches the wrong  *)
(* continuation, a submission is graded against the exercise on the        *)
(* screen, and "your answer was saved" is true.                            *)
(***************************************************************************)
EXTENDS SessionProofs, FiniteSetTheorems

-----------------------------------------------------------------------------
(* The shape of the page: what its controls show follows from its flow,    *)
(* and the request it awaits is of the kind the flow made.                 *)

PollFlows == {"reading", "sleeping", "continuing", "checking", "retrying"}

Asking(f) ==
    CASE f \in {"opening", "recovering"}    -> "open"
      [] f = "starting"                     -> "start"
      [] f = "submitting"                   -> "submit"
      [] f \in {"reading", "checking"}      -> "current"
      [] f \in {"continuing", "retrying"}   -> "continue"
      [] OTHER                              -> "none"

TurnRecord == [fallback : {"idle", "failed", "timed-out"}, mayContinue : BOOLEAN,
               late : BOOLEAN, answers : Nat]

Controls ==
    /\ flow \in Flows
    /\ turnPhase \in TurnPhases
    /\ turn \in TurnRecord
    /\ (req = Nobody) <=> (flow \in {"closed", "rest", "sleeping"})
    /\ flow \in {"closed", "opening"} => turnPhase = "idle" /\ view.exercise = 0
    /\ flow = "starting" => turnPhase = "idle"
    /\ flow = "submitting" => turnPhase = "running-tests"
    /\ flow = "recovering" => turnPhase \in {"idle", "running-tests"}
    /\ flow = "rest" => turnPhase \in {"idle", "failed", "timed-out"}
    /\ flow \in PollFlows => turnPhase = "updating-plan"
    /\ flow \notin PollFlows => turn.fallback = "idle"

Awaited == req # Nobody =>
    /\ jobs[req].step # "idle"
    /\ jobs[req].kind = Asking(flow)
    /\ jobs[req].heard = TRUE

Shape == Controls /\ Awaited

-----------------------------------------------------------------------------
(* What a step of the server does to the requests.                         *)

(* A handler at work changes its own job only, goes on, or answers.        *)
LEMMA HandlerJobs ==
    ASSUME SessionInv, NEW h \in Handlers, HandlerStep(h)
    PROVE  /\ jobs[h].step # "idle"
           /\ \A u \in Handlers : u # h => jobs'[u] = jobs[u]
           /\ \/ \E status \in Statuses, v \in View : jobs'[h] = Replied(jobs[h], status, v)
              \/ /\ jobs'[h].step \notin {"idle", "enter"} /\ jobs'[h].kind = jobs[h].kind
                 /\ jobs'[h].heard = jobs[h].heard
<1>0. /\ h \in Threads /\ jobs \in [Threads -> Job] /\ jobs[h] \in Job
      /\ NoView \in View /\ \A i \in 1 .. Len(sessions) : sessions[i] \in Object
    BY DEF SessionInv, TypeInv, Threads, NoView, View, Phases
<1>1. ASSUME NEW status \in Statuses, NEW v \in View, Reply(h, status, v)
      PROVE  /\ jobs'[h] = Replied(jobs[h], status, v)
             /\ \A u \in Handlers : u # h => jobs'[u] = jobs[u]
    BY <1>0, <1>1 DEF Reply, Threads
<1>2. ASSUME NEW j \in Job, jobs' = [jobs EXCEPT ![h] = j]
      PROVE  jobs'[h] = j /\ \A u \in Handlers : u # h => jobs'[u] = jobs[u]
    BY <1>0, <1>2 DEF Threads
<1>3. CASE MissingSession(h)
    BY <1>0, <1>1, <1>3 DEF MissingSession, Entering, Statuses
<1>4. CASE Busy(h)
    BY <1>0, <1>1, <1>4 DEF Busy, Entering, Statuses
<1>5. CASE SubmitNothingAwaited(h)
    BY <1>0, <1>1, <1>5 DEF SubmitNothingAwaited, Locking, Entering, Statuses
<1>6. CASE ContinueNothing(h)
    BY <1>0, <1>1, <1>6, ViewType DEF ContinueNothing, Locking, Entering, Statuses
<1>7. CASE OpenSession(h)
    BY <1>0, <1>1, <1>7 DEF OpenSession, Entering, Statuses
<1>8. CASE BeginTutoring(h) \/ Submit(h) \/ ContinueTurn(h)
  <2>1. PICK i \in 1 .. Len(sessions), step \in {"run", "hand over"} :
           /\ jobs[h].step = "enter"
           /\ jobs' = [jobs EXCEPT ![h].step = step, ![h].session = i]
      BY <1>8 DEF BeginTutoring, Submit, ContinueTurn, Locking, Entering
  <2> DEFINE j == [jobs[h] EXCEPT !.step = step, !.session = i]
  <2>2. /\ j.step = step /\ j.kind = jobs[h].kind /\ j.heard = jobs[h].heard
        /\ jobs' = [jobs EXCEPT ![h] = j] /\ step \notin {"idle", "enter"}
      BY <1>0, <2>1 DEF Job
  <2> HIDE DEF j
  <2> QED  BY <1>0, <2>1, <2>2 DEF Threads
<1>9. CASE CurrentReadsGraph(h)
  <2>1. PICK i \in 1 .. Len(sessions) :
           /\ jobs[h].step = "enter"
           /\ jobs' = [jobs EXCEPT ![h].step = "read phase", ![h].session = i,
                                   ![h].view = ViewOf(sessions[i])]
      BY <1>9 DEF CurrentReadsGraph, Entering
  <2> DEFINE j == [jobs[h] EXCEPT !.step = "read phase", !.session = i, !.view = ViewOf(sessions[i])]
  <2>2. /\ j.step = "read phase" /\ j.kind = jobs[h].kind /\ j.heard = jobs[h].heard
        /\ jobs' = [jobs EXCEPT ![h] = j]
      BY <1>0, <2>1 DEF Job
  <2> HIDE DEF j
  <2> QED  BY <1>0, <2>1, <2>2 DEF Threads
<1>10. CASE CurrentReadsPhase(h)
  <2>1. [jobs[h].view EXCEPT !.phase = sessions[jobs[h].session].phase] \in View
    <3>1. jobs[h].session \in 1 .. Len(sessions)
        BY <1>0, <1>10 DEF CurrentReadsPhase, At, SessionInv, Fits
    <3> QED  BY <1>0, <3>1 DEF Job, View, Object
  <2> QED  BY <1>1, <1>10, <2>1 DEF CurrentReadsPhase, At, Statuses
<1>11. CASE PoseNode(h) \/ GradeNode(h)
    BY <1>11 DEF PoseNode, GradeNode, NodeDone, At
<1>12. CASE HandlerRaises(h)
    BY <1>0, <1>1, <1>12 DEF HandlerRaises, Running, At, Statuses
<1>13. CASE StartDone(h)
    BY <1>0, <1>1, <1>13, ViewType DEF StartDone, At, Statuses
<1>14. CASE HandOver(h)
  <2>1. PICK i \in 1 .. Len(sessions), w \in Workers :
           /\ Handing(h, i)
           /\ sessions' = [sessions EXCEPT ![i].phase = "updating", ![i].lock = w]
           /\ jobs' = [jobs EXCEPT ![w] = WorkerJob(i),
                                   ![h] = Replied(@, "ok", ViewOf(sessions'[i]))]
      BY <1>14, Zenon DEF HandOver, IdleWorkers
  <2>2. w # h /\ w \in Threads
      BY Disjoint DEF Threads
  <2>3. sessions'[i] \in Object
    <3>1. [sessions[i] EXCEPT !.phase = "updating", !.lock = w] \in Object
        BY <1>0, <2>2 DEF Object, Phases
    <3>2. sessions \in Seq(Object)
        BY DEF SessionInv, TypeInv
    <3> DEFINE r == [sessions[i] EXCEPT !.phase = "updating", !.lock = w]
    <3>3. sessions' = [sessions EXCEPT ![i] = r]
        BY <2>1
    <3> HIDE DEF r
    <3>4. sessions'[i] = r
        BY <3>2, <3>3
    <3> QED  BY <3>1, <3>4 DEF r
  <2>4. ViewOf(sessions'[i]) \in View
      BY <2>3, ViewType
  <2>5. PICK v \in View : v = ViewOf(sessions'[i])
      BY <2>4
  <2>6. jobs' = [jobs EXCEPT ![w] = WorkerJob(i), ![h] = Replied(@, "ok", v)]
      BY <2>1, <2>5
  <2>7. /\ jobs'[h] = Replied(jobs[h], "ok", v)
        /\ \A u \in Handlers : u # h => jobs'[u] = jobs[u]
      BY <1>0, <2>2, <2>6, Disjoint DEF Threads
  <2>8. jobs[h].step # "idle"
      BY <2>1 DEF Handing, At
  <2> QED  BY <2>7, <2>8 DEF Statuses
<1>15. CASE HandOverFails(h)
    BY <1>0, <1>1, <1>15 DEF HandOverFails, Handing, At, Statuses
<1> QED  BY <1>3, <1>4, <1>5, <1>6, <1>7, <1>8, <1>9, <1>10, <1>11, <1>12, <1>13, <1>14, <1>15
         DEF HandlerStep

(* A worker touches no request.                                            *)
LEMMA WorkerJobs ==
    ASSUME SessionInv, NEW w \in Workers, WorkerStep(w)
    PROVE  \A h \in Handlers : jobs'[h] = jobs[h]
<1>1. jobs \in [Threads -> Job] /\ \A h \in Handlers : h # w /\ h \in Threads
    BY Disjoint DEF SessionInv, TypeInv, Threads
<1>2. CASE UNCHANGED jobs
    BY <1>2
<1>3. ASSUME NEW phase, Publish(w, phase) PROVE \A h \in Handlers : jobs'[h] = jobs[h]
    BY <1>1, <1>3 DEF Publish
<1>4. CASE WorkerReleases(w)
    BY <1>1, <1>4 DEF WorkerReleases
<1> QED  BY <1>2, <1>3, <1>4
         DEF WorkerStep, PoseNode, GradeNode, RecordNode, AdaptNode, WorkerRaises, WorkerDone

(* A restart answers "lost" to every request that has no answer yet.       *)
LEMMA RestartJobs ==
    ASSUME SessionInv, Restart, NEW h \in Handlers
    PROVE  jobs'[h] = IF jobs[h].step \in {"idle", "replied"} THEN jobs[h]
                      ELSE Replied(jobs[h], "lost", NoView)
    BY Disjoint DEF Restart, Threads

(* An answer nobody has stopped waiting for is there to be taken.          *)
LEMMA Answering ==
    ASSUME NEW j \in Job, j.heard = TRUE, NEW status \in Statuses, NEW v \in View
    PROVE  /\ Replied(j, status, v).step = "replied" /\ Replied(j, status, v).kind = j.kind
           /\ Replied(j, status, v).status = status /\ Replied(j, status, v).view = v
           /\ Replied(j, status, v).heard = TRUE
    BY DEF Replied, Idle

(* What sending a request does to the jobs.                                *)
LEMMA Sending ==
    ASSUME SessionInv, NEW kind \in Kinds, NEW next, Send(kind, next)
    PROVE  /\ req' \in Handlers /\ req' # Nobody /\ flow' = next
           /\ jobs'[req'].step = "enter" /\ jobs'[req'].kind = kind
           /\ jobs'[req'].heard = TRUE /\ jobs'[req'].status = "none"
           /\ jobs'[req'].view.exercise = 0
           /\ kind = "submit" => jobs'[req'].shown = view.exercise
           /\ \A h \in Handlers : h # req' =>
                 IF h = req THEN jobs'[h].step = "idle" ELSE jobs'[h] = jobs[h]
           /\ UNCHANGED <<sessions, registry, posed, recorded, troubles, abandoned>>
<1>1. /\ req' \in Handlers /\ flow' = next
      /\ UNCHANGED <<sessions, registry, posed, recorded, troubles, abandoned>>
    BY Zenon DEF Send
<1>2. PICK shown : /\ jobs' = [Taken EXCEPT ![req'] = Request(kind, shown)]
                   /\ kind = "submit" => shown = view.exercise
    BY Zenon DEF Send
<1>3. req' \in Threads /\ Taken \in [Threads -> Job] /\ req \in Handlers \cup {Nobody}
    BY <1>1, TakenType DEF Threads, SessionInv, TypeInv
<1>4. /\ jobs'[req'] = Request(kind, shown)
      /\ \A h \in Handlers : h # req' => jobs'[h] = Taken[h]
    BY <1>2, <1>3 DEF Threads
<1>5. /\ Request(kind, shown).step = "enter" /\ Request(kind, shown).kind = kind
      /\ Request(kind, shown).heard = TRUE /\ Request(kind, shown).status = "none"
      /\ Request(kind, shown).view.exercise = 0 /\ Request(kind, shown).shown = shown
    BY DEF Request, Idle, NoView
<1>6. ASSUME NEW h \in Handlers
      PROVE  IF h = req THEN Taken[h].step = "idle" ELSE Taken[h] = jobs[h]
  <2>1. CASE req = Nobody
    <3>1. Taken = jobs
        BY <2>1, Zenon DEF Taken
    <3> QED  BY <2>1, <3>1, Disjoint
  <2>2. CASE req # Nobody
    <3>1. Taken = [jobs EXCEPT ![req] = Idle] /\ jobs \in [Threads -> Job] /\ h \in Threads
        BY <2>2, Zenon DEF Taken, SessionInv, TypeInv, Threads
    <3> QED  BY <3>1 DEF Idle
  <2> QED  BY <2>1, <2>2
<1>7. \A h \in Handlers : h # req' =>
         IF h = req THEN jobs'[h].step = "idle" ELSE jobs'[h] = jobs[h]
    BY <1>4, <1>6
<1> QED  BY <1>1, <1>2, <1>4, <1>5, <1>7, Disjoint

(* What taking an answer without another request does.                     *)
LEMMA Settling ==
    ASSUME SessionInv, NEW next, Settle(next)
    PROVE  /\ req' = Nobody /\ flow' = next
           /\ \A h \in Handlers : jobs'[h] = jobs[h] \/ (h = req /\ jobs'[h].step = "idle")
           /\ \A h \in Handlers : h = req => jobs'[h].step = "idle"
           /\ UNCHANGED <<sessions, registry, posed, recorded, troubles, abandoned>>
<1>1. /\ req' = Nobody /\ flow' = next /\ jobs' = Taken
      /\ UNCHANGED <<sessions, registry, posed, recorded, troubles, abandoned>>
    BY DEF Settle
<1>2. jobs \in [Threads -> Job] /\ Handlers \subseteq Threads
    BY DEF SessionInv, TypeInv, Threads
<1>3. CASE req = Nobody
  <2>1. jobs' = jobs
      BY <1>1, <1>3, Zenon DEF Taken
  <2> QED  BY <1>1, <1>3, <2>1, Disjoint
<1>4. CASE req # Nobody
  <2>1. jobs' = [jobs EXCEPT ![req] = Idle] /\ Idle.step = "idle"
      BY <1>1, <1>4, Zenon DEF Taken, Idle
  <2> QED  BY <1>1, <1>2, <2>1
<1> QED  BY <1>3, <1>4

-----------------------------------------------------------------------------
(* The shape is kept.                                                      *)

LEMMA InitShape == PageInit => Shape
    BY Disjoint DEF PageInit, Shape, Controls, Awaited, Flows, TurnPhases, TurnRecord, NoTurn,
                    NoView, PollFlows

(* By a step of a handler.                                                 *)
LEMMA HandlerShape ==
    ASSUME SessionInv, Shape, NEW h \in Handlers, HandlerStep(h), Quiet
    PROVE  Shape'
<1>1. Controls'
    BY DEF Quiet, pageVars, Shape, Controls
<1>2. Awaited'
  <2> SUFFICES ASSUME req # Nobody
               PROVE  /\ jobs'[req].step # "idle" /\ jobs'[req].kind = Asking(flow)
                      /\ jobs'[req].heard = TRUE
      BY DEF Quiet, pageVars, Awaited
  <2>1. /\ req \in Handlers /\ jobs[req] \in Job
        /\ jobs[req].step # "idle" /\ jobs[req].kind = Asking(flow) /\ jobs[req].heard = TRUE
      BY DEF Shape, Awaited, SessionInv, TypeInv, Threads
  <2>2. CASE h # req
      BY <2>1, <2>2, HandlerJobs
  <2>3. CASE h = req
    <3>1. CASE jobs'[h].step # "idle" /\ jobs'[h].kind = jobs[h].kind /\ jobs'[h].heard = jobs[h].heard
        BY <2>1, <2>3, <3>1
    <3>2. ASSUME NEW status \in Statuses, NEW v \in View, jobs'[h] = Replied(jobs[h], status, v)
          PROVE  /\ jobs'[req].step # "idle" /\ jobs'[req].kind = Asking(flow)
                 /\ jobs'[req].heard = TRUE
      <4> DEFINE j == Replied(jobs[req], status, v)
      <4>1. j.step = "replied" /\ j.kind = jobs[req].kind /\ j.heard = TRUE
          BY <2>1, Answering, ZenonT(60)
      <4>2. jobs'[req] = j
          BY <2>3, <3>2
      <4> HIDE DEF j
      <4> QED  BY <2>1, <4>1, <4>2
    <3> QED  BY <3>1, <3>2, HandlerJobs
  <2> QED  BY <2>2, <2>3
<1> QED  BY <1>1, <1>2 DEF Shape

(* By a worker, and by a restart.                                          *)
LEMMA WorkerShape ==
    ASSUME SessionInv, Shape, NEW w \in Workers, WorkerStep(w), Quiet
    PROVE  Shape'
<1>1. Controls'
    BY DEF Quiet, pageVars, Shape, Controls
<1>2. Awaited'
    BY WorkerJobs DEF Quiet, pageVars, Shape, Awaited, SessionInv, TypeInv
<1> QED  BY <1>1, <1>2 DEF Shape

LEMMA RestartShape ==
    ASSUME SessionInv, Shape, ServerRestarts
    PROVE  Shape'
<1>1. Controls'
    BY DEF ServerRestarts, pageVars, Shape, Controls
<1>2. Awaited'
  <2> SUFFICES ASSUME req # Nobody
               PROVE  /\ jobs'[req].step # "idle" /\ jobs'[req].kind = Asking(flow)
                      /\ jobs'[req].heard = TRUE
      BY DEF ServerRestarts, pageVars, Awaited
  <2>1. /\ req \in Handlers /\ jobs[req] \in Job /\ NoView \in View /\ "lost" \in Statuses
        /\ jobs[req].step # "idle" /\ jobs[req].kind = Asking(flow) /\ jobs[req].heard = TRUE
      BY DEF Shape, Awaited, SessionInv, TypeInv, Threads, NoView, View, Phases, Statuses
  <2>2. jobs'[req] = jobs[req] \/ jobs'[req] = Replied(jobs[req], "lost", NoView)
      BY <2>1, RestartJobs DEF ServerRestarts
  <2> DEFINE j == Replied(jobs[req], "lost", NoView)
  <2>0. PICK asked \in Job : asked = jobs[req] /\ asked.heard = TRUE
      BY <2>1
  <2>5. NoView \in View /\ "lost" \in Statuses
      BY DEF NoView, View, Phases, Statuses
  <2>6. /\ Replied(asked, "lost", NoView).step = "replied"
        /\ Replied(asked, "lost", NoView).kind = asked.kind
        /\ Replied(asked, "lost", NoView).heard = TRUE
      BY <2>0, <2>5, Answering, ZenonT(60)
  <2>3. j.step = "replied" /\ j.kind = jobs[req].kind /\ j.heard = TRUE
      BY <2>0, <2>6
  <2>4. jobs'[req] = jobs[req] \/ jobs'[req] = j
      BY <2>2
  <2> HIDE DEF j
  <2> QED  BY <2>1, <2>3, <2>4
<1> QED  BY <1>1, <1>2 DEF Shape

(* By an action of the page that sends a request.                          *)
LEMMA SendShape ==
    ASSUME SessionInv, NEW kind \in Kinds, NEW next, Send(kind, next),
           kind = Asking(next), next \in Flows \ {"closed", "rest", "sleeping"},
           turnPhase' \in TurnPhases, turn' \in TurnRecord,
           next = "opening" => turnPhase' = "idle" /\ view'.exercise = 0,
           next = "starting" => turnPhase' = "idle",
           next = "submitting" => turnPhase' = "running-tests",
           next = "recovering" => turnPhase' \in {"idle", "running-tests"},
           next \in PollFlows => turnPhase' = "updating-plan",
           next \notin PollFlows => turn'.fallback = "idle"
    PROVE  Shape'
<1>1. /\ req' # Nobody /\ flow' = next
      /\ jobs'[req'].step = "enter" /\ jobs'[req'].kind = kind /\ jobs'[req'].heard = TRUE
    BY Sending
<1>2. Controls'
    BY <1>1 DEF Controls
<1>3. Awaited'
    BY <1>1 DEF Awaited
<1> QED  BY <1>2, <1>3 DEF Shape

(* By one that sends none.                                                 *)
LEMMA SettleShape ==
    ASSUME SessionInv, NEW next \in {"closed", "rest", "sleeping"}, Settle(next),
           turnPhase' \in TurnPhases, turn' \in TurnRecord,
           next = "closed" => turnPhase' = "idle" /\ view'.exercise = 0,
           next = "rest" => turnPhase' \in {"idle", "failed", "timed-out"},
           next = "sleeping" => turnPhase' = "updating-plan",
           next # "sleeping" => turn'.fallback = "idle"
    PROVE  Shape'
<1>1. req' = Nobody /\ flow' = next
    BY Settling
<1>2. Controls'
    BY <1>1 DEF Controls, Flows, PollFlows
<1>3. Awaited'
    BY <1>1 DEF Awaited
<1> QED  BY <1>2, <1>3 DEF Shape

(* What the shape says of the turn.                                        *)
LEMMA TurnFacts ==
    ASSUME Shape
    PROVE  /\ turnPhase \in TurnPhases /\ turn \in TurnRecord
           /\ turn.fallback \in {"idle", "failed", "timed-out"} /\ turn.answers \in Nat
    BY DEF Shape, Controls, TurnRecord

(* The turn is over for the page.                                          *)
LEMMA Ending ==
    ASSUME Shape, NEW phase \in {"idle", "failed", "timed-out"}, EndTurn(phase)
    PROVE  /\ turnPhase' = phase /\ turnPhase' \in TurnPhases
           /\ turn' \in TurnRecord /\ turn'.fallback = "idle"
           /\ phase # "idle" => turn'.answers = turn.answers
<1>1. turn.answers \in Nat
    BY TurnFacts
<1>2. PICK n \in Nat : /\ turn' = [NoTurn EXCEPT !.answers = n]
                       /\ phase # "idle" => n = turn.answers
    BY <1>1 DEF EndTurn
<1>3. turn' \in TurnRecord /\ turn'.fallback = "idle" /\ turn'.answers = n
    BY <1>2 DEF NoTurn, TurnRecord
<1> QED  BY <1>2, <1>3 DEF EndTurn, TurnPhases

(* The page settles and its turn is over.                                  *)
LEMMA RestShape ==
    ASSUME SessionInv, Shape, Settle("rest"), NEW phase \in {"idle", "failed", "timed-out"},
           EndTurn(phase)
    PROVE  Shape'
    BY Ending, SettleShape

(* pollTurn in a flow that polls, or right after a submission.             *)
LEMMA PollShape ==
    ASSUME SessionInv, Shape, flow \in PollFlows \cup {"submitting"},
           NEW next \in View, PollTurn(next)
    PROVE  Shape'
<1>1. turnPhase \in TurnPhases /\ turn \in TurnRecord
    BY TurnFacts
<1>2. CASE \/ ApplyCompletedTurn(next) \/ Show(next, "failed") \/ Show(next, "timed-out")
    BY <1>2, RestShape DEF ApplyCompletedTurn, Show
<1>3. CASE /\ Send("continue", "continuing") /\ turnPhase' = "updating-plan"
           /\ turn' = [turn EXCEPT !.mayContinue = FALSE]
  <2>1. turn' \in TurnRecord
      BY <1>1, <1>3 DEF TurnRecord
  <2> QED  BY <1>3, <2>1, SendShape DEF Kinds, Asking, Flows, TurnPhases, PollFlows
<1>4. CASE Settle("sleeping") /\ turnPhase' = "updating-plan" /\ UNCHANGED turn
    BY <1>1, <1>4, SettleShape DEF TurnPhases
<1> QED  BY <1>2, <1>3, <1>4 DEF PollTurn

(* By everything the page does by itself.                                  *)
LEMMA PageShape ==
    ASSUME SessionInv, Shape, Page
    PROVE  Shape'
<1>1. turnPhase \in TurnPhases /\ turn \in TurnRecord
      /\ turn.fallback \in {"idle", "failed", "timed-out"}
    BY TurnFacts
<1>2. CASE PollSession
    BY <1>1, <1>2, SendShape DEF PollSession, Kinds, Asking, Flows, TurnPhases, PollFlows
<1>3. ASSUME RecoverExercise, turnPhase \in {"idle", "running-tests"}, turn.fallback = "idle"
      PROVE  Shape'
    BY <1>1, <1>3, SendShape DEF RecoverExercise, OpenAs, Kinds, Asking, Flows, PollFlows
<1>4. CASE Fail
    BY <1>1, <1>4, RestShape DEF Fail
<1>5. ASSUME flow \in PollFlows \cup {"submitting"}, req # Nobody, PollTurn(Told) PROVE Shape'
    BY <1>5, ToldType, PollShape
<1>6. CASE Opened
  <2>1. PICK next \in {"closed", "rest"} : Settle(next)
      BY <1>6 DEF Opened
  <2>2. /\ UNCHANGED <<view, turnPhase, turn>> /\ turnPhase = "idle" /\ view.exercise = 0
        /\ turn.fallback = "idle"
      BY <1>6 DEF Opened, Answered, Shape, Controls, PollFlows
  <2> QED  BY <1>1, <2>1, <2>2, SettleShape
<1>7. CASE Recovered
    BY <1>4, <1>7, RestShape DEF Recovered, ApplyCompletedTurn, Show
<1>8. CASE Started
  <2>1. turnPhase = "idle" /\ turn.fallback = "idle"
      BY <1>8 DEF Started, Answered, Shape, Controls, PollFlows
  <2> QED  BY <1>3, <1>4, <1>8, <2>1, RestShape DEF Started, Show
<1>9. CASE Submitted
  <2>1. /\ flow = "submitting" /\ req # Nobody
        /\ turnPhase = "running-tests" /\ turn.fallback = "idle"
      BY <1>9 DEF Submitted, Answered, Shape, Controls, PollFlows
  <2> QED  BY <1>2, <1>3, <1>4, <1>5, <1>9, <2>1 DEF Submitted
<1>10. CASE Polled
    BY <1>4, <1>5, <1>10 DEF Polled, Answered, PollFlows
<1>11. CASE Wake
    BY <1>2, <1>11 DEF Wake
<1>12. CASE Continued
    BY <1>2, <1>4, <1>5, <1>12 DEF Continued, Answered, PollFlows
<1> QED  BY <1>6, <1>7, <1>8, <1>9, <1>10, <1>11, <1>12 DEF Page

(* By what the learner does.                                               *)
LEMMA LearnerShape ==
    ASSUME SessionInv, Shape, Learner
    PROVE  Shape'
<1>1. turnPhase \in TurnPhases /\ turn \in TurnRecord
    BY TurnFacts
<1>2. CASE Open
  <2>1. turnPhase = "idle" /\ view.exercise = 0 /\ turn.fallback = "idle"
      BY <1>2 DEF Open, Shape, Controls, PollFlows
  <2> QED  BY <1>1, <1>2, <2>1, SendShape DEF Open, OpenAs, Kinds, Asking, Flows, PollFlows
<1>3. CASE StartSkill
  <2>1. turn.fallback = "idle"
      BY <1>3 DEF StartSkill, Shape, Controls, PollFlows
  <2> QED  BY <1>1, <1>3, <2>1, SendShape DEF StartSkill, Kinds, Asking, Flows, PollFlows
<1>4. CASE SubmitCode
  <2>1. PICK n \in Nat : turn' = [NoTurn EXCEPT !.answers = n]
      BY <1>4 DEF SubmitCode, SessionInv, TypeInv, View
  <2>2. turn' \in TurnRecord /\ turn'.fallback = "idle"
      BY <2>1 DEF NoTurn, TurnRecord
  <2> QED  BY <1>4, <2>2, SendShape DEF SubmitCode, Kinds, Asking, Flows, PollFlows, TurnPhases
<1>5. CASE ResumeTurn
  <2>1. PICK check \in BOOLEAN :
          /\ turnPhase = IF check THEN "timed-out" ELSE "failed"
          /\ IF check THEN Send("current", "checking") ELSE Send("continue", "retrying")
          /\ turnPhase' = "updating-plan"
          /\ turn' = [turn EXCEPT !.fallback = turnPhase, !.mayContinue = check]
      BY <1>5 DEF ResumeTurn
  <2>2. turnPhase \in {"timed-out", "failed"}
      BY <2>1
  <2>3. turn' \in TurnRecord
      BY <1>1, <2>1, <2>2 DEF TurnRecord
  <2> QED  BY <2>1, <2>3, SendShape DEF Kinds, Asking, Flows, PollFlows, TurnPhases
<1>6. CASE Reload
  <2>1. /\ flow' = "closed" /\ req' = Nobody /\ view' = NoView /\ turnPhase' = "idle"
        /\ turn' = NoTurn
      BY <1>6 DEF Reload
  <2> QED  BY <2>1 DEF Shape, Controls, Awaited, Flows, TurnPhases, TurnRecord, NoTurn, NoView,
                       PollFlows
<1> QED  BY <1>2, <1>3, <1>4, <1>5, <1>6 DEF Learner

(* By a deadline that passes, and an answer that is lost.                  *)
LEMMA TroubleShape ==
    ASSUME SessionInv, Shape, Deadline \/ LoseAnswer
    PROVE  Shape'
<1>1. turnPhase \in TurnPhases /\ turn \in TurnRecord
      /\ turn.fallback \in {"idle", "failed", "timed-out"}
    BY TurnFacts
<1>2. CASE Deadline
  <2>1. /\ turn' = [turn EXCEPT !.late = TRUE]
        /\ UNCHANGED <<jobs, flow, req, view, turnPhase>>
      BY <1>2 DEF Deadline, serverVars
  <2>2. turn' \in TurnRecord /\ turn'.fallback = turn.fallback
      BY <1>1, <2>1 DEF TurnRecord
  <2>3. Controls'
      BY <2>1, <2>2 DEF Shape, Controls
  <2>4. Awaited'
      BY <2>1 DEF Shape, Awaited
  <2> QED  BY <2>3, <2>4 DEF Shape
<1>3. CASE LoseAnswer
  <2>1. /\ req' = Nobody /\ flow' = IF flow = "opening" THEN "closed" ELSE "rest"
        /\ EndTurn(turn.fallback) /\ UNCHANGED view
      BY <1>3, Zenon DEF LoseAnswer
  <2>2. /\ turnPhase' = turn.fallback /\ turn' \in TurnRecord /\ turn'.fallback = "idle"
        /\ turnPhase' \in TurnPhases
      BY <1>1, <2>1, Ending
  <2>3. flow = "opening" => turn.fallback = "idle" /\ view.exercise = 0
      BY DEF Shape, Controls, PollFlows
  <2>4. Controls'
      BY <1>1, <2>1, <2>2, <2>3 DEF Controls, Flows, PollFlows
  <2>5. Awaited'
      BY <2>1 DEF Awaited
  <2> QED  BY <2>4, <2>5 DEF Shape
<1> QED  BY <1>2, <1>3

(* By every step.                                                          *)
LEMMA ShapeKeeps ==
    ASSUME SessionInv, Shape, [Next]_vars
    PROVE  Shape'
<1>1. CASE UNCHANGED vars
    BY <1>1 DEF vars, serverVars, pageVars, Shape, Controls, Awaited
<1>2. CASE Server /\ Quiet
    BY <1>2, HandlerShape, WorkerShape DEF Server
<1> QED  BY <1>1, <1>2, PageShape, LearnerShape, TroubleShape, RestartShape DEF Next

-----------------------------------------------------------------------------
(* Exercises are counted: those posed, those being chosen and those a      *)
(* request on its way will have chosen stay within the bound.              *)

Posing   == {i \in 1 .. Len(sessions) : sessions[i].node = "pose"}
Starting == {h \in Handlers : jobs[h].kind = "start" /\ jobs[h].step = "enter"}

Counted == IsFiniteSet(Starting) /\ posed + Cardinality(Posing) + Cardinality(Starting) <= MaxExercises

(* The sets of a step: less of both, or one more of one when the bound     *)
(* allows it, or one that goes from a set to the next.                     *)
Counts ==
    \/ posed' = posed /\ Posing' \subseteq Posing /\ Starting' \subseteq Starting
    \/ /\ posed' = posed + 1 /\ Starting' \subseteq Starting
       /\ \E i \in Posing : Posing' \subseteq Posing \ {i}
    \/ /\ posed' = posed
       /\ \E h \in Starting : Starting' \subseteq Starting \ {h}
       /\ \E i : Posing' \subseteq Posing \cup {i}
    \/ /\ posed' = posed /\ CanPose
       /\ Starting' \subseteq Starting /\ \E i : Posing' \subseteq Posing \cup {i}
    \/ /\ posed' = posed /\ CanPose
       /\ Posing' \subseteq Posing /\ \E h : Starting' \subseteq Starting \cup {h}

(* Cardinalities of a set and of what is left, added or taken away.        *)
LEMMA Fewer ==
    ASSUME NEW S, IsFiniteSet(S), NEW R, R \subseteq S
    PROVE  /\ IsFiniteSet(R) /\ Cardinality(R) <= Cardinality(S)
           /\ Cardinality(R) \in Nat /\ Cardinality(S) \in Nat
    BY FS_Subset, FS_CardinalityType

LEMMA OneMore ==
    ASSUME NEW S, IsFiniteSet(S), NEW x, NEW R, R \subseteq S \cup {x}
    PROVE  /\ IsFiniteSet(R) /\ Cardinality(R) <= Cardinality(S) + 1
           /\ Cardinality(R) \in Nat /\ Cardinality(S) \in Nat
<1>1. /\ IsFiniteSet(S \cup {x}) /\ Cardinality(S) \in Nat
      /\ Cardinality(S \cup {x}) = IF x \in S THEN Cardinality(S) ELSE Cardinality(S) + 1
    BY FS_AddElement, FS_CardinalityType
<1>2. /\ IsFiniteSet(R) /\ Cardinality(R) <= Cardinality(S \cup {x}) /\ Cardinality(R) \in Nat
    BY <1>1, Fewer
<1> QED  BY <1>1, <1>2

LEMMA OneLess ==
    ASSUME NEW S, IsFiniteSet(S), NEW x \in S, NEW R, R \subseteq S \ {x}
    PROVE  /\ IsFiniteSet(R) /\ Cardinality(R) <= Cardinality(S) - 1
           /\ Cardinality(R) \in Nat /\ Cardinality(S) \in Nat
<1>1. /\ IsFiniteSet(S \ {x}) /\ Cardinality(S) \in Nat
      /\ Cardinality(S \ {x}) = Cardinality(S) - 1
    BY FS_RemoveElement, FS_CardinalityType
<1>2. /\ IsFiniteSet(R) /\ Cardinality(R) <= Cardinality(S \ {x}) /\ Cardinality(R) \in Nat
    BY <1>1, Fewer
<1> QED  BY <1>1, <1>2

(* The sessions are finitely many.                                         *)
LEMMA FinitePosing == SessionInv => IsFiniteSet(Posing)
<1> SUFFICES ASSUME SessionInv PROVE IsFiniteSet(Posing)
    OBVIOUS
<1>1. Len(sessions) \in Nat
    BY DEF SessionInv, TypeInv
<1>2. IsFiniteSet(1 .. Len(sessions))
    BY <1>1, FS_Interval
<1> QED  BY <1>2, FS_Subset DEF Posing

(* Counting steps stay within the bound.                                   *)
LEMMA CountsKeep ==
    ASSUME SessionInv, Counted, Counts
    PROVE  Counted'
<1> DEFINE P == Posing  S == Starting
<1>1. /\ IsFiniteSet(P) /\ IsFiniteSet(S) /\ posed \in Nat /\ MaxExercises \in Nat
      /\ posed + Cardinality(P) + Cardinality(S) <= MaxExercises
    BY FinitePosing, SessionAssumption DEF SessionInv, TypeInv, Counted, SessionAssumption
<1>2. CanPose => posed + Cardinality(P) + Cardinality(S) < MaxExercises
    BY DEF CanPose, At, Posing, Starting
<1>3. ASSUME NEW p \in Nat, NEW Q, NEW R,
             \/ p = posed /\ Q \subseteq P /\ R \subseteq S
             \/ p = posed + 1 /\ R \subseteq S /\ \E i \in P : Q \subseteq P \ {i}
             \/ p = posed /\ (\E h \in S : R \subseteq S \ {h}) /\ \E i : Q \subseteq P \cup {i}
             \/ p = posed /\ CanPose /\ R \subseteq S /\ \E i : Q \subseteq P \cup {i}
             \/ p = posed /\ CanPose /\ Q \subseteq P /\ \E h : R \subseteq S \cup {h}
      PROVE  IsFiniteSet(R) /\ p + Cardinality(Q) + Cardinality(R) <= MaxExercises
  <2> HIDE DEF P, S
  <2>1. CASE p = posed /\ Q \subseteq P /\ R \subseteq S
    <3>1. /\ IsFiniteSet(R) /\ Cardinality(R) <= Cardinality(S) /\ Cardinality(Q) <= Cardinality(P)
          /\ {Cardinality(P), Cardinality(Q), Cardinality(R), Cardinality(S)} \subseteq Nat
        BY <1>1, <2>1, Fewer
    <3> QED  BY <1>1, <2>1, <3>1
  <2>2. CASE p = posed + 1 /\ R \subseteq S /\ \E i \in P : Q \subseteq P \ {i}
    <3>1. /\ IsFiniteSet(R) /\ Cardinality(R) <= Cardinality(S)
          /\ {Cardinality(R), Cardinality(S)} \subseteq Nat
        BY <1>1, <2>2, Fewer
    <3>2. /\ Cardinality(Q) <= Cardinality(P) - 1
          /\ {Cardinality(P), Cardinality(Q)} \subseteq Nat
        BY <1>1, <2>2, OneLess
    <3> QED  BY <1>1, <2>2, <3>1, <3>2
  <2>3. CASE p = posed /\ (\E h \in S : R \subseteq S \ {h}) /\ \E i : Q \subseteq P \cup {i}
    <3>1. /\ IsFiniteSet(R) /\ Cardinality(R) <= Cardinality(S) - 1
          /\ {Cardinality(R), Cardinality(S)} \subseteq Nat
        BY <1>1, <2>3, OneLess
    <3>2. /\ Cardinality(Q) <= Cardinality(P) + 1
          /\ {Cardinality(P), Cardinality(Q)} \subseteq Nat
        BY <1>1, <2>3, OneMore
    <3> QED  BY <1>1, <2>3, <3>1, <3>2
  <2>4. CASE p = posed /\ CanPose /\ R \subseteq S /\ \E i : Q \subseteq P \cup {i}
    <3>1. /\ IsFiniteSet(R) /\ Cardinality(R) <= Cardinality(S)
          /\ {Cardinality(R), Cardinality(S)} \subseteq Nat
        BY <1>1, <2>4, Fewer
    <3>2. /\ Cardinality(Q) <= Cardinality(P) + 1
          /\ {Cardinality(P), Cardinality(Q)} \subseteq Nat
        BY <1>1, <2>4, OneMore
    <3> QED  BY <1>1, <1>2, <2>4, <3>1, <3>2
  <2>5. CASE p = posed /\ CanPose /\ Q \subseteq P /\ \E h : R \subseteq S \cup {h}
    <3>1. /\ IsFiniteSet(R) /\ Cardinality(R) <= Cardinality(S) + 1
          /\ {Cardinality(R), Cardinality(S)} \subseteq Nat
        BY <1>1, <2>5, OneMore
    <3>2. /\ Cardinality(Q) <= Cardinality(P)
          /\ {Cardinality(P), Cardinality(Q)} \subseteq Nat
        BY <1>1, <2>5, Fewer
    <3> QED  BY <1>1, <1>2, <2>5, <3>1, <3>2
  <2> QED  BY <1>3, <2>1, <2>2, <2>3, <2>4, <2>5
<1>4. posed' \in Nat
    BY <1>1 DEF Counts
<1> QED  BY <1>3, <1>4 DEF Counted, Counts

(* What the sessions do to the count.                                      *)
LEMMA AdvancesCount ==
    ASSUME SessionInv, Advances, Starting' \subseteq Starting
    PROVE  Counts
<1>0. posed \in Nat /\ Len(sessions) \in Nat
    BY DEF SessionInv, TypeInv
<1>1. CASE Rests
  <2>1. posed' = posed /\ Posing' \subseteq Posing
      BY <1>0, <1>1 DEF Rests, Posing
  <2> QED  BY <2>1 DEF Counts
<1>2. ASSUME NEW i \in 1 .. Len(sessions), NEW from, NEW to, Goes(i, from, to)
      PROVE  Posing' \subseteq Posing \cup (IF to = "pose" THEN {i} ELSE {})
    BY <1>0, <1>2 DEF Goes, Moves, Posing
<1>3. ASSUME NEW i \in 1 .. Len(sessions), Takes(i) \/ Grades(i) \/ Records(i) \/ Adapts(i)
      PROVE  Counts
  <2>1. CASE Goes(i, "adapt", "pose") /\ CanPose /\ posed' = posed
    <3>1. Posing' \subseteq Posing \cup {i}
        BY <1>2, <2>1
    <3> QED  BY <2>1, <3>1 DEF Counts
  <2>2. ASSUME NEW from, NEW to, to # "pose", Goes(i, from, to), posed' = posed PROVE Counts
    <3>1. Posing' \subseteq Posing
        BY <1>2, <2>2
    <3> QED  BY <2>2, <3>1 DEF Counts
  <2> QED  BY <1>3, <2>1, <2>2 DEF Takes, Grades, Records, Adapts
<1>4. ASSUME NEW i \in 1 .. Len(sessions), Poses(i) PROVE Counts
  <2>1. posed' = posed + 1 /\ i \in Posing /\ Posing' \subseteq Posing \ {i}
      BY <1>0, <1>4 DEF Poses, Moves, Posing
  <2> QED  BY <2>1 DEF Counts
<1> QED  BY <1>1, <1>3, <1>4 DEF Advances

(* A handler takes requests up, and makes none.                            *)
LEMMA HandlerCounts ==
    ASSUME SessionInv, NEW h \in Handlers, HandlerStep(h), Quiet
    PROVE  Counts
<1>1. jobs[h] \in Job /\ jobs \in [Threads -> Job] /\ h \in Threads
    BY DEF SessionInv, TypeInv, Threads
<1>2. jobs'[h].step # "enter"
    BY <1>1, HandlerJobs, RepliedType
<1>3. Starting' \subseteq Starting \ {h}
    BY <1>2, HandlerJobs DEF Starting
<1>4. CASE Advances
    BY <1>3, <1>4, AdvancesCount
<1>5. CASE BeginTutoring(h) /\ \E i \in 1 .. Len(sessions) : Starts(i)
  <2>1. PICK i \in 1 .. Len(sessions) : Starts(i)
      BY <1>5
  <2>2. posed' = posed /\ Posing' \subseteq Posing \cup {i}
      BY <2>1 DEF Starts, Moves, Posing, SessionInv, TypeInv
  <2>3. h \in Starting
      BY <1>5 DEF BeginTutoring, Locking, Entering, Starting
  <2> QED  BY <1>3, <2>2, <2>3 DEF Counts
<1> QED  BY <1>4, <1>5, HandlerMoves

(* The page makes one to start a skill, when the bound allows it.          *)
LEMMA PageCounts ==
    ASSUME SessionInv, Page \/ Deadline \/ Learner \/ LoseAnswer
    PROVE  Counts
<1>1. Rests /\ posed' = posed /\ Posing' \subseteq Posing
  <2>1. Rests
      BY PageMoves
  <2> QED  BY <2>1 DEF Rests, Posing, SessionInv, TypeInv
<1>2. ASSUME NEW kind \in Kinds, NEW next, Send(kind, next), kind = "start" => CanPose
      PROVE  Counts
  <2>1. Starting' \subseteq Starting \cup (IF kind = "start" THEN {req'} ELSE {})
      BY <1>2, Sending DEF Starting
  <2> QED  BY <1>1, <1>2, <2>1 DEF Counts
<1>3. ASSUME Starting' \subseteq Starting PROVE Counts
    BY <1>1, <1>3 DEF Counts
<1>4. ASSUME NEW next, Settle(next) PROVE Counts
  <2>1. Starting' \subseteq Starting
      BY <1>4, Settling DEF Starting
  <2> QED  BY <1>3, <2>1
<1>5. CASE PollSession
    BY <1>2, <1>5 DEF PollSession, Kinds
<1>6. CASE RecoverExercise
    BY <1>2, <1>6 DEF RecoverExercise, OpenAs, Kinds
<1>7. ASSUME NEW next, PollTurn(next) PROVE Counts
    BY <1>2, <1>4, <1>7 DEF PollTurn, ApplyCompletedTurn, Show, Kinds
<1>8. CASE Page
    BY <1>4, <1>5, <1>6, <1>7, <1>8
       DEF Page, Opened, Recovered, Started, Submitted, Polled, Wake, Continued, Fail,
           ApplyCompletedTurn, Show
<1>9. CASE Open \/ StartSkill \/ SubmitCode \/ ResumeTurn
    BY <1>2, <1>9 DEF Open, OpenAs, StartSkill, SubmitCode, ResumeTurn, Kinds
<1>10. jobs \in [Threads -> Job] /\ Handlers \subseteq Threads
    BY DEF SessionInv, TypeInv, Threads
<1>11. CASE Reload
  <2>1. jobs' = [t \in Threads |-> CASE t # req -> jobs[t]
                                     [] t = req /\ At(t, "replied") -> Idle
                                     [] OTHER -> [jobs[t] EXCEPT !.heard = FALSE]]
      BY <1>11 DEF Reload
  <2>2. \A h \in Handlers : jobs'[h].kind = "start" /\ jobs'[h].step = "enter" => h \in Starting
    <3> SUFFICES ASSUME NEW h \in Handlers PROVE jobs'[h].step = "enter" /\ jobs'[h].kind = "start" => h \in Starting
        OBVIOUS
    <3>1. jobs'[h] = jobs[h] \/ jobs'[h] = Idle \/ jobs'[h] = [jobs[h] EXCEPT !.heard = FALSE]
        BY <1>10, <2>1
    <3>2. jobs[h] \in Job
        BY <1>10
    <3> QED  BY <3>1, <3>2 DEF Job, Idle, Starting
  <2> QED  BY <1>3, <2>2 DEF Starting
<1>12. CASE LoseAnswer
  <2>1. PICK j : /\ jobs' = [jobs EXCEPT ![req] = j]
                 /\ j = [jobs[req] EXCEPT !.heard = FALSE] \/ j = Idle
      BY <1>10, <1>12 DEF LoseAnswer
  <2>2. req \in Handlers /\ jobs[req] \in Job
      BY <1>10, <1>12 DEF LoseAnswer, SessionInv, TypeInv
  <2>3. j.step = "enter" /\ j.kind = "start" => req \in Starting
      BY <2>1, <2>2 DEF Job, Idle, Starting
  <2>4. Starting' \subseteq Starting
      BY <1>10, <2>1, <2>2, <2>3 DEF Starting
  <2> QED  BY <1>3, <2>4
<1>13. CASE Deadline
  <2>1. Starting' = Starting
      BY <1>13 DEF Deadline, serverVars, Starting
  <2> QED  BY <1>3, <2>1
<1> QED  BY <1>8, <1>9, <1>11, <1>12, <1>13 DEF Learner

LEMMA CountedKeeps ==
    ASSUME SessionInv, Counted, [Next]_vars
    PROVE  Counted'
<1> SUFFICES Counts
    BY CountsKeep
<1>1. CASE UNCHANGED vars
    BY <1>1 DEF vars, serverVars, Counts, Posing, Starting
<1>2. CASE Server /\ Quiet
  <2>1. ASSUME NEW w \in Workers, WorkerStep(w) PROVE Counts
    <3>1. Starting' = Starting
        BY <2>1, WorkerJobs DEF Starting
    <3> QED  BY <1>2, <2>1, <3>1, WorkerMoves, AdvancesCount
  <2> QED  BY <1>2, <2>1, HandlerCounts DEF Server
<1>3. CASE ServerRestarts
  <2>1. \A k \in 1 .. Len(sessions') : sessions'[k].node = "none"
      BY <1>3 DEF ServerRestarts, Restart, NewSession, SessionInv, TypeInv
  <2>2. posed' = posed /\ Posing' \subseteq Posing
      BY <1>3, <2>1 DEF ServerRestarts, Restart, Posing
  <2>3. \A h \in Handlers : jobs'[h].step = "enter" => jobs'[h] = jobs[h]
    <3> SUFFICES ASSUME NEW h \in Handlers, jobs'[h] # jobs[h] PROVE jobs'[h].step # "enter"
        OBVIOUS
    <3>1. jobs'[h] = Replied(jobs[h], "lost", NoView)
        BY <1>3, RestartJobs DEF ServerRestarts
    <3>2. jobs[h] \in Job /\ NoView \in View /\ "lost" \in Statuses
        BY DEF SessionInv, TypeInv, Threads, NoView, View, Phases, Statuses
    <3> QED  BY <3>1, <3>2, RepliedType
  <2>4. Starting' \subseteq Starting
      BY <2>3 DEF Starting
  <2> QED  BY <2>2, <2>4 DEF Counts
<1> QED  BY <1>1, <1>2, <1>3, PageCounts DEF Next

LEMMA InitCounted == PageInit => Counted
<1> SUFFICES ASSUME PageInit PROVE Counted
    OBVIOUS
<1>1. posed = 0 /\ Posing = {} /\ Starting = {} /\ MaxExercises \in Nat
    BY SessionAssumption DEF PageInit, Init, Posing, Starting, Idle, Threads, SessionAssumption
<1>2. IsFiniteSet({}) /\ Cardinality({}) = 0
    BY FS_EmptySet
<1> QED  BY <1>1, <1>2 DEF Counted

-----------------------------------------------------------------------------
(* The page, its request and the count, in every behaviour.                *)
PageShapeInv == TurnInv /\ Shape /\ Counted

LEMMA PageShapeInvariant == Spec => []PageShapeInv
<1>1. PageInit => Shape /\ Counted
    BY InitShape, InitCounted
<1>2. SessionInv /\ Shape /\ Counted /\ [Next]_vars => Shape' /\ Counted'
    BY ShapeKeeps, CountedKeeps
<1>3. TurnInv => SessionInv
    BY DEF TurnInv
<1> QED  BY <1>1, <1>2, <1>3, TurnInvariant, PTL DEF Spec, PageShapeInv

(* Exercises within their bound.                                           *)
LEMMA WithinBound == PageShapeInv => posed \in 0 .. MaxExercises
<1> SUFFICES ASSUME PageShapeInv PROVE posed \in 0 .. MaxExercises
    OBVIOUS
<1>1. posed \in Nat /\ MaxExercises \in Nat
    BY SessionAssumption DEF PageShapeInv, TurnInv, SessionInv, TypeInv, SessionAssumption
<1>2. Cardinality(Posing) \in Nat /\ Cardinality(Starting) \in Nat
    BY FinitePosing, FS_CardinalityType DEF PageShapeInv, TurnInv, Counted
<1> QED  BY <1>1, <1>2 DEF PageShapeInv, Counted

(* The page awaits an answer exactly when its flow needs one, from a       *)
(* handler that serves it and knows it is heard, and the state is well     *)
(* formed, exercises within their bound included.                          *)
THEOREM PageTypes == Spec => []PageTypeOK
<1>1. PageShapeInv => PageTypeOK
  <2> SUFFICES ASSUME PageShapeInv PROVE PageTypeOK
      OBVIOUS
  <2>1. /\ registry \in 0 .. Len(sessions) /\ posed \in Nat /\ req \in Handlers \cup {Nobody}
        /\ MaxExercises \in Nat
        /\ \A i \in 1 .. Len(sessions) : sessions[i] \in Object /\ sessions[i].exercise <= posed
      BY SessionAssumption
         DEF PageShapeInv, TurnInv, SessionInv, TypeInv, Ledger, SessionAssumption
  <2>2. posed \in 0 .. MaxExercises
      BY WithinBound
  <2>3. \A i \in 1 .. Len(sessions) :
          /\ sessions[i].lock \in Threads \cup {Free}
          /\ sessions[i].phase \in {"idle", "updating", "failed"}
          /\ sessions[i].node \in Nodes
          /\ sessions[i].exercise \in 0 .. posed
      BY <2>1 DEF Object, Phases
  <2>4. /\ flow \in Flows /\ turnPhase \in TurnPhases
        /\ (req = Nobody) <=> (flow \in {"closed", "rest", "sleeping"})
      BY DEF PageShapeInv, Shape, Controls
  <2>5. req # Nobody => jobs[req] # Idle /\ jobs[req].heard
      BY DEF PageShapeInv, Shape, Awaited, Idle
  <2> QED  BY <2>1, <2>2, <2>3, <2>4, <2>5 DEF PageTypeOK
<1> QED  BY <1>1, PageShapeInvariant, PTL

-----------------------------------------------------------------------------
(* How far the page can be behind the session it talks to.  A page that    *)
(* has never given a request up has one request at most with the server,   *)
(* and nobody else has any.                                                *)

Alone == \A h \in Handlers : jobs[h].step # "idle" => h = req

cur   == sessions[registry]
asked == jobs[req]

Replying == req # Nobody /\ asked.step = "replied"
OK       == Replying /\ asked.status = "ok"

(* An answer that will replace what the page shows is on its way.          *)
Newer == OK \/ (req # Nobody /\ asked.kind = "start" /\ asked.step = "run")

(* The exercise v, shown with the controls of phase p, is the one awaited  *)
(* if one is; no worker will put another one; and a learner whose controls *)
(* are not a turn's finds no turn unfinished.                              *)
Fresh(v, p) == v # 0 =>
    /\ cur.node = "await" => cur.exercise = v
    /\ cur.lock \in Workers /\ cur.phase = "updating" => cur.node \notin Breakpoints
    /\ p \in {"idle", "running-tests"} /\ cur.lock \in Workers => cur.phase = "idle"

(* The answer to exercise a is graded.                                     *)
Settled(a) == a # 0 /\
    \/ a \in Exercises /\ recorded[a] > 0
    \/ \E i \in 1 .. Len(sessions) : sessions[i].exercise = a /\ sessions[i].node = "record"

(* The request is served by the session of the registry, whose lock no     *)
(* other handler holds.                                                    *)
Served ==
    /\ cur.lock \in Handlers => /\ req # Nobody /\ cur.lock = req
                                /\ asked.step \in {"run", "hand over"}
    /\ req # Nobody /\ asked.step \in {"run", "hand over", "read phase"} => asked.session = registry
    /\ req # Nobody /\ asked.step = "read phase" => asked.kind = "current"
    /\ req # Nobody /\ asked.step = "hand over" => asked.kind = "continue"

(* What an answer on its way says still holds.                             *)
TellsExercise == req # Nobody /\ asked.view.exercise # 0 =>
    /\ asked.step \in {"read phase", "replied"}
    /\ cur.node = "await" /\ cur.exercise = asked.view.exercise

TellsPhase == OK /\ asked.kind \in {"current", "continue", "submit"} /\ asked.view.phase = "idle" =>
    cur.phase = "idle"

TellsStatus == Replying =>
    /\ asked.status \in {"ok", "busy", "broken", "refused"}
    /\ asked.status = "busy" => asked.kind \in {"start", "submit", "continue"}
    /\ \/ asked.status \in {"broken", "refused"}
       \/ asked.status = "ok" /\ asked.kind = "start"
       => cur.lock = Free

(* A submission is for the exercise on the screen, and taken as its answer.*)
Submits == req # Nobody /\ asked.kind = "submit" =>
    /\ view.exercise # 0 /\ turn.answers = view.exercise
    /\ asked.step = "enter" => asked.shown = view.exercise
    /\ asked.step = "run" => cur.exercise = turn.answers
    /\ OK => Settled(turn.answers)
    /\ Replying /\ asked.status = "busy" => cur.phase = "idle"

(* A page that polls, or says that the answer was saved, has one that was  *)
(* graded; or it polls because its submission found the session busy, and  *)
(* will be told that the turn before is over.                              *)
Saved ==
    /\ flow \in PollFlows =>
          \/ Settled(turn.answers)
          \/ /\ flow = "reading" /\ turn.fallback = "idle" /\ cur.phase = "idle"
             /\ OK => asked.view.phase = "idle"
    /\ turnPhase \in {"failed", "timed-out"} => Settled(turn.answers)

Near ==
    /\ Newer \/ Fresh(view.exercise, turnPhase)
    /\ Served
    /\ TellsExercise
    /\ TellsPhase
    /\ TellsStatus
    /\ Submits
    /\ Saved

InStep == ~ abandoned => Alone /\ (registry # 0 => Near)

(* A settled answer stays settled until a session is begun anew.           *)
LEMMA SettledStays ==
    ASSUME SessionInv, Ledger, posed <= MaxExercises, Advances, NEW a \in Nat, Settled(a)
    PROVE  Settled(a)'
<1>0. /\ posed \in Nat /\ Len(sessions) \in Nat /\ recorded \in [Exercises -> Nat]
    BY DEF SessionInv, TypeInv
<1>1. CASE Rests
    BY <1>0, <1>1 DEF Rests, Settled
<1>2. ASSUME NEW i \in 1 .. Len(sessions), NEW from, NEW to, Goes(i, from, to), from # "record",
             UNCHANGED recorded
      PROVE  Settled(a)'
    BY <1>0, <1>2 DEF Goes, Moves, Settled
<1>3. ASSUME NEW i \in 1 .. Len(sessions), Takes(i) \/ Grades(i) \/ Adapts(i) PROVE Settled(a)'
    BY <1>2, <1>3 DEF Takes, Grades, Adapts
<1>4. ASSUME NEW i \in 1 .. Len(sessions), Records(i) PROVE Settled(a)'
  <2>0. PICK x : x = sessions[i].exercise
      OBVIOUS
  <2>1. /\ Goes(i, "record", "adapt") /\ recorded' = [recorded EXCEPT ![x] = @ + 1]
      BY <1>4, <2>0 DEF Records
  <2>2. \A y \in Exercises : recorded'[y] = IF y = x THEN recorded[y] + 1 ELSE recorded[y]
      BY <1>0, <2>1
  <2>3. CASE a \in Exercises /\ recorded[a] > 0
      BY <1>0, <2>2, <2>3 DEF Settled
  <2>4. ASSUME NEW k \in 1 .. Len(sessions), sessions[k].exercise = a, sessions[k].node = "record"
        PROVE  Settled(a)'
    <3>1. CASE k = i /\ a \in Exercises
        BY <1>0, <2>0, <2>2, <2>4, <3>1 DEF Settled
    <3>2. CASE k # i
        BY <1>0, <2>1, <2>4, <3>2 DEF Settled, Goes, Moves
    <3>3. a \in Exercises
        BY <1>0, <2>4, SessionAssumption DEF Settled, Ledger, Exercises, SessionAssumption
    <3> QED  BY <3>1, <3>2, <3>3
  <2> QED  BY <2>3, <2>4 DEF Settled
<1>5. ASSUME NEW i \in 1 .. Len(sessions), Poses(i) PROVE Settled(a)'
    BY <1>0, <1>5 DEF Poses, Moves, Settled
<1> QED  BY <1>1, <1>3, <1>4, <1>5 DEF Advances

-----------------------------------------------------------------------------
(* The sessions at work keep the page in step.                             *)

(* What a step of a worker does to the session of the registry.            *)
LEMMA WorkerTouches ==
    ASSUME SessionInv, registry # 0, NEW w \in Workers, WorkerStep(w)
    PROVE  /\ registry' = registry
           /\ \/ cur' = cur
              \/ /\ cur.lock = w /\ cur.phase = "updating" /\ cur.node \in Breakpoints
                 /\ cur'.lock = w /\ cur'.phase = "updating"
              \/ /\ cur.lock = w /\ cur.phase = "updating"
                 /\ cur'.lock = w /\ cur'.phase \in {"idle", "failed"}
                 /\ cur'.node = cur.node /\ cur'.exercise = cur.exercise
              \/ /\ cur.lock = w /\ cur'.lock = Free /\ cur'.phase = cur.phase
                 /\ cur'.node = cur.node /\ cur'.exercise = cur.exercise
<1>0. /\ w \in Threads /\ jobs \in [Threads -> Job] /\ registry \in 1 .. Len(sessions)
      /\ sessions \in Seq(Object)
      /\ \A k \in 1 .. Len(sessions) : sessions[k] \in Object
    BY DEF SessionInv, TypeInv, Threads
<1>1. ASSUME NEW i \in 1 .. Len(sessions), NEW r \in Object,
             sessions' = [sessions EXCEPT ![i] = r], registry' = registry
      PROVE  cur' = IF i = registry THEN r ELSE cur
    BY <1>0, <1>1 DEF cur
<1>2. jobs[w].step = "run" =>
         /\ jobs[w].session \in 1 .. Len(sessions)
         /\ sessions[jobs[w].session].lock = w
         /\ sessions[jobs[w].session].phase = "updating"
         /\ jobs[w].kind = "finish"
    BY <1>0 DEF SessionInv, Fits
<1>3. ASSUME NEW i \in 1 .. Len(sessions), NEW r \in Object,
             i = jobs[w].session, jobs[w].step = "run", sessions[i].node \in Breakpoints,
             r.lock = sessions[i].lock, r.phase = sessions[i].phase,
             sessions' = [sessions EXCEPT ![i] = r], registry' = registry
      PROVE  \/ cur' = cur
             \/ /\ cur.lock = w /\ cur.phase = "updating" /\ cur.node \in Breakpoints
                /\ cur'.lock = w /\ cur'.phase = "updating"
    BY <1>0, <1>1, <1>2, <1>3 DEF cur
<1>4. CASE PoseNode(w)
  <2>1. PICK i \in 1 .. Len(sessions) :
          /\ NodeDone(w, i, "pose")
          /\ sessions' = [sessions EXCEPT ![i].node = "await", ![i].exercise = posed + 1]
          /\ registry' = registry
      BY <1>4 DEF PoseNode
  <2> DEFINE r == [sessions[i] EXCEPT !.node = "await", !.exercise = posed + 1]
  <2>0. posed + 1 \in Nat /\ "await" \in Nodes
      BY DEF Nodes, SessionInv, TypeInv
  <2>2. /\ r \in Object /\ r.lock = sessions[i].lock /\ r.phase = sessions[i].phase
        /\ sessions' = [sessions EXCEPT ![i] = r]
      BY <1>0, <2>0, <2>1 DEF Object
  <2> HIDE DEF r
  <2> QED  BY <1>3, <2>1, <2>2 DEF NodeDone, At, Breakpoints
<1>5. ASSUME NEW i \in 1 .. Len(sessions), NEW from \in Breakpoints, NEW to \in Nodes,
             NodeDone(w, i, from), sessions' = [sessions EXCEPT ![i].node = to],
             registry' = registry
      PROVE  \/ cur' = cur
             \/ /\ cur.lock = w /\ cur.phase = "updating" /\ cur.node \in Breakpoints
                /\ cur'.lock = w /\ cur'.phase = "updating"
  <2> DEFINE r == [sessions[i] EXCEPT !.node = to]
  <2>2. /\ r \in Object /\ r.lock = sessions[i].lock /\ r.phase = sessions[i].phase
        /\ sessions' = [sessions EXCEPT ![i] = r]
      BY <1>0, <1>5 DEF Object
  <2> HIDE DEF r
  <2> QED  BY <1>3, <1>5, <2>2 DEF NodeDone, At
<1>6. CASE GradeNode(w) \/ RecordNode(w) \/ AdaptNode(w)
  <2>1. PICK i \in 1 .. Len(sessions), from \in Breakpoints, to \in Nodes :
          /\ NodeDone(w, i, from) /\ sessions' = [sessions EXCEPT ![i].node = to]
          /\ registry' = registry
      BY <1>6 DEF GradeNode, RecordNode, AdaptNode, Nodes, Breakpoints
  <2> QED  BY <1>5, <2>1
<1>7. CASE WorkerRaises(w) \/ WorkerDone(w)
  <2>1. PICK i \in 1 .. Len(sessions), phase \in {"idle", "failed"} :
          /\ i = jobs[w].session /\ jobs[w].step = "run"
          /\ sessions' = [sessions EXCEPT ![i].phase = phase] /\ registry' = registry
      BY <1>2, <1>7 DEF WorkerRaises, WorkerDone, Publish, Running, At
  <2> DEFINE r == [sessions[i] EXCEPT !.phase = phase]
  <2>2. /\ r \in Object /\ r.lock = sessions[i].lock /\ r.phase = phase
        /\ r.node = sessions[i].node /\ r.exercise = sessions[i].exercise
        /\ sessions' = [sessions EXCEPT ![i] = r]
      BY <1>0, <2>1 DEF Object, Phases
  <2> HIDE DEF r
  <2>3. cur' = IF i = registry THEN r ELSE cur
      BY <1>1, <2>1, <2>2
  <2> QED  BY <1>2, <2>1, <2>2, <2>3 DEF cur
<1>8. CASE WorkerReleases(w)
  <2>1. PICK i \in 1 .. Len(sessions) :
          /\ i = jobs[w].session /\ sessions[i].lock = w
          /\ sessions' = [sessions EXCEPT ![i].lock = Free] /\ registry' = registry
      BY <1>0, <1>8, Working DEF WorkerReleases, At
  <2> DEFINE r == [sessions[i] EXCEPT !.lock = Free]
  <2>2. /\ r \in Object /\ r.lock = Free /\ r.phase = sessions[i].phase
        /\ r.node = sessions[i].node /\ r.exercise = sessions[i].exercise
        /\ sessions' = [sessions EXCEPT ![i] = r]
      BY <1>0, <2>1 DEF Object
  <2> HIDE DEF r
  <2>3. cur' = IF i = registry THEN r ELSE cur
      BY <1>1, <2>1, <2>2
  <2> QED  BY <2>1, <2>2, <2>3 DEF cur
<1>9. registry' = registry
    BY DEF WorkerStep, PoseNode, GradeNode, RecordNode, AdaptNode, WorkerRaises, WorkerDone,
           WorkerReleases
<1> QED  BY <1>4, <1>6, <1>7, <1>8, <1>9 DEF WorkerStep

(* A worker leaves the page in step.                                       *)
LEMMA WorkerInStep ==
    ASSUME TurnInv, Shape, posed <= MaxExercises, InStep,
           NEW w \in Workers, WorkerStep(w), Quiet
    PROVE  InStep'
<1>0. /\ SessionInv /\ Ledger /\ UNCHANGED <<flow, req, view, turnPhase, turn, abandoned>>
      /\ \A h \in Handlers : jobs'[h] = jobs[h]
      /\ req \in Handlers \cup {Nobody}
      /\ turn.answers \in Nat
    BY WorkerJobs, TurnFacts DEF TurnInv, Quiet, pageVars, SessionInv, TypeInv
<1> SUFFICES ASSUME ~ abandoned PROVE Alone' /\ (registry' # 0 => Near')
    BY <1>0 DEF InStep
<1>1. Alone'
    BY <1>0 DEF InStep, Alone
<1>2. registry' = registry
    BY DEF WorkerStep, PoseNode, GradeNode, RecordNode, AdaptNode, WorkerRaises, WorkerDone,
           WorkerReleases
<1> SUFFICES ASSUME registry # 0 PROVE Near'
    BY <1>1, <1>2
<1>3. Near
    BY DEF InStep
<1>4. Settled(turn.answers) => Settled(turn.answers)'
    BY <1>0, WorkerMoves, SettledStays
<1>5. req # Nobody => asked' = asked
    BY <1>0 DEF asked
<1>6. /\ OK' <=> OK
      /\ Replying' <=> Replying
      /\ Newer' <=> Newer
    BY <1>0, <1>5 DEF OK, Replying, Newer
<1>7. \/ cur' = cur
      \/ /\ cur.lock = w /\ cur.phase = "updating" /\ cur.node \in Breakpoints
         /\ cur'.lock = w /\ cur'.phase = "updating"
      \/ /\ cur.lock = w /\ cur.phase = "updating"
         /\ cur'.lock = w /\ cur'.phase \in {"idle", "failed"}
         /\ cur'.node = cur.node /\ cur'.exercise = cur.exercise
      \/ /\ cur.lock = w /\ cur'.lock = Free /\ cur'.phase = cur.phase
         /\ cur'.node = cur.node /\ cur'.exercise = cur.exercise
    BY <1>0, WorkerTouches
<1>8. w # Free /\ w \notin Handlers /\ Free \notin Handlers \cup Workers
    BY Disjoint DEF Threads
<1>9. Newer' \/ Fresh(view.exercise, turnPhase)'
    BY <1>0, <1>3, <1>6, <1>7, <1>8 DEF Near, Fresh
<1>10. Served'
    BY <1>0, <1>2, <1>3, <1>5, <1>7, <1>8 DEF Near, Served
<1>11. TellsExercise'
    BY <1>0, <1>3, <1>5, <1>7 DEF Near, TellsExercise, Breakpoints
<1>12. TellsPhase'
    BY <1>0, <1>3, <1>5, <1>6, <1>7 DEF Near, TellsPhase, OK, Replying
<1>13. TellsStatus'
    BY <1>0, <1>3, <1>5, <1>6, <1>7, <1>8 DEF Near, TellsStatus, Replying
<1>14. Submits'
  <2>1. req # Nobody /\ asked.step = "run" => cur.lock = req
      BY <1>0, <1>3, ZenonT(60) DEF Near, Served, SessionInv, Fits, Threads, cur, asked
  <2>2. req # Nobody /\ asked.step = "run" => cur'.exercise = cur.exercise
      BY <1>0, <1>7, <1>8, <2>1
  <2> QED  BY <1>0, <1>3, <1>4, <1>5, <1>6, <1>7, <2>2 DEF Near, Submits
<1>15. Saved'
    BY <1>0, <1>3, <1>4, <1>5, <1>6, <1>7 DEF Near, Saved, OK, Replying
<1> QED  BY <1>9, <1>10, <1>11, <1>12, <1>13, <1>14, <1>15 DEF Near

(* The flow that made a request of each kind.                              *)
LEMMA KindFlow ==
    ASSUME Shape, req # Nobody
    PROVE  /\ asked.kind = "start" => flow = "starting" /\ turnPhase = "idle"
           /\ asked.kind = "submit" => flow = "submitting" /\ turnPhase = "running-tests"
           /\ asked.kind = "open" =>
                 /\ flow \in {"opening", "recovering"} /\ flow \notin PollFlows
                 /\ turnPhase \in {"idle", "running-tests"}
           /\ asked.kind = "current" => flow \in {"reading", "checking"}
           /\ asked.kind = "continue" => flow \in {"continuing", "retrying"}
           /\ asked.heard = TRUE
    BY DEF Shape, Controls, Awaited, Asking, PollFlows, Flows, asked

(* An answer goes out, and the session of the registry is left as it says. *)
LEMMA ReplyNear ==
    ASSUME SessionInv, Shape, Near \/ asked.kind = "open", req # Nobody, registry' # 0,
           UNCHANGED <<flow, req, view, turnPhase, turn>>,
           NEW status \in Statuses, NEW v \in View,
           jobs'[req] = Replied(jobs[req], status, v),
           cur'.lock \notin Handlers,
           v.exercise # 0 => cur'.node = "await" /\ cur'.exercise = v.exercise,
           status = "ok" /\ asked.kind \in {"current", "continue", "submit"} /\ v.phase = "idle" =>
               cur'.phase = "idle",
           status \in {"ok", "busy", "broken", "refused"},
           status = "busy" => asked.kind \in {"start", "submit", "continue"},
           status \in {"broken", "refused"} \/ (status = "ok" /\ asked.kind = "start") =>
               cur'.lock = Free,
           asked.kind = "submit" /\ status = "ok" => Settled(turn.answers)',
           asked.kind = "submit" /\ status = "busy" => cur'.phase = "idle",
           flow \in PollFlows =>
               \/ Settled(turn.answers)'
               \/ /\ flow = "reading" /\ turn.fallback = "idle" /\ cur'.phase = "idle"
                  /\ status = "ok" => v.phase = "idle",
           turnPhase \in {"failed", "timed-out"} => Settled(turn.answers)',
           status = "ok" \/ Fresh(view.exercise, turnPhase)'
    PROVE  Near'
<1>1. jobs[req] \in Job /\ jobs[req].heard = TRUE
    BY KindFlow DEF SessionInv, TypeInv, Threads, asked
<1>2. PICK j \in Job : j = jobs[req] /\ j.heard = TRUE
    BY <1>1
<1>3. /\ Replied(j, status, v).step = "replied" /\ Replied(j, status, v).kind = j.kind
      /\ Replied(j, status, v).status = status /\ Replied(j, status, v).view = v
    BY <1>2 DEF Replied, Idle
<1>4. /\ asked'.step = "replied" /\ asked'.kind = asked.kind
      /\ asked'.status = status /\ asked'.view = v
    BY <1>2, <1>3 DEF asked
<1>5. Replying' /\ (OK' <=> status = "ok")
    BY <1>4 DEF Replying, OK
<1>6. Newer' \/ Fresh(view.exercise, turnPhase)'
    BY <1>5 DEF Newer
<1>7. Served'
    BY <1>4 DEF Served
<1>8. TellsExercise'
    BY <1>4 DEF TellsExercise
<1>9. TellsPhase'
    BY <1>4, <1>5 DEF TellsPhase
<1>10. TellsStatus'
    BY <1>4, <1>5 DEF TellsStatus
<1>11. Submits'
    BY <1>4, <1>5 DEF Near, Submits
<1>12. Saved'
    BY <1>4, <1>5 DEF Saved
<1> QED  BY <1>6, <1>7, <1>8, <1>9, <1>10, <1>11, <1>12 DEF Near

(* While the request is with the server the page has its view, and what    *)
(* it was told before.                                                     *)
LEMMA AtWork ==
    ASSUME SessionInv, Near, req # Nobody, asked.step \in {"enter", "run", "hand over", "read phase"}
    PROVE  /\ ~ Replying /\ ~ OK
           /\ ~ (asked.kind = "start" /\ asked.step = "run") => Fresh(view.exercise, turnPhase)
           /\ asked.step \in {"run", "hand over"} => asked.session = registry /\ cur.lock = req
           /\ asked.step = "read phase" => asked.session = registry /\ asked.kind = "current"
           /\ asked.step = "hand over" => asked.kind = "continue"
           /\ asked.step \notin {"run", "hand over"} => cur.lock \notin Handlers
<1>1. ~ Replying /\ ~ OK
    BY DEF Replying, OK
<1>2. asked.step \in {"run", "hand over"} => asked.session = registry
    BY DEF Near, Served
<1>3. asked.step \in {"run", "hand over"} => sessions[asked.session].lock = req
    BY DEF SessionInv, TypeInv, Fits, Threads, asked
<1>4. /\ asked.step = "read phase" => asked.session = registry /\ asked.kind = "current"
      /\ asked.step = "hand over" => asked.kind = "continue"
      /\ asked.step \notin {"run", "hand over"} => cur.lock \notin Handlers
    BY DEF Near, Served
<1>5. ~ (asked.kind = "start" /\ asked.step = "run") => Fresh(view.exercise, turnPhase)
    BY <1>1 DEF Near, Newer
<1> QED  BY <1>1, <1>2, <1>3, <1>4, <1>5 DEF cur

(* What every step of the awaited handler starts from.                     *)
Serving ==
    /\ TurnInv /\ Shape /\ posed <= MaxExercises /\ Near
    /\ req # Nobody /\ registry # 0

LEMMA ServingFacts ==
    ASSUME Serving
    PROVE  /\ SessionInv /\ Shape /\ Near /\ req \in Handlers /\ req \in Threads
           /\ asked \in Job /\ jobs \in [Threads -> Job] /\ jobs[req] = asked
           /\ registry \in 1 .. Len(sessions) /\ sessions \in Seq(Object)
           /\ cur \in Object /\ sessions[registry] = cur
           /\ turn.answers \in Nat
    BY TurnFacts DEF Serving, TurnInv, SessionInv, TypeInv, Threads, asked, cur

(* A step that begins no session keeps what is settled.                    *)
LEMMA ServingSettled ==
    ASSUME Serving, Advances, UNCHANGED turn
    PROVE  Settled(turn.answers) => Settled(turn.answers)'
    BY ServingFacts, SettledStays DEF Serving, TurnInv

(* A page that saved an answer still has, when a request is answered.      *)
LEMMA StillSaved ==
    ASSUME Serving, Advances, UNCHANGED <<flow, turnPhase, turn, registry>>,
           cur'.phase = cur.phase
    PROVE  /\ flow \in PollFlows =>
                 \/ Settled(turn.answers)'
                 \/ flow = "reading" /\ turn.fallback = "idle" /\ cur'.phase = "idle"
           /\ turnPhase \in {"failed", "timed-out"} => Settled(turn.answers)'
    BY ServingFacts, ServingSettled DEF Near, Saved

(* A request is refused, or its session is busy.                           *)
LEMMA RefusingNear ==
    ASSUME Serving, Busy(req) \/ SubmitNothingAwaited(req), Quiet
    PROVE  Near'
<1>1. PICK status \in {"busy", "refused"} :
         /\ Reply(req, status, NoView) /\ asked.step = "enter"
         /\ UNCHANGED <<sessions, registry, posed, recorded>>
         /\ status = "busy" => asked.kind \in {"start", "submit", "continue"} /\ cur.lock # Free
         /\ status = "refused" => asked.kind = "submit" /\ cur.lock = Free
    BY DEF Busy, SubmitNothingAwaited, Locking, Entering, asked, cur
<1>2. UNCHANGED <<flow, req, view, turnPhase, turn>> /\ cur' = cur
    BY <1>1 DEF Quiet, pageVars, cur
<1>3. Advances
    BY <1>1, ServingFacts, StutterRests DEF Advances
<1>4. Fresh(view.exercise, turnPhase) /\ cur.lock \notin Handlers
    BY <1>1, ServingFacts, AtWork DEF Serving
<1>5. Fresh(view.exercise, turnPhase)'
    BY <1>1, <1>2, <1>4 DEF Fresh
<1>6. asked.kind = "submit" /\ status = "busy" => cur.phase = "idle"
  <2>1. asked.kind = "submit" => turnPhase = "running-tests" /\ view.exercise # 0
      BY ServingFacts, KindFlow DEF Serving, Near, Submits
  <2>2. cur.lock \in Threads \cup {Free}
      BY ServingFacts DEF Object
  <2> QED  BY <1>1, <1>4, <2>1, <2>2 DEF Fresh, Threads
<1>7. /\ jobs'[req] = Replied(jobs[req], status, NoView)
      /\ status \in Statuses /\ NoView \in View /\ NoView.exercise = 0
    BY <1>1, ServingFacts DEF Reply, Statuses, NoView, View, Phases
<1>8. registry' # 0
    BY <1>1 DEF Serving
<1>9. /\ flow \in PollFlows =>
            \/ Settled(turn.answers)'
            \/ flow = "reading" /\ turn.fallback = "idle" /\ cur'.phase = "idle"
      /\ turnPhase \in {"failed", "timed-out"} => Settled(turn.answers)'
    BY <1>1, <1>2, <1>3, StillSaved
<1>10. SessionInv /\ Shape /\ Near /\ req # Nobody
    BY ServingFacts DEF Serving
<1> QED  BY <1>1, <1>2, <1>4, <1>5, <1>6, <1>7, <1>8, <1>9, <1>10, ReplyNear

(* A view is returned: nothing to continue, or what current has read.      *)
LEMMA ViewingNear ==
    ASSUME Serving, ContinueNothing(req) \/ CurrentReadsPhase(req), Quiet
    PROVE  Near'
<1>1. PICK v \in View :
         /\ Reply(req, "ok", v) /\ asked.kind # "submit" /\ asked.kind # "start"
         /\ UNCHANGED <<sessions, registry, posed, recorded>>
         /\ v.exercise # 0 => cur.node = "await" /\ cur.exercise = v.exercise
         /\ v.phase = cur.phase
         /\ cur.lock \notin Handlers
  <2>1. CASE ContinueNothing(req)
    <3>1. /\ Reply(req, "ok", ViewOf(cur)) /\ asked.kind = "continue" /\ cur.lock = Free
          /\ UNCHANGED <<sessions, registry, posed, recorded>>
        BY <2>1 DEF ContinueNothing, Locking, Entering, asked, cur
    <3>2. /\ ViewOf(cur) \in View /\ ViewOf(cur).phase = cur.phase
          /\ ViewOf(cur).exercise # 0 => cur.node = "await" /\ cur.exercise = ViewOf(cur).exercise
        BY ServingFacts, ViewType DEF ViewOf, AwaitingStudent
    <3>3. Free \notin Handlers
        BY Disjoint DEF Threads
    <3> QED  BY <3>1, <3>2, <3>3
  <2>2. CASE CurrentReadsPhase(req)
    <3>1. /\ Reply(req, "ok", [asked.view EXCEPT !.phase = sessions[asked.session].phase])
          /\ asked.step = "read phase"
          /\ UNCHANGED <<sessions, registry, posed, recorded>>
        BY <2>2 DEF CurrentReadsPhase, At, asked
    <3>2. asked.session = registry /\ asked.kind = "current" /\ cur.lock \notin Handlers
        BY <3>1, ServingFacts, AtWork DEF Serving
    <3>3. asked.view \in View /\ cur.phase \in Phases
        BY ServingFacts DEF Job, Object
    <3> DEFINE v == [asked.view EXCEPT !.phase = cur.phase]
    <3>4. v \in View /\ v.exercise = asked.view.exercise /\ v.phase = cur.phase
        BY <3>3 DEF View
    <3>5. asked.view.exercise # 0 => cur.node = "await" /\ cur.exercise = asked.view.exercise
        BY DEF Serving, Near, TellsExercise
    <3>7. Reply(req, "ok", v)
        BY <3>1, <3>2 DEF cur
    <3> HIDE DEF v
    <3> QED  BY <3>1, <3>2, <3>4, <3>5, <3>7
  <2> QED  BY <2>1, <2>2
<1>2. UNCHANGED <<flow, req, view, turnPhase, turn>> /\ cur' = cur
    BY <1>1 DEF Quiet, pageVars, cur
<1>3. Advances
    BY <1>1, ServingFacts, StutterRests DEF Advances
<1>4. jobs'[req] = Replied(jobs[req], "ok", v) /\ "ok" \in Statuses /\ registry' # 0
    BY <1>1, ServingFacts DEF Reply, Statuses, Serving
<1>5. /\ flow \in PollFlows =>
            \/ Settled(turn.answers)'
            \/ flow = "reading" /\ turn.fallback = "idle" /\ cur'.phase = "idle"
      /\ turnPhase \in {"failed", "timed-out"} => Settled(turn.answers)'
    BY <1>1, <1>2, <1>3, StillSaved
<1>6. SessionInv /\ Shape /\ Near /\ req # Nobody
    BY ServingFacts DEF Serving
<1> QED  BY <1>1, <1>2, <1>4, <1>5, <1>6, ReplyNear

(* One session is replaced, the registry's.                                *)
LEMMA ServingUpdate ==
    ASSUME Serving, NEW r \in Object, sessions' = [sessions EXCEPT ![registry] = r],
           registry' = registry
    PROVE  cur' = r
<1>1. sessions'[registry] = r
    BY ServingFacts
<1> QED  BY <1>1 DEF cur

(* An invocation of the graph ends: it raised, or a session is begun.      *)
LEMMA EndingNear ==
    ASSUME Serving, HandlerRaises(req) \/ StartDone(req), Quiet
    PROVE  Near'
<1>1. PICK status \in {"ok", "broken"}, v \in View :
         /\ Reply(req, status, v) /\ asked.step = "run"
         /\ sessions' = [sessions EXCEPT ![registry].lock = Free]
         /\ UNCHANGED <<registry, posed, recorded>>
         /\ v.exercise # 0 => cur.node = "await" /\ cur.exercise = v.exercise
         /\ status = "ok" => asked.kind = "start"
         /\ status = "broken" => v.exercise = 0 /\ (asked.kind = "start" => cur.node = "pose")
  <2>1. asked.step = "run" => asked.session = registry
      BY ServingFacts, AtWork DEF Serving
  <2>2. CASE HandlerRaises(req)
    <3>1. /\ asked.step = "run" /\ Reply(req, "broken", NoView)
          /\ sessions' = [sessions EXCEPT ![registry].lock = Free]
          /\ UNCHANGED <<registry, posed, recorded>>
          /\ ~ Stops(req)
        BY <2>1, <2>2 DEF HandlerRaises, Running, At, asked
    <3>2. NoView \in View /\ NoView.exercise = 0
        BY DEF NoView, View, Phases
    <3>3. asked.kind = "start" => cur.node = "pose"
      <4>1. asked.kind = "start" => cur.node \in Breakpoints
          BY <2>1, <3>1 DEF Stops, cur, asked
      <4>2. asked.kind = "start" => cur.node \in {"pose", "await"}
        <5>1. Fits(req) /\ req \in Handlers /\ jobs[req] = asked
            BY ServingFacts DEF SessionInv
        <5>2. asked.session = registry /\ sessions[registry] = cur
            BY <2>1, <3>1, ServingFacts
        <5> QED  BY <3>1, <5>1, <5>2 DEF Fits
      <4> QED  BY <4>1, <4>2 DEF Breakpoints
    <3> QED  BY <3>1, <3>2, <3>3
  <2>3. CASE StartDone(req)
    <3>1. /\ asked.step = "run" /\ asked.kind = "start" /\ Reply(req, "ok", ViewOf(cur))
          /\ sessions' = [sessions EXCEPT ![registry].lock = Free]
          /\ UNCHANGED <<registry, posed, recorded>>
        BY <2>1, <2>3 DEF StartDone, At, asked, cur
    <3>2. /\ ViewOf(cur) \in View
          /\ ViewOf(cur).exercise # 0 => cur.node = "await" /\ cur.exercise = ViewOf(cur).exercise
        BY ServingFacts, ViewType DEF ViewOf, AwaitingStudent
    <3> QED  BY <3>1, <3>2
  <2> QED  BY <2>2, <2>3
<1>2. UNCHANGED <<flow, req, view, turnPhase, turn>> /\ registry' # 0
    BY <1>1 DEF Quiet, pageVars, Serving
<1> DEFINE r == [cur EXCEPT !.lock = Free]
<1>3. /\ r \in Object /\ r.lock = Free /\ r.phase = cur.phase /\ r.node = cur.node
      /\ r.exercise = cur.exercise /\ sessions' = [sessions EXCEPT ![registry] = r]
    BY <1>1, ServingFacts DEF Object, cur
<1> HIDE DEF r
<1>4. cur' = r
    BY <1>1, <1>3, ServingUpdate
<1>5. Advances
    BY <1>1, <1>3, ServingFacts, UpdateRests, ZenonT(60) DEF Advances
<1>6. /\ flow \in PollFlows =>
            \/ Settled(turn.answers)'
            \/ flow = "reading" /\ turn.fallback = "idle" /\ cur'.phase = "idle"
      /\ turnPhase \in {"failed", "timed-out"} => Settled(turn.answers)'
    BY <1>1, <1>2, <1>3, <1>4, <1>5, StillSaved
<1>7. status = "ok" \/ Fresh(view.exercise, turnPhase)'
  <2>1. CASE status = "broken" /\ asked.kind = "start"
      BY <1>1, <1>3, <1>4, <2>1, Disjoint DEF Fresh, Threads
  <2>2. CASE status = "broken" /\ asked.kind # "start"
    <3>1. Fresh(view.exercise, turnPhase)
        BY <1>1, <2>2, ServingFacts, AtWork DEF Serving
    <3> QED  BY <1>2, <1>3, <1>4, <3>1, Disjoint DEF Fresh, Threads
  <2> QED  BY <1>1, <2>1, <2>2
<1>8. /\ jobs'[req] = Replied(jobs[req], status, v) /\ status \in Statuses
      /\ cur'.lock = Free /\ cur'.lock \notin Handlers
    BY <1>1, <1>3, <1>4, ServingFacts, Disjoint DEF Reply, Statuses, Threads
<1>9. flow \in PollFlows /\ status = "ok" => FALSE
    BY <1>1, ServingFacts, KindFlow DEF Serving, PollFlows
<1>10. SessionInv /\ Shape /\ Near /\ req # Nobody
    BY ServingFacts DEF Serving
<1> QED  BY <1>1, <1>2, <1>3, <1>4, <1>6, <1>7, <1>8, <1>9, <1>10, ReplyNear

(* A turn is handed to a worker, or cannot be.                             *)
LEMMA HandOverNear ==
    ASSUME Serving, HandOver(req) \/ HandOverFails(req), Quiet
    PROVE  Near'
<1>0. /\ SessionInv /\ Shape /\ Near /\ req # Nobody /\ req \in Handlers /\ req \in Threads
      /\ jobs \in [Threads -> Job] /\ jobs[req] = asked /\ asked \in Job /\ cur \in Object
      /\ turn.answers \in Nat
    BY ServingFacts DEF Serving
<1>1. PICK i \in 1 .. Len(sessions) :
         /\ Handing(req, i) /\ UNCHANGED <<registry, posed, recorded>>
         /\ HandOver(req) => /\ IdleWorkers # {}
                             /\ LET w == CHOOSE w \in IdleWorkers : TRUE
                                IN  /\ sessions' = [sessions EXCEPT ![i].phase = "updating", ![i].lock = w]
                                    /\ jobs' = [jobs EXCEPT ![w] = WorkerJob(i),
                                                            ![req] = Replied(@, "ok", ViewOf(sessions'[i]))]
         /\ HandOverFails(req) => /\ sessions' = [sessions EXCEPT ![i].phase = "updating", ![i].lock = Free,
                                                                   ![i].stranded = TRUE]
                                  /\ Reply(req, "broken", NoView)
  <2>1. CASE HandOver(req) /\ ~ HandOverFails(req)
      BY <2>1, Zenon DEF HandOver
  <2>2. CASE HandOverFails(req) /\ ~ HandOver(req)
      BY <2>2, Zenon DEF HandOverFails
  <2>3. CASE HandOver(req) /\ HandOverFails(req)
    <3>1. \A k : Handing(req, k) => k = asked.session
        BY DEF Handing, asked
    <3> QED  BY <2>3, <3>1, Zenon DEF HandOver, HandOverFails
  <2> QED  BY <2>1, <2>2, <2>3
<1>2. /\ asked.step \in {"run", "hand over"} /\ i = registry
      /\ asked.kind \in {"submit", "continue"}
      /\ asked.kind = "submit" => asked.step = "run" /\ cur.node = "record" /\ cur.exercise = turn.answers
  <2>1. /\ asked.step \in {"run", "hand over"} /\ i = asked.session
        /\ asked.step = "run" => asked.kind = "submit" /\ sessions[i].node = "record"
      BY <1>1 DEF Handing, At, Stops, asked
  <2>2. asked.session = registry /\ (asked.step = "hand over" => asked.kind = "continue")
      BY <1>0, <2>1, AtWork DEF Serving
  <2>3. asked.kind = "submit" /\ asked.step = "run" => cur.exercise = turn.answers
      BY <1>0 DEF Near, Submits
  <2> QED  BY <2>1, <2>2, <2>3 DEF cur
<1>3. PICK status \in {"ok", "broken"}, v \in View, r \in Object :
         /\ jobs'[req] = Replied(jobs[req], status, v)
         /\ sessions' = [sessions EXCEPT ![registry] = r]
         /\ r.node = cur.node /\ r.exercise = cur.exercise /\ r.lock \in Workers \cup {Free}
         /\ v.exercise # 0 => cur.node = "await" /\ cur.exercise = v.exercise
         /\ status = "ok" => v.phase = "updating"
         /\ status = "broken" => r.lock = Free
  <2>1. CASE HandOver(req)
    <3>0. PICK w \in Workers :
             /\ sessions' = [sessions EXCEPT ![registry].phase = "updating", ![registry].lock = w]
             /\ jobs' = [jobs EXCEPT ![w] = WorkerJob(i),
                                     ![req] = Replied(@, "ok", ViewOf(sessions'[registry]))]
        BY <1>1, <1>2, <2>1, Zenon DEF IdleWorkers
    <3>1. w # req /\ w \in Threads
        BY <1>0, Disjoint DEF Threads
    <3> DEFINE r == [cur EXCEPT !.phase = "updating", !.lock = w]
    <3>2. /\ r \in Object /\ r.lock = w /\ r.phase = "updating" /\ r.node = cur.node
          /\ r.exercise = cur.exercise /\ sessions' = [sessions EXCEPT ![registry] = r]
        BY <1>0, <3>0, <3>1 DEF Object, Phases, cur
    <3> HIDE DEF r
    <3>3. sessions'[registry] = r
        BY <3>2, ServingFacts
    <3> DEFINE v == ViewOf(r)
    <3>4. /\ v \in View /\ v.phase = "updating"
          /\ v.exercise # 0 => cur.node = "await" /\ cur.exercise = v.exercise
        BY <3>2, ViewType DEF ViewOf, AwaitingStudent
    <3>5. jobs' = [jobs EXCEPT ![w] = WorkerJob(i), ![req] = Replied(@, "ok", v)]
        BY <3>0, <3>3
    <3> HIDE DEF v
    <3>6. jobs'[req] = Replied(jobs[req], "ok", v)
        BY <1>0, <3>1, <3>5
    <3> QED  BY <3>2, <3>4, <3>6
  <2>2. CASE HandOverFails(req)
    <3> DEFINE r == [cur EXCEPT !.phase = "updating", !.lock = Free, !.stranded = TRUE]
    <3>0. sessions' = [sessions EXCEPT ![registry].phase = "updating", ![registry].lock = Free,
                                       ![registry].stranded = TRUE]
        BY <1>1, <1>2, <2>2
    <3>1. /\ r \in Object /\ r.lock = Free /\ r.node = cur.node
          /\ r.exercise = cur.exercise /\ sessions' = [sessions EXCEPT ![registry] = r]
        BY <1>0, <3>0 DEF Object, Phases, cur
    <3> HIDE DEF r
    <3>2. NoView \in View /\ NoView.exercise = 0 /\ jobs'[req] = Replied(jobs[req], "broken", NoView)
        BY <1>0, <1>1, <2>2 DEF NoView, View, Phases, Reply
    <3> QED  BY <3>1, <3>2
  <2> QED  BY <2>1, <2>2
<1>4. cur' = r
    BY <1>1, <1>3, ServingUpdate
<1>5. Advances
    BY <1>0, <1>1, <1>2, <1>3, UpdateRests DEF Advances, cur
<1>6. UNCHANGED <<flow, req, view, turnPhase, turn>> /\ registry' # 0
    BY <1>1 DEF Quiet, pageVars, Serving
<1>7. /\ asked.kind = "submit" => Settled(turn.answers)'
      /\ flow \in PollFlows => Settled(turn.answers)'
      /\ turnPhase \notin {"failed", "timed-out"}
      /\ asked.kind = "submit" => turnPhase = "running-tests"
  <2>1. asked.kind = "submit" => Settled(turn.answers)
      BY <1>0, <1>2, ServingFacts DEF Near, Submits, Settled, cur
  <2>2. /\ asked.kind = "submit" => flow = "submitting" /\ turnPhase = "running-tests"
        /\ asked.kind = "continue" => flow \in {"continuing", "retrying"}
      BY <1>0, KindFlow
  <2>3. flow \in PollFlows => turnPhase = "updating-plan"
      BY <1>0 DEF Shape, Controls
  <2>4. flow \in PollFlows => Settled(turn.answers)
      BY <1>0, <1>2, <2>1, <2>2 DEF Near, Saved
  <2> QED  BY <1>2, <1>5, <1>6, <2>1, <2>2, <2>3, <2>4, ServingSettled DEF PollFlows
<1>8. status = "ok" \/ Fresh(view.exercise, turnPhase)'
  <2>1. CASE status = "broken"
    <3>1. Fresh(view.exercise, turnPhase)
        BY <1>0, <1>2, AtWork
    <3> QED  BY <1>3, <1>4, <1>6, <2>1, <3>1, Disjoint DEF Fresh, Threads
  <2> QED  BY <2>1
<1>9. /\ cur'.lock \notin Handlers /\ status \in Statuses
      /\ status = "broken" => cur'.lock = Free
    BY <1>3, <1>4, Disjoint DEF Statuses, Threads
<1> QED  BY <1>0, <1>2, <1>3, <1>4, <1>6, <1>7, <1>8, <1>9, ReplyNear

(* The awaited handler goes on without an answer.                          *)
LEMMA GoingNear ==
    ASSUME Serving, UNCHANGED <<flow, req, view, turnPhase, turn, registry>>,
           NEW step \in {"run", "hand over", "read phase"},
           asked'.step = step, asked'.kind = asked.kind, asked'.session = registry,
           asked'.view.exercise # 0 =>
               step = "read phase" /\ cur'.node = "await" /\ cur'.exercise = asked'.view.exercise,
           step = "read phase" => asked.kind = "current" /\ cur'.lock \notin Handlers,
           step = "hand over" => asked.kind = "continue",
           step # "read phase" => cur'.lock = req,
           step = "run" /\ asked.kind = "submit" => cur'.exercise = turn.answers,
           asked.kind = "start" \/ (Advances /\ cur'.phase = cur.phase),
           (asked.kind = "start" /\ step = "run") \/ Fresh(view.exercise, turnPhase)'
    PROVE  Near'
<1>0. /\ SessionInv /\ Shape /\ Near /\ req # Nobody /\ ~ Replying' /\ ~ OK'
      /\ UNCHANGED <<flow, req, view, turnPhase, turn, registry>>
    BY ServingFacts DEF Serving, Replying, OK
<1>1. Newer' \/ Fresh(view.exercise, turnPhase)'
    BY <1>0 DEF Newer
<1>2. Served'
    BY <1>0 DEF Served
<1>3. TellsExercise'
    BY <1>0 DEF TellsExercise
<1>4. TellsPhase' /\ TellsStatus'
    BY <1>0 DEF TellsPhase, TellsStatus
<1>5. Submits'
    BY <1>0 DEF Near, Submits
<1>6. Saved'
  <2>1. CASE asked.kind = "start"
      BY <1>0, <2>1, KindFlow DEF Saved, PollFlows
  <2>2. CASE Advances /\ cur'.phase = cur.phase
      BY <1>0, <2>2, StillSaved DEF Saved
  <2> QED  BY <2>1, <2>2
<1> QED  BY <1>1, <1>2, <1>3, <1>4, <1>5, <1>6 DEF Near

(* A request that may begins its work: it takes the lock.                  *)
LEMMA TakingNear ==
    ASSUME Serving, BeginTutoring(req) \/ Submit(req) \/ ContinueTurn(req), Quiet
    PROVE  Near'
<1>0. /\ SessionInv /\ Shape /\ Near /\ req # Nobody /\ req \in Handlers /\ req \in Threads
      /\ jobs \in [Threads -> Job] /\ jobs[req] = asked /\ asked \in Job /\ cur \in Object
      /\ turn.answers \in Nat /\ registry \in 1 .. Len(sessions) /\ sessions[registry] = cur
    BY ServingFacts DEF Serving
<1>1. PICK step \in {"run", "hand over"}, r \in Object :
         /\ asked.step = "enter" /\ cur.lock = Free
         /\ jobs' = [jobs EXCEPT ![req].step = step, ![req].session = registry]
         /\ sessions' = [sessions EXCEPT ![registry] = r]
         /\ UNCHANGED <<registry, posed, recorded>>
         /\ r.lock = req /\ r.phase = cur.phase
         /\ step = "run" => asked.kind \in {"start", "submit"}
         /\ step = "hand over" => asked.kind = "continue" /\ r.node = cur.node /\ r.exercise = cur.exercise
         /\ asked.kind = "submit" => cur.node = "await" /\ r.node = "grade" /\ r.exercise = cur.exercise
         /\ asked.kind = "start" => BeginTutoring(req)
  <2>1. CASE BeginTutoring(req)
    <3>1. /\ asked.kind = "start" /\ asked.step = "enter" /\ cur.lock = Free
          /\ sessions' = [sessions EXCEPT ![registry].lock = req, ![registry].node = "pose",
                                          ![registry].exercise = 0]
          /\ jobs' = [jobs EXCEPT ![req].step = "run", ![req].session = registry]
          /\ UNCHANGED <<registry, posed, recorded>>
        BY <1>0, <2>1 DEF BeginTutoring, Locking, Entering
    <3> DEFINE r == [cur EXCEPT !.lock = req, !.node = "pose", !.exercise = 0]
    <3>2. /\ r \in Object /\ r.lock = req /\ r.phase = cur.phase
          /\ sessions' = [sessions EXCEPT ![registry] = r]
        BY <1>0, <3>1 DEF Object, Nodes, Breakpoints
    <3> HIDE DEF r
    <3> QED  BY <2>1, <3>1, <3>2
  <2>2. CASE Submit(req)
    <3>1. /\ asked.kind = "submit" /\ asked.step = "enter" /\ cur.lock = Free /\ cur.node = "await"
          /\ sessions' = [sessions EXCEPT ![registry].lock = req, ![registry].node = "grade"]
          /\ jobs' = [jobs EXCEPT ![req].step = "run", ![req].session = registry]
          /\ UNCHANGED <<registry, posed, recorded>>
        BY <1>0, <2>2 DEF Submit, Locking, Entering, AwaitingStudent
    <3> DEFINE r == [cur EXCEPT !.lock = req, !.node = "grade"]
    <3>2. /\ r \in Object /\ r.lock = req /\ r.phase = cur.phase /\ r.node = "grade"
          /\ r.exercise = cur.exercise
          /\ sessions' = [sessions EXCEPT ![registry] = r]
        BY <1>0, <3>1 DEF Object, Nodes, Breakpoints
    <3> HIDE DEF r
    <3> QED  BY <3>1, <3>2
  <2>3. CASE ContinueTurn(req)
    <3>1. /\ asked.kind = "continue" /\ asked.step = "enter" /\ cur.lock = Free
          /\ sessions' = [sessions EXCEPT ![registry].lock = req]
          /\ jobs' = [jobs EXCEPT ![req].step = "hand over", ![req].session = registry]
          /\ UNCHANGED <<registry, posed, recorded>>
        BY <1>0, <2>3 DEF ContinueTurn, Locking, Entering
    <3> DEFINE r == [cur EXCEPT !.lock = req]
    <3>2. /\ r \in Object /\ r.lock = req /\ r.phase = cur.phase /\ r.node = cur.node
          /\ r.exercise = cur.exercise
          /\ sessions' = [sessions EXCEPT ![registry] = r]
        BY <1>0, <3>1 DEF Object
    <3> HIDE DEF r
    <3> QED  BY <3>1, <3>2
  <2> QED  BY <2>1, <2>2, <2>3
<1>2. cur' = r
    BY <1>1, ServingUpdate
<1>3. UNCHANGED <<flow, req, view, turnPhase, turn, registry>>
    BY <1>1 DEF Quiet, pageVars
<1>4. /\ asked'.step = step /\ asked'.kind = asked.kind /\ asked'.session = registry
      /\ asked'.view = asked.view
  <2> DEFINE j == [asked EXCEPT !.step = step, !.session = registry]
  <2>1. /\ j.step = step /\ j.kind = asked.kind /\ j.session = registry /\ j.view = asked.view
        /\ jobs' = [jobs EXCEPT ![req] = j]
      BY <1>0, <1>1 DEF Job
  <2> HIDE DEF j
  <2>2. jobs'[req] = j
      BY <1>0, <2>1
  <2> QED  BY <1>3, <2>1, <2>2 DEF asked
<1>5. asked'.view.exercise = 0
    BY <1>0, <1>1, <1>4 DEF Near, TellsExercise
<1>6. Fresh(view.exercise, turnPhase)
    BY <1>0, <1>1, AtWork
<1>7. asked.kind = "submit" => r.exercise = turn.answers
    BY <1>0, <1>1, <1>6 DEF Near, Submits, Fresh
<1>8. asked.kind = "start" \/ (Advances /\ cur'.phase = cur.phase)
  <2>1. asked.kind # "start" => Advances
    <3>1. asked.kind # "start" => ~ BeginTutoring(req)
        BY DEF BeginTutoring, Locking, Entering, asked
    <3>2. HandlerStep(req)
        BY DEF HandlerStep
    <3> QED  BY <1>0, <3>1, <3>2, HandlerMoves
  <2> QED  BY <1>1, <1>2, <2>1
<1>9. (asked.kind = "start" /\ step = "run") \/ Fresh(view.exercise, turnPhase)'
  <2>1. CASE asked.kind # "start"
    <3>1. (r.node = cur.node /\ r.exercise = cur.exercise) \/ r.node = "grade"
        BY <1>1, <2>1
    <3> QED  BY <1>0, <1>1, <1>2, <1>3, <1>6, <3>1, Disjoint DEF Fresh
  <2>2. CASE asked.kind = "start"
      BY <1>1, <2>2
  <2> QED  BY <2>1, <2>2
<1> QED  BY <1>1, <1>2, <1>3, <1>4, <1>5, <1>7, <1>8, <1>9, GoingNear

(* The session is read without its lock.                                   *)
LEMMA ReadingNear ==
    ASSUME Serving, CurrentReadsGraph(req), Quiet
    PROVE  Near'
<1>0. /\ SessionInv /\ Shape /\ Near /\ req # Nobody /\ req \in Threads
      /\ jobs \in [Threads -> Job] /\ jobs[req] = asked /\ asked \in Job /\ cur \in Object
      /\ registry \in 1 .. Len(sessions) /\ sessions[registry] = cur
    BY ServingFacts DEF Serving
<1>1. /\ asked.kind = "current" /\ asked.step = "enter"
      /\ jobs' = [jobs EXCEPT ![req].step = "read phase", ![req].session = registry,
                              ![req].view = ViewOf(cur)]
      /\ UNCHANGED <<sessions, registry, posed, recorded>>
    BY <1>0 DEF CurrentReadsGraph, Entering
<1>2. UNCHANGED <<flow, req, view, turnPhase, turn, registry>> /\ cur' = cur
    BY <1>1 DEF Quiet, pageVars, cur
<1>3. /\ asked'.step = "read phase" /\ asked'.kind = asked.kind /\ asked'.session = registry
      /\ asked'.view = ViewOf(cur)
  <2> DEFINE j == [asked EXCEPT !.step = "read phase", !.session = registry, !.view = ViewOf(cur)]
  <2>1. /\ j.step = "read phase" /\ j.kind = asked.kind /\ j.session = registry
        /\ j.view = ViewOf(cur) /\ jobs' = [jobs EXCEPT ![req] = j]
      BY <1>0, <1>1 DEF Job
  <2> HIDE DEF j
  <2>2. jobs'[req] = j
      BY <1>0, <2>1
  <2> QED  BY <1>2, <2>1, <2>2 DEF asked
<1>4. ViewOf(cur).exercise # 0 => cur.node = "await" /\ cur.exercise = ViewOf(cur).exercise
    BY DEF ViewOf, AwaitingStudent
<1>5. Fresh(view.exercise, turnPhase) /\ cur.lock \notin Handlers
    BY <1>0, <1>1, AtWork
<1>6. Advances
    BY <1>0, <1>1, StutterRests DEF Advances
<1>7. Fresh(view.exercise, turnPhase)'
    BY <1>2, <1>5 DEF Fresh
<1> QED  BY <1>1, <1>2, <1>3, <1>4, <1>5, <1>6, <1>7, GoingNear

(* The graph runs a node for the request.                                  *)
LEMMA NodeNear ==
    ASSUME Serving, PoseNode(req) \/ GradeNode(req), Quiet
    PROVE  Near'
<1>0. /\ SessionInv /\ Shape /\ Near /\ req # Nobody /\ req \in Handlers /\ req \in Threads
      /\ jobs \in [Threads -> Job] /\ jobs[req] = asked /\ asked \in Job /\ cur \in Object
      /\ registry \in 1 .. Len(sessions) /\ sessions[registry] = cur
    BY ServingFacts DEF Serving
<1>1. asked.step = "run"
    BY DEF PoseNode, GradeNode, NodeDone, At, asked
<1>2. asked.session = registry /\ cur.lock = req
    BY <1>0, <1>1, AtWork
<1>3. \/ asked.kind = "start" /\ cur.node \in {"pose", "await"}
      \/ asked.kind = "submit" /\ cur.node \in {"grade", "record"}
    BY <1>0, <1>1, <1>2 DEF SessionInv, Fits
<1>4. PICK r \in Object :
         /\ sessions' = [sessions EXCEPT ![registry] = r]
         /\ r.lock = req /\ r.phase = cur.phase
         /\ UNCHANGED <<jobs, registry>>
         /\ asked.kind = "submit" => cur.node = "grade" /\ r.node = "record" /\ r.exercise = cur.exercise
  <2>1. CASE PoseNode(req)
    <3>1. /\ cur.node = "pose" /\ UNCHANGED <<jobs, registry>>
          /\ sessions' = [sessions EXCEPT ![registry].node = "await", ![registry].exercise = posed + 1]
        BY <1>0, <1>2, <2>1 DEF PoseNode, NodeDone
    <3> DEFINE r == [cur EXCEPT !.node = "await", !.exercise = posed + 1]
    <3>0. posed + 1 \in Nat /\ "await" \in Nodes
        BY <1>0 DEF Nodes, SessionInv, TypeInv
    <3>2. /\ r \in Object /\ r.lock = req /\ r.phase = cur.phase
          /\ sessions' = [sessions EXCEPT ![registry] = r]
        BY <1>0, <1>2, <3>0, <3>1 DEF Object
    <3> HIDE DEF r
    <3> QED  BY <1>3, <3>1, <3>2
  <2>2. CASE GradeNode(req)
    <3>1. /\ cur.node = "grade" /\ UNCHANGED <<jobs, registry>>
          /\ sessions' = [sessions EXCEPT ![registry].node = "record"]
        BY <1>0, <1>2, <2>2 DEF GradeNode, NodeDone
    <3> DEFINE r == [cur EXCEPT !.node = "record"]
    <3>2. /\ r \in Object /\ r.lock = req /\ r.phase = cur.phase
          /\ r.node = "record" /\ r.exercise = cur.exercise
          /\ sessions' = [sessions EXCEPT ![registry] = r]
        BY <1>0, <1>2, <3>1 DEF Object, Nodes, Breakpoints
    <3> HIDE DEF r
    <3> QED  BY <3>1, <3>2
  <2> QED  BY <2>1, <2>2
<1>5. cur' = r
    BY <1>4, ServingUpdate
<1>6. UNCHANGED <<flow, req, view, turnPhase, turn, registry>> /\ asked' = asked
    BY <1>4 DEF Quiet, pageVars, asked
<1>7. asked.view.exercise = 0
    BY <1>0, <1>1 DEF Near, TellsExercise
<1>8. asked.kind = "submit" => r.exercise = turn.answers
    BY <1>0, <1>1, <1>4 DEF Near, Submits
<1>9. asked.kind = "start" \/ Fresh(view.exercise, turnPhase)'
  <2>1. asked.kind = "submit" => Fresh(view.exercise, turnPhase)
      BY <1>0, <1>1, AtWork
  <2> QED  BY <1>0, <1>3, <1>4, <1>5, <1>6, <2>1, Disjoint DEF Fresh
<1>10. Advances
    BY <1>0, NodeMoves
<1> QED  BY <1>1, <1>2, <1>3, <1>4, <1>5, <1>6, <1>7, <1>8, <1>9, <1>10, GoingNear

(* A new session takes the registry.                                       *)
LEMMA OpeningNear ==
    ASSUME SessionInv, Shape, req # Nobody, OpenSession(req), Quiet
    PROVE  Near'
<1>0. /\ req \in Threads /\ jobs \in [Threads -> Job] /\ jobs[req] = asked
      /\ sessions \in Seq(Object)
    BY DEF SessionInv, TypeInv, Threads, asked
<1>1. /\ asked.kind = "open" /\ sessions' = Append(sessions, NewSession)
      /\ registry' = Len(sessions') /\ Reply(req, "ok", NoView)
    BY DEF OpenSession, Entering, asked
<1>2. registry' = Len(sessions) + 1 /\ registry' # 0 /\ cur' = NewSession
    BY <1>0, <1>1, Constants DEF cur
<1>3. /\ UNCHANGED <<flow, req, view, turnPhase, turn>>
      /\ jobs'[req] = Replied(jobs[req], "ok", NoView)
      /\ NoView \in View /\ "ok" \in Statuses /\ NoView.exercise = 0
    BY <1>0, <1>1 DEF Quiet, pageVars, Reply, NoView, View, Phases, Statuses
<1>4. flow \notin PollFlows /\ turnPhase \notin {"failed", "timed-out"}
    BY <1>0, <1>1, KindFlow
<1>5. cur'.lock \notin Handlers
    BY <1>2, Disjoint DEF NewSession, Threads
<1> QED  BY <1>0, <1>1, <1>2, <1>3, <1>4, <1>5, ReplyNear

(* A handler leaves the page in step.                                      *)
LEMMA HandlerInStep ==
    ASSUME TurnInv, Shape, posed <= MaxExercises, InStep,
           NEW h \in Handlers, HandlerStep(h), Quiet
    PROVE  InStep'
<1>0. SessionInv /\ UNCHANGED <<flow, req, view, turnPhase, turn, abandoned>>
    BY DEF TurnInv, Quiet, pageVars
<1> SUFFICES ASSUME ~ abandoned PROVE Alone' /\ (registry' # 0 => Near')
    BY <1>0 DEF InStep
<1>1. Alone
    BY DEF InStep
<1>2. h = req /\ \A u \in Handlers : u # req => jobs'[u] = jobs[u]
    BY <1>0, <1>1, HandlerJobs DEF Alone
<1>3. Alone'
    BY <1>0, <1>1, <1>2 DEF Alone
<1>4. req # Nobody
    BY <1>2, Disjoint
<1>5. CASE registry # 0
  <2>1. Near
      BY <1>5 DEF InStep
  <2>2. Serving
      BY <1>4, <1>5, <2>1 DEF Serving
  <2>3. ~ MissingSession(req)
      BY <1>5 DEF MissingSession, Entering
  <2>4. HandlerStep(req)
      BY <1>2
  <2>5. CASE Busy(req) \/ SubmitNothingAwaited(req)
      BY <1>3, <2>2, <2>5, RefusingNear
  <2>6. CASE ContinueNothing(req) \/ CurrentReadsPhase(req)
      BY <1>3, <2>2, <2>6, ViewingNear
  <2>7. CASE HandlerRaises(req) \/ StartDone(req)
      BY <1>3, <2>2, <2>7, EndingNear
  <2>8. CASE HandOver(req) \/ HandOverFails(req)
      BY <1>3, <2>2, <2>8, HandOverNear
  <2>9. CASE BeginTutoring(req) \/ Submit(req) \/ ContinueTurn(req)
      BY <1>3, <2>2, <2>9, TakingNear
  <2>10. CASE CurrentReadsGraph(req)
      BY <1>3, <2>2, <2>10, ReadingNear
  <2>11. CASE PoseNode(req) \/ GradeNode(req)
      BY <1>3, <2>2, <2>11, NodeNear
  <2>12. CASE OpenSession(req)
      BY <1>0, <1>3, <1>4, <2>12, OpeningNear
  <2> QED  BY <2>3, <2>4, <2>5, <2>6, <2>7, <2>8, <2>9, <2>10, <2>11, <2>12 DEF HandlerStep
<1>6. CASE registry = 0
  <2>1. CASE ~ OpenSession(h)
    <3>1. registry' = registry
        BY <2>1 DEF HandlerStep, MissingSession, Busy, BeginTutoring, Submit,
                    SubmitNothingAwaited, ContinueTurn, ContinueNothing, CurrentReadsGraph,
                    CurrentReadsPhase, PoseNode, GradeNode, HandlerRaises, StartDone, HandOver,
                    HandOverFails
    <3> QED  BY <1>3, <1>6, <3>1
  <2>2. CASE OpenSession(h)
      BY <1>0, <1>2, <1>3, <1>4, <2>2, OpeningNear
  <2> QED  BY <2>1, <2>2
<1> QED  BY <1>5, <1>6

(* A restart does: there is no session any more.                           *)
LEMMA RestartInStep ==
    ASSUME SessionInv, InStep, ServerRestarts
    PROVE  InStep'
<1>1. registry' = 0 /\ UNCHANGED <<req, abandoned>>
    BY DEF ServerRestarts, Restart, pageVars
<1>2. \A h \in Handlers : jobs'[h].step # "idle" => jobs[h].step # "idle"
    BY RestartJobs DEF ServerRestarts
<1> QED  BY <1>1, <1>2 DEF InStep, Alone

LEMMA InitInStep == PageInit => InStep
    BY DEF PageInit, Init, InStep, Alone, Idle, Threads

-----------------------------------------------------------------------------
(* The page keeps itself in step.                                          *)

(* It takes its answer, and has another request with the server or none.   *)
LEMMA MovingNear ==
    ASSUME SessionInv, Near, req = Nobody \/ Replying,
           UNCHANGED <<sessions, registry, recorded>>,
           req' = Nobody \/ (asked'.step = "enter" /\ asked'.view.exercise = 0),
           Fresh(view'.exercise, turnPhase'),
           req' # Nobody /\ asked'.kind = "submit" =>
               /\ view'.exercise # 0 /\ turn'.answers = view'.exercise
               /\ asked'.shown = view'.exercise,
           flow' \in PollFlows =>
               \/ Settled(turn'.answers)
               \/ flow' = "reading" /\ turn'.fallback = "idle" /\ cur.phase = "idle",
           turnPhase' \in {"failed", "timed-out"} => Settled(turn'.answers)
    PROVE  Near'
<1>1. cur' = cur /\ ~ Replying' /\ ~ OK' /\ cur.lock \notin Handlers
    BY DEF cur, Replying, OK, Near, Served
<1>2. Fresh(view.exercise, turnPhase)'
    BY <1>1 DEF Fresh
<1>3. Served' /\ TellsExercise' /\ TellsPhase' /\ TellsStatus'
    BY <1>1 DEF Served, TellsExercise, TellsPhase, TellsStatus
<1>4. Submits'
    BY <1>1 DEF Submits
<1>5. Settled(turn'.answers) => Settled(turn.answers)'
    BY DEF Settled
<1>6. Saved'
    BY <1>1, <1>5 DEF Saved
<1> QED  BY <1>2, <1>3, <1>4, <1>6 DEF Near

LEMMA SendInStep ==
    ASSUME SessionInv, InStep, req = Nobody \/ Replying,
           NEW kind \in Kinds, NEW next, Send(kind, next),
           ~ abandoned /\ registry # 0 =>
               /\ Fresh(view'.exercise, turnPhase')
               /\ kind = "submit" => view' = view /\ view.exercise # 0 /\ turn'.answers = view.exercise
               /\ next \in PollFlows =>
                     \/ Settled(turn'.answers)
                     \/ next = "reading" /\ turn'.fallback = "idle" /\ cur.phase = "idle"
               /\ turnPhase' \in {"failed", "timed-out"} => Settled(turn'.answers)
    PROVE  InStep'
<1>1. /\ req' # Nobody /\ flow' = next
      /\ asked'.step = "enter" /\ asked'.kind = kind /\ asked'.view.exercise = 0
      /\ kind = "submit" => asked'.shown = view.exercise
      /\ \A h \in Handlers : h # req' =>
            IF h = req THEN jobs'[h].step = "idle" ELSE jobs'[h] = jobs[h]
      /\ UNCHANGED <<sessions, registry, recorded, abandoned>>
    BY Sending DEF asked
<1>2. Alone => Alone'
    BY <1>1 DEF Alone
<1>3. ~ abandoned /\ registry # 0 => Near'
    BY <1>1, MovingNear DEF InStep
<1> QED  BY <1>1, <1>2, <1>3 DEF InStep

LEMMA SettleInStep ==
    ASSUME SessionInv, InStep, req = Nobody \/ Replying,
           NEW next, Settle(next),
           ~ abandoned /\ registry # 0 =>
               /\ Fresh(view'.exercise, turnPhase')
               /\ next \in PollFlows => Settled(turn'.answers)
               /\ turnPhase' \in {"failed", "timed-out"} => Settled(turn'.answers)
    PROVE  InStep'
<1>1. /\ req' = Nobody /\ flow' = next
      /\ \A h \in Handlers : jobs'[h] = jobs[h] \/ (h = req /\ jobs'[h].step = "idle")
      /\ \A h \in Handlers : h = req => jobs'[h].step = "idle"
      /\ UNCHANGED <<sessions, registry, recorded, abandoned>>
    BY Settling
<1>2. Alone => Alone'
    BY <1>1 DEF Alone
<1>3. ~ abandoned /\ registry # 0 => Near'
    BY <1>1, MovingNear DEF InStep
<1> QED  BY <1>1, <1>2, <1>3 DEF InStep

(* What a page with an answer in hand, or none, knows.                     *)
LEMMA Knowing ==
    ASSUME SessionInv, Shape, Near, req = Nobody \/ Replying
    PROVE  /\ ~ OK => Fresh(view.exercise, turnPhase)
           /\ OK => Told = asked.view /\ (Told.exercise # 0 =>
                       cur.node = "await" /\ cur.exercise = Told.exercise)
           /\ Replying => Status = asked.status /\ Status \in {"ok", "busy", "broken", "refused"}
           /\ Replying /\ Status \in {"broken", "refused"} => cur.lock = Free
    BY DEF Near, Newer, OK, Replying, Told, Status, TellsExercise, TellsStatus, asked

(* What is fresh stays so under controls that promise no more.             *)
LEMMA FreshEnough ==
    ASSUME NEW v, NEW p, NEW q, Fresh(v, p),
           \/ q \notin {"idle", "running-tests"}
           \/ p \in {"idle", "running-tests"}
           \/ cur.lock \notin Workers
    PROVE  Fresh(v, q)
    BY DEF Fresh

(* A turn ends with the controls of a phase.                               *)
LEMMA EndingTurn ==
    ASSUME Shape, NEW phase \in {"idle", "failed", "timed-out"}, EndTurn(phase)
    PROVE  turnPhase' = phase /\ (phase # "idle" => turn'.answers = turn.answers)
    BY Ending

(* pollTurn with the view of a good answer.                                *)
LEMMA PollInStep ==
    ASSUME SessionInv, Shape, InStep, Replying, flow \in PollFlows \cup {"submitting"},
           ~ abandoned /\ registry # 0 => Status = "ok", PollTurn(Told)
    PROVE  InStep'
<1>1. ~ abandoned /\ registry # 0 => OK
    BY DEF OK, Replying, Status, asked
<1>2. Told \in View /\ asked.kind \in {"submit", "current", "continue"}
  <2>1. Told \in View
      BY ToldType DEF Replying
  <2>2. asked.kind = Asking(flow) /\ flow # "sleeping"
      BY DEF Shape, Controls, Awaited, Replying, asked
  <2> QED  BY <2>1, <2>2 DEF Asking, PollFlows
<1>3. ASSUME ~ abandoned, registry # 0
      PROVE  /\ \A q \in TurnPhases : q = "idle" => (Told.phase = "idle" => Fresh(Told.exercise, q))
             /\ \A q \in TurnPhases : q \notin {"idle", "running-tests"} => Fresh(Told.exercise, q)
             /\ Told.phase # "idle" => Settled(turn.answers)
  <2>1. Near
      BY <1>3 DEF InStep
  <2>2. Told = asked.view /\ (Told.exercise # 0 =>
           cur.node = "await" /\ cur.exercise = Told.exercise)
      BY <1>1, <1>3, <2>1, Knowing
  <2>3. Told.phase = "idle" => cur.phase = "idle"
      BY <1>1, <1>2, <1>3, <2>1, <2>2 DEF Near, TellsPhase
  <2>4. Told.phase # "idle" => Settled(turn.answers)
    <3>1. CASE flow = "submitting"
      <4>1. asked.kind = "submit" /\ req # Nobody
          BY <3>1 DEF Shape, Awaited, Asking, Replying, asked
      <4> QED  BY <1>1, <1>3, <2>1, <4>1 DEF Near, Submits
    <3>2. CASE flow \in PollFlows
        BY <1>1, <1>3, <2>1, <2>2, <3>2 DEF Near, Saved
    <3> QED  BY <3>1, <3>2
  <2> QED  BY <2>2, <2>3, <2>4 DEF Fresh, Breakpoints
<1>4. CASE Told.phase = "idle" /\ ApplyCompletedTurn(Told)
  <2>1. Settle("rest") /\ view' = Told /\ turnPhase' = "idle"
      BY <1>4, EndingTurn DEF ApplyCompletedTurn, Show
  <2> QED  BY <1>3, <1>4, <2>1, SettleInStep DEF PollFlows, TurnPhases
<1>5. CASE /\ Told.phase # "idle"
           /\ Send("continue", "continuing")
           /\ view' = Told /\ turnPhase' = "updating-plan"
           /\ turn' = [turn EXCEPT !.mayContinue = FALSE]
  <2>1. turn'.answers = turn.answers
      BY <1>5, TurnFacts DEF TurnRecord
  <2> QED  BY <1>3, <1>5, <2>1, SendInStep DEF Kinds, TurnPhases
<1>6. ASSUME NEW phase \in {"failed", "timed-out"}, Told.phase # "idle", Show(Told, phase)
      PROVE  InStep'
  <2>1. Settle("rest") /\ view' = Told /\ turnPhase' = phase /\ turn'.answers = turn.answers
      BY <1>6, EndingTurn DEF Show
  <2> QED  BY <1>3, <1>6, <2>1, SettleInStep DEF PollFlows, TurnPhases
<1>7. CASE /\ Told.phase # "idle" /\ Settle("sleeping")
           /\ view' = Told /\ turnPhase' = "updating-plan" /\ UNCHANGED turn
    BY <1>3, <1>7, SettleInStep DEF TurnPhases
<1> QED  BY <1>4, <1>5, <1>6, <1>7 DEF PollTurn

(* The page goes back to the controls it had.                              *)
LEMMA FailInStep ==
    ASSUME SessionInv, Shape, InStep, Replying, Status # "ok", Fail,
           ~ abandoned /\ registry # 0 =>
               flow \notin PollFlows \/ cur.lock = Free
    PROVE  InStep'
<1>1. ~ OK /\ turn.fallback \in {"idle", "failed", "timed-out"}
    BY TurnFacts DEF OK, Replying, Status, asked
<1>2. /\ Settle("rest") /\ UNCHANGED view /\ turnPhase' = turn.fallback
      /\ turn.fallback # "idle" => turn'.answers = turn.answers
    BY <1>1, EndingTurn DEF Fail
<1>3. ASSUME ~ abandoned, registry # 0
      PROVE  /\ Fresh(view.exercise, turn.fallback)
             /\ turn.fallback # "idle" => Settled(turn.answers)
  <2>1. Near
      BY <1>3 DEF InStep
  <2>2. Fresh(view.exercise, turnPhase)
      BY <1>1, <2>1, Knowing
  <2>3. CASE flow \in PollFlows
    <3>1. cur.lock \notin Workers
        BY <1>3, <2>3, Disjoint DEF Threads
    <3>2. turn.fallback # "idle" => Settled(turn.answers)
        BY <2>1, <2>3 DEF Near, Saved
    <3> QED  BY <2>2, <3>1, <3>2, FreshEnough
  <2>4. CASE flow \notin PollFlows
    <3>1. turn.fallback = "idle" /\ turnPhase \in {"idle", "running-tests"}
        BY <2>4, <1>1 DEF Shape, Controls, Flows, PollFlows, Replying
    <3> QED  BY <2>2, <3>1, FreshEnough
  <2> QED  BY <2>3, <2>4
<1> QED  BY <1>1, <1>2, <1>3, SettleInStep DEF PollFlows

(* It asks where the turn stands, of a session whose turn was handed over, *)
(* or that was busy with the one before.                                   *)
LEMMA AskInStep ==
    ASSUME SessionInv, Shape, InStep, PollSession, req = Nobody \/ (Replying /\ Status # "ok"),
           ~ abandoned /\ registry # 0 =>
               Settled(turn.answers) \/ (turn.fallback = "idle" /\ cur.phase = "idle")
    PROVE  InStep'
<1>1. ~ OK
    BY DEF OK, Replying, Status, asked
<1>2. /\ Send("current", "reading") /\ turnPhase' = "updating-plan" /\ UNCHANGED <<view, turn>>
    BY DEF PollSession
<1>3. ~ abandoned /\ registry # 0 => Fresh(view.exercise, "updating-plan")
  <2> SUFFICES ASSUME ~ abandoned, registry # 0 PROVE Fresh(view.exercise, "updating-plan")
      OBVIOUS
  <2>1. Fresh(view.exercise, turnPhase)
      BY <1>1, Knowing DEF InStep
  <2> QED  BY <2>1, FreshEnough
<1> QED  BY <1>2, <1>3, SendInStep DEF Kinds

(* Everything the page does by itself keeps it in step.                    *)
LEMMA PageInStep ==
    ASSUME SessionInv, Shape, InStep, Page
    PROVE  InStep'
<1>0. ASSUME ~ abandoned, registry # 0, req = Nobody \/ Replying
      PROVE  /\ Near /\ (~ OK => Fresh(view.exercise, turnPhase))
             /\ Replying => Status = asked.status /\ Status \in {"ok", "busy", "broken", "refused"}
             /\ Replying /\ Status \in {"broken", "refused"} => cur.lock = Free
             /\ Replying /\ Status = "busy" => asked.kind \in {"start", "submit", "continue"}
  <2>1. Near
      BY <1>0 DEF InStep
  <2> QED  BY <1>0, <2>1, Knowing DEF Near, TellsStatus, Replying, Status, asked
<1>1. ASSUME NEW f, Answered(f) PROVE Replying /\ flow = f /\ asked.kind = Asking(f)
    BY <1>1 DEF Answered, Replying, asked, Shape, Awaited
<1>2. CASE Opened
  <2>1. PICK next \in {"closed", "rest"} : Settle(next)
      BY <1>2 DEF Opened
  <2>2. /\ UNCHANGED <<view, turnPhase, turn>> /\ turnPhase = "idle" /\ view.exercise = 0
        /\ Replying
      BY <1>1, <1>2 DEF Opened, Answered, Shape, Controls
  <2>3. Fresh(view.exercise, turnPhase)
      BY <2>2 DEF Fresh
  <2> QED  BY <2>1, <2>2, <2>3, SettleInStep DEF PollFlows
<1>3. CASE Recovered
  <2>1. Replying /\ flow = "recovering" /\ flow \notin PollFlows
      BY <1>1, <1>3 DEF Recovered, PollFlows
  <2>2. CASE Failing /\ Fail
    <3>1. Status # "ok"
        BY <2>2 DEF Failing
    <3> QED  BY <2>1, <2>2, <3>1, FailInStep
  <2>3. CASE ApplyCompletedTurn(NoView)
    <3>1. Settle("rest") /\ view' = NoView /\ turnPhase' = "idle"
        BY <2>3, EndingTurn DEF ApplyCompletedTurn, Show
    <3>2. Fresh(view'.exercise, turnPhase')
        BY <3>1 DEF Fresh, NoView
    <3> QED  BY <2>1, <3>1, <3>2, SettleInStep DEF PollFlows
  <2> QED  BY <1>3, <2>2, <2>3 DEF Recovered
<1>4. ASSUME RecoverExercise, Replying, Status = "missing"
      PROVE  InStep'
  <2>1. ~ (~ abandoned /\ registry # 0)
      BY <1>0, <1>4
  <2> QED  BY <1>4, <2>1, SendInStep DEF RecoverExercise, OpenAs, Kinds
<1>5. CASE Started
  <2>1. Replying /\ flow = "starting" /\ flow \notin PollFlows /\ asked.kind = "start"
      BY <1>1, <1>5 DEF Started, PollFlows, Asking
  <2>2. CASE Status = "ok" /\ Show(Told, "idle")
    <3>1. Settle("rest") /\ view' = Told /\ turnPhase' = "idle"
        BY <2>2, EndingTurn DEF Show
    <3>2. ASSUME ~ abandoned, registry # 0 PROVE Fresh(Told.exercise, "idle")
      <4>1. OK /\ Near
          BY <2>1, <2>2, <3>2 DEF OK, Status, asked, InStep
      <4>2. Told.exercise # 0 => cur.node = "await" /\ cur.exercise = Told.exercise
          BY <2>1, <4>1, Knowing
      <4>3. cur.lock = Free
          BY <2>1, <4>1 DEF Near, TellsStatus, OK
      <4> QED  BY <4>2, <4>3, Disjoint DEF Fresh, Threads
    <3> QED  BY <2>1, <3>1, <3>2, SettleInStep DEF PollFlows
  <2>3. CASE Status \notin {"ok", "missing"} /\ Fail
      BY <2>1, <2>3, FailInStep
  <2> QED  BY <1>4, <1>5, <2>1, <2>2, <2>3 DEF Started
<1>6. CASE Submitted
  <2>1. /\ Replying /\ flow = "submitting" /\ flow \notin PollFlows /\ asked.kind = "submit"
        /\ turn.fallback = "idle"
      BY <1>1, <1>6 DEF Submitted, PollFlows, Asking, Shape, Controls
  <2>2. CASE Status = "ok" /\ PollTurn(Told)
      BY <2>1, <2>2, PollInStep
  <2>3. CASE Status = "busy" /\ PollSession
    <3>1. ~ abandoned /\ registry # 0 => cur.phase = "idle"
        BY <1>0, <2>1, <2>3 DEF Near, Submits, Replying
    <3> QED  BY <2>1, <2>3, <3>1, AskInStep
  <2>4. CASE Status \notin {"ok", "busy", "missing"} /\ Fail
      BY <2>1, <2>4, FailInStep
  <2> QED  BY <1>4, <1>6, <2>1, <2>2, <2>3, <2>4 DEF Submitted
<1>7. CASE Polled
  <2>1. Replying /\ flow \in PollFlows /\ asked.kind = "current"
      BY <1>1, <1>7 DEF Polled, PollFlows, Asking
  <2>2. CASE ~ Failing /\ PollTurn(Told)
    <3>1. ~ abandoned /\ registry # 0 => Status = "ok"
        BY <1>0, <2>1, <2>2 DEF Failing
    <3> QED  BY <2>1, <2>2, <3>1, PollInStep
  <2>3. CASE Failing /\ Fail
    <3>1. Status # "ok"
        BY <2>3 DEF Failing
    <3>2. ~ abandoned /\ registry # 0 => cur.lock = Free
        BY <1>0, <2>1, <3>1
    <3> QED  BY <2>1, <2>3, <3>1, <3>2, FailInStep
  <2> QED  BY <1>7, <2>2, <2>3 DEF Polled
<1>8. CASE Wake
  <2>1. req = Nobody /\ flow \in PollFlows /\ flow # "reading" /\ PollSession
      BY <1>8 DEF Wake, Shape, Controls, PollFlows
  <2>2. ~ abandoned /\ registry # 0 => Settled(turn.answers)
      BY <1>0, <2>1 DEF Near, Saved
  <2> QED  BY <2>1, <2>2, AskInStep
<1>9. CASE Continued
  <2>1. Replying /\ flow \in PollFlows /\ flow # "reading" /\ asked.kind = "continue"
      BY <1>1, <1>9 DEF Continued, PollFlows, Asking
  <2>2. CASE Status = "ok" /\ PollTurn(Told)
      BY <2>1, <2>2, PollInStep
  <2>3. CASE Status = "busy" /\ PollSession
    <3>1. ~ abandoned /\ registry # 0 => Settled(turn.answers)
        BY <1>0, <2>1 DEF Near, Saved
    <3> QED  BY <2>1, <2>3, <3>1, AskInStep
  <2>4. CASE Status \notin {"ok", "busy"} /\ Fail
    <3>1. ~ abandoned /\ registry # 0 => cur.lock = Free
        BY <1>0, <2>1, <2>4
    <3> QED  BY <2>1, <2>4, <3>1, FailInStep
  <2> QED  BY <1>9, <2>2, <2>3, <2>4 DEF Continued
<1> QED  BY <1>2, <1>3, <1>5, <1>6, <1>7, <1>8, <1>9 DEF Page

(* So does what the learner does.                                          *)
LEMMA LearnerInStep ==
    ASSUME SessionInv, Shape, InStep, Learner
    PROVE  InStep'
<1>0. ASSUME flow \in {"closed", "rest"}
      PROVE  /\ req = Nobody
             /\ ~ abandoned /\ registry # 0 => Near /\ Fresh(view.exercise, turnPhase)
  <2>1. req = Nobody
      BY <1>0 DEF Shape, Controls
  <2> QED  BY <2>1, Knowing DEF InStep, OK, Replying
<1>1. CASE Open
  <2>1. flow = "closed" /\ Send("open", "opening") /\ UNCHANGED <<view, turnPhase, turn>>
      BY <1>1 DEF Open, OpenAs
  <2>2. turnPhase = "idle"
      BY <2>1 DEF Shape, Controls
  <2> QED  BY <1>0, <2>1, <2>2, SendInStep DEF Kinds, PollFlows
<1>2. CASE StartSkill
    BY <1>0, <1>2, SendInStep DEF StartSkill, Kinds, PollFlows
<1>3. CASE SubmitCode
  <2>1. /\ flow = "rest" /\ turnPhase = "idle" /\ view.exercise # 0
        /\ Send("submit", "submitting") /\ turnPhase' = "running-tests" /\ UNCHANGED view
        /\ turn' = [NoTurn EXCEPT !.answers = view.exercise]
      BY <1>3 DEF SubmitCode
  <2>2. turn'.answers = view.exercise
      BY <2>1 DEF NoTurn
  <2>3. ~ abandoned /\ registry # 0 => Fresh(view.exercise, "running-tests")
      BY <1>0, <2>1, FreshEnough
  <2> QED  BY <1>0, <2>1, <2>2, <2>3, SendInStep DEF Kinds, PollFlows
<1>4. CASE ResumeTurn
  <2>1. PICK check \in BOOLEAN, kind \in {"current", "continue"}, next \in {"checking", "retrying"} :
          /\ flow = "rest" /\ turnPhase \in {"failed", "timed-out"} /\ Send(kind, next)
          /\ turnPhase' = "updating-plan" /\ UNCHANGED view
          /\ turn' = [turn EXCEPT !.fallback = turnPhase, !.mayContinue = check]
      BY <1>4, Zenon DEF ResumeTurn
  <2>2. turn'.answers = turn.answers
      BY <2>1, TurnFacts DEF TurnRecord
  <2>3. ~ abandoned /\ registry # 0 =>
           Fresh(view.exercise, "updating-plan") /\ Settled(turn.answers)
      BY <1>0, <2>1, FreshEnough DEF Near, Saved
  <2> QED  BY <1>0, <2>1, <2>2, <2>3, SendInStep DEF Kinds
<1>5. CASE Reload
  <2>1. /\ flow' = "closed" /\ req' = Nobody /\ view' = NoView /\ turnPhase' = "idle"
        /\ abandoned' <=> (abandoned \/ req # Nobody)
        /\ UNCHANGED <<sessions, registry, recorded>>
        /\ jobs' = [t \in Threads |-> CASE t # req -> jobs[t]
                                        [] t = req /\ At(t, "replied") -> Idle
                                        [] OTHER -> [jobs[t] EXCEPT !.heard = FALSE]]
      BY <1>5 DEF Reload
  <2> SUFFICES ASSUME ~ abandoned, req = Nobody PROVE InStep'
      BY <2>1 DEF InStep
  <2>2. \A h \in Handlers : jobs'[h] = jobs[h]
      BY <2>1, Disjoint DEF Threads
  <2>3. Alone'
      BY <2>1, <2>2 DEF InStep, Alone
  <2>4. Fresh(view'.exercise, turnPhase')
      BY <2>1 DEF Fresh, NoView
  <2>5. registry # 0 => Near'
      BY <2>1, <2>4, MovingNear DEF InStep, PollFlows
  <2> QED  BY <2>1, <2>3, <2>5 DEF InStep
<1> QED  BY <1>1, <1>2, <1>3, <1>4, <1>5 DEF Learner

(* So do a deadline that passes, and an answer the page gives up.          *)
LEMMA TroubleInStep ==
    ASSUME SessionInv, Shape, InStep, Deadline \/ LoseAnswer
    PROVE  InStep'
<1>1. CASE Deadline
  <2>1. /\ turn' = [turn EXCEPT !.late = TRUE]
        /\ UNCHANGED <<jobs, sessions, registry, posed, recorded, flow, req, view, turnPhase,
                       abandoned>>
      BY <1>1 DEF Deadline, serverVars
  <2>2. turn'.answers = turn.answers /\ turn'.fallback = turn.fallback
      BY <2>1, TurnFacts DEF TurnRecord
  <2>3. cur' = cur /\ asked' = asked /\ (OK' <=> OK) /\ (Replying' <=> Replying)
      BY <2>1 DEF OK, Replying, asked, cur
  <2>4. Settled(turn.answers)' <=> Settled(turn.answers)
      BY <2>1, <2>2 DEF Settled
  <2>5. Newer \/ Fresh(view.exercise, turnPhase) => Newer' \/ Fresh(view.exercise, turnPhase)'
      BY <2>1, <2>3 DEF Newer, Fresh
  <2>6. Served /\ TellsExercise /\ TellsPhase /\ TellsStatus =>
           Served' /\ TellsExercise' /\ TellsPhase' /\ TellsStatus'
      BY <2>1, <2>3 DEF Served, TellsExercise, TellsPhase, TellsStatus
  <2>7. Submits /\ Saved => Submits' /\ Saved'
      BY <2>1, <2>2, <2>3, <2>4 DEF Submits, Saved
  <2>8. Near => Near'
      BY <2>5, <2>6, <2>7 DEF Near
  <2> QED  BY <2>1, <2>8 DEF InStep, Alone
<1>2. CASE LoseAnswer
    BY <1>2 DEF LoseAnswer, InStep
<1> QED  BY <1>1, <1>2

(* Every step keeps the page in step.                                      *)
LEMMA InStepKeeps ==
    ASSUME PageShapeInv, posed <= MaxExercises, InStep, [Next]_vars
    PROVE  InStep'
<1>0. TurnInv /\ SessionInv /\ Shape
    BY DEF PageShapeInv, TurnInv
<1>1. CASE UNCHANGED vars
    BY <1>1 DEF vars, serverVars, pageVars, InStep, Alone, Near, Newer, OK, Replying, Fresh,
                Served, TellsExercise, TellsPhase, TellsStatus, Submits, Saved, Settled, asked, cur
<1>2. CASE Server /\ Quiet
    BY <1>0, <1>2, HandlerInStep, WorkerInStep DEF Server
<1>3. CASE Page \/ Learner \/ Deadline \/ LoseAnswer \/ ServerRestarts
    BY <1>0, <1>3, PageInStep, LearnerInStep, TroubleInStep, RestartInStep
<1> QED  BY <1>1, <1>2, <1>3 DEF Next

-----------------------------------------------------------------------------
(* The inductive invariant of the page.                                    *)
PageInv == PageShapeInv /\ InStep

LEMMA PageInvariant == Spec => []PageInv
<1>1. PageInit => InStep
    BY InitInStep
<1>2. PageShapeInv /\ InStep /\ [Next]_vars => InStep'
  <2>1. PageShapeInv => posed <= MaxExercises
      BY WithinBound, SessionAssumption DEF SessionAssumption
  <2> QED  BY <2>1, InStepKeeps
<1> QED  BY <1>1, <1>2, PageShapeInvariant, PTL DEF Spec, PageInv

(* When the page says "Your answer was saved", the answer is graded or     *)
(* recorded, unless the server has restarted since, or the page has given  *)
(* a request up.                                                           *)
THEOREM SavedHolds == Spec => []SavedIsTrue
<1>1. PageInv => SavedIsTrue
  <2> SUFFICES ASSUME PageInv, turnPhase \in {"failed", "timed-out"}, registry # 0, ~ abandoned
               PROVE  turn.answers # 0 /\ StageOf(turn.answers) \in {"graded", "recorded"}
      BY DEF SavedIsTrue
  <2>1. SessionInv /\ Ledger /\ Shape /\ posed \in 0 .. MaxExercises /\ MaxExercises \in Nat
      BY WithinBound, SessionAssumption DEF PageInv, PageShapeInv, TurnInv, SessionAssumption
  <2>2. Typed /\ StagesFit /\ HoldersFit
      BY <2>1, TypedFacts, Stages, Holders
  <2>3. Settled(turn.answers)
      BY DEF PageInv, InStep, Near, Saved
  <2>4. turn.answers \in Nat
      BY <2>1, TurnFacts
  <2>5. CASE turn.answers \in Exercises /\ recorded[turn.answers] > 0
      BY <2>2, <2>3, <2>5 DEF StagesFit, Settled
  <2>6. ASSUME NEW i \in 1 .. Len(sessions), sessions[i].exercise = turn.answers,
               sessions[i].node = "record"
        PROVE  StageOf(turn.answers) = "graded"
    <3>1. turn.answers \in Exercises /\ recorded[turn.answers] = 0
        BY <2>1, <2>3, <2>4, <2>6 DEF Settled, Ledger, Unsettled, Unrecorded, Exercises
    <3> QED  BY <2>2, <2>6, <3>1 DEF HoldersFit, Position
  <2> QED  BY <2>3, <2>5, <2>6 DEF Settled
<1> QED  BY <1>1, PageInvariant, PTL

-----------------------------------------------------------------------------
(* A submission on its way is graded by a step of its handler only.        *)

(* The page sends requests and takes answers, and sets none to work.       *)
LEMMA PageLeaves ==
    ASSUME SessionInv, Page \/ Learner \/ Deadline \/ LoseAnswer \/ ServerRestarts,
           NEW h \in Handlers
    PROVE  jobs'[h].step \in {"idle", "enter", "replied", jobs[h].step}
<1>0. jobs \in [Threads -> Job] /\ h \in Threads /\ jobs[h] \in Job
    BY DEF SessionInv, TypeInv, Threads
<1>1. ASSUME NEW kind \in Kinds, NEW next, Send(kind, next)
      PROVE  jobs'[h].step \in {"idle", "enter", jobs[h].step}
    BY <1>1, Sending
<1>2. ASSUME NEW next, Settle(next)
      PROVE  jobs'[h].step \in {"idle", "enter", jobs[h].step}
    BY <1>2, Settling
<1>3. CASE PollSession
    BY <1>1, <1>3 DEF PollSession, Kinds
<1>4. CASE RecoverExercise
    BY <1>1, <1>4 DEF RecoverExercise, OpenAs, Kinds
<1>5. ASSUME NEW next, PollTurn(next)
      PROVE  jobs'[h].step \in {"idle", "enter", jobs[h].step}
    BY <1>1, <1>2, <1>5 DEF PollTurn, ApplyCompletedTurn, Show, Kinds
<1>6. CASE Page
    BY <1>2, <1>3, <1>4, <1>5, <1>6
       DEF Page, Opened, Recovered, Started, Submitted, Polled, Wake, Continued, Fail,
           ApplyCompletedTurn, Show
<1>7. CASE Open \/ StartSkill \/ SubmitCode \/ ResumeTurn
    BY <1>1, <1>7 DEF Open, OpenAs, StartSkill, SubmitCode, ResumeTurn, Kinds
<1>8. CASE Reload \/ LoseAnswer
  <2>1. jobs'[h] = jobs[h] \/ jobs'[h] = Idle \/ jobs'[h] = [jobs[h] EXCEPT !.heard = FALSE]
      BY <1>0, <1>8 DEF Reload, LoseAnswer
  <2> QED  BY <1>0, <2>1 DEF Job, Idle
<1>9. CASE Deadline
    BY <1>9 DEF Deadline, serverVars
<1>10. CASE ServerRestarts
  <2>1. jobs'[h] = jobs[h] \/ jobs'[h] = Replied(jobs[h], "lost", NoView)
      BY <1>10, RestartJobs DEF ServerRestarts
  <2>2. NoView \in View /\ "lost" \in Statuses
      BY DEF NoView, View, Phases, Statuses
  <2> QED  BY <1>0, <2>1, <2>2, RepliedType
<1> QED  BY <1>6, <1>7, <1>8, <1>9, <1>10 DEF Learner

(* A submission that gets to work is taken as the answer of the session.   *)
LEMMA SubmitOnly ==
    ASSUME SessionInv, NEW h \in Handlers, HandlerStep(h),
           jobs[h].kind = "submit", jobs[h].step = "enter", jobs'[h].step = "run"
    PROVE  Submit(h)
<1>0. jobs \in [Threads -> Job] /\ h \in Threads /\ jobs[h] \in Job /\ NoView \in View
    BY DEF SessionInv, TypeInv, Threads, NoView, View, Phases
<1>1. ASSUME NEW status \in Statuses, Reply(h, status, NoView) PROVE FALSE
  <2>1. jobs'[h] = Replied(jobs[h], status, NoView)
      BY <1>0, <1>1 DEF Reply
  <2>2. jobs'[h].step \in {"idle", "replied"}
      BY <1>0, <2>1, RepliedType
  <2> QED  BY <2>2
<1>2. ~ MissingSession(h) /\ ~ Busy(h) /\ ~ SubmitNothingAwaited(h)
    BY <1>1 DEF MissingSession, Busy, SubmitNothingAwaited, Statuses
<1>3. /\ ~ OpenSession(h) /\ ~ BeginTutoring(h) /\ ~ ContinueTurn(h) /\ ~ ContinueNothing(h)
      /\ ~ CurrentReadsGraph(h)
    BY DEF OpenSession, BeginTutoring, ContinueTurn, ContinueNothing, CurrentReadsGraph,
           Locking, Entering
<1>4. /\ ~ CurrentReadsPhase(h) /\ ~ PoseNode(h) /\ ~ GradeNode(h) /\ ~ HandlerRaises(h)
      /\ ~ StartDone(h) /\ ~ HandOver(h) /\ ~ HandOverFails(h)
    BY DEF CurrentReadsPhase, PoseNode, GradeNode, NodeDone, HandlerRaises, Running, StartDone,
           HandOver, HandOverFails, Handing, At
<1> QED  BY <1>2, <1>3, <1>4 DEF HandlerStep

(* The exercise it is graded against is the one the page showed.           *)
LEMMA GradedStep ==
    ASSUME PageInv, [Next]_vars, ~ abandoned, NEW h \in Handlers,
           jobs[h].kind = "submit", jobs[h].step = "enter", jobs'[h].step = "run"
    PROVE  jobs[h].shown = sessions'[jobs'[h].session].exercise
<1>0. /\ SessionInv /\ TurnInv /\ Shape /\ posed <= MaxExercises
      /\ Alone /\ (registry # 0 => Near)
    BY WithinBound, SessionAssumption
       DEF PageInv, PageShapeInv, TurnInv, InStep, SessionAssumption
<1>1. h = req /\ req # Nobody /\ jobs[h] = asked
    BY <1>0, Disjoint DEF Alone, asked
<1>2. ~ (Page \/ Learner \/ Deadline \/ LoseAnswer \/ ServerRestarts)
    BY <1>0, PageLeaves
<1>3. ~ UNCHANGED vars
    BY DEF vars, serverVars
<1>4. ASSUME NEW w \in Workers PROVE ~ WorkerStep(w)
    BY <1>0, WorkerJobs
<1>5. PICK u \in Handlers : HandlerStep(u)
    BY <1>2, <1>3, <1>4 DEF Next, Server
<1>6. u = h
    BY <1>0, <1>1, <1>5, HandlerJobs DEF Alone
<1>7. Submit(h)
    BY <1>0, <1>5, <1>6, SubmitOnly
<1>8. /\ registry \in 1 .. Len(sessions) /\ cur.node = "await"
      /\ sessions' = [sessions EXCEPT ![registry].lock = h, ![registry].node = "grade"]
      /\ jobs' = [jobs EXCEPT ![h].step = "run", ![h].session = registry]
    BY <1>7 DEF Submit, Locking, Entering, AwaitingStudent, cur
<1>9. Near /\ Serving
    BY <1>0, <1>1, <1>8, SessionAssumption DEF Serving, SessionInv, TypeInv
<1>10. view.exercise # 0 /\ jobs[h].shown = view.exercise /\ Fresh(view.exercise, turnPhase)
    BY <1>0, <1>1, <1>9, AtWork DEF Near, Submits
<1>11. cur.exercise = view.exercise
    BY <1>8, <1>10 DEF Fresh
<1>12. jobs'[h].session = registry
  <2>1. jobs \in [Threads -> Job] /\ h \in Threads
      BY <1>0 DEF SessionInv, TypeInv, Threads
  <2> DEFINE j == [jobs[h] EXCEPT !.step = "run", !.session = registry]
  <2>2. j.session = registry /\ jobs' = [jobs EXCEPT ![h] = j]
      BY <1>8, <2>1 DEF Job
  <2> HIDE DEF j
  <2> QED  BY <2>1, <2>2
<1>13. sessions'[registry].exercise = cur.exercise
    BY <1>8, <1>9, ServingFacts DEF Object, cur
<1> QED  BY <1>10, <1>11, <1>12, <1>13

(* A submission is graded against the exercise the page showed when it was *)
(* sent, unless the page had given up on a request the server still had.   *)
THEOREM SubmissionsGradedAsShown == Spec => GradedAsShown
<1>1. PageInv /\ [Next]_vars =>
        [\A h \in Handlers :
            jobs[h].kind = "submit" /\ jobs[h].step = "enter" /\ jobs'[h].step = "run" =>
                \/ jobs[h].shown = sessions'[jobs'[h].session].exercise
                \/ abandoned]_vars
    BY GradedStep
<1> QED  BY <1>1, PageInvariant, PTL DEF Spec, GradedAsShown

=============================================================================

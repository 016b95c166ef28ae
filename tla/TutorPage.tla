----------------------------- MODULE TutorPage -----------------------------
(***************************************************************************)
(* The learner's page, web/app/page.tsx, in front of the sessions: which   *)
(* request it waits for, how it polls an unfinished turn, and what it does *)
(* with every kind of answer, including none in time.                      *)
(***************************************************************************)
EXTENDS Session

CONSTANTS
    Nobody         \* the page waits for no request

ASSUME PageAssumption == Nobody \notin Handlers

VARIABLES
    flow,          \* what the page is in the middle of
    req,           \* the handler whose answer it awaits
    view,          \* the view it shows
    turnPhase,
    turn,          \* the variables of the turn in flight
    abandoned      \* for checking: the page has given a request up before its answer

pageVars == <<flow, req, view, turnPhase, turn>>
vars == <<serverVars, pageVars, abandoned>>

Flows == {"closed", "opening", "rest", "starting", "submitting", "reading", "sleeping",
          "continuing", "checking", "retrying", "recovering"}

TurnPhases == {"idle", "running-tests", "updating-plan", "failed", "timed-out"}

turnInFlight == flow \in {"submitting", "reading", "sleeping", "continuing", "checking",
                          "retrying"}

(* The turnPhase an error takes the page back to, canContinueFailure of    *)
(* pollTurn, whether TURN_DEADLINE_MS has passed since startedAt; and, for *)
(* checking, the exercise the turn answers.                                *)
NoTurn == [fallback |-> "idle", mayContinue |-> FALSE, late |-> FALSE, answers |-> 0]

PageInit ==
    /\ Init
    /\ flow = "closed" /\ req = Nobody /\ view = NoView
    /\ turnPhase = "idle" /\ turn = NoTurn
    /\ abandoned = FALSE

-----------------------------------------------------------------------------
(* Requests and answers.                                                   *)

OpeningRequests == {h \in Handlers : jobs[h].kind = "open" /\ At(h, "enter")}
CanOpen == Len(sessions) + Cardinality(OpeningRequests) < MaxSessions

(* The answer awaited is taken from its handler first, if it is there.     *)
Taken == IF req = Nobody THEN jobs ELSE [jobs EXCEPT ![req] = Idle]

(* Which idle handler serves a request makes no difference.                *)
Send(kind, next) ==
    /\ \E h \in Handlers : Taken[h] = Idle
    /\ req' = CHOOSE h \in Handlers : Taken[h] = Idle
    /\ jobs' = [Taken EXCEPT ![req'] =
                   Request(kind, IF kind = "submit" THEN view.exercise ELSE 0)]
    /\ flow' = next
    /\ UNCHANGED <<sessions, registry, posed, recorded, troubles, abandoned>>

(* Plausible bug, for mutation: the request answered is not forgotten.     *)
SettleKeepingRequest(next) ==
    /\ jobs' = Taken
    /\ flow' = next
    /\ UNCHANGED <<req, sessions, registry, posed, recorded, troubles, abandoned>>

(* The page awaits nothing any more: at rest, or between two polls.        *)
Settle(next) ==
    /\ jobs' = Taken
    /\ req' = Nobody
    /\ flow' = next
    /\ UNCHANGED <<sessions, registry, posed, recorded, troubles, abandoned>>

Answered(f) == flow = f /\ req # Nobody /\ jobs[req].step = "replied"
Status == jobs[req].status
Told   == jobs[req].view

Failing == Status \in {"busy", "refused", "missing", "broken", "lost"}

-----------------------------------------------------------------------------
(* What the flows share.                                                   *)

(* The turn is over for the page, and its controls show the given phase.   *)
EndTurn(phase) ==
    /\ turnPhase' = phase
    /\ turn' = [NoTurn EXCEPT !.answers = IF phase = "idle" THEN 0 ELSE turn.answers]

Show(next, phase) == Settle("rest") /\ view' = next /\ EndTurn(phase)

ApplyCompletedTurn(next) == Show(next, "idle")

(* Plausible bug, for mutation: every failed request shows as a failed     *)
(* turn.                                                                   *)
FailAsTurn == Settle("rest") /\ EndTurn("failed") /\ UNCHANGED view

(* presentError, and the controls back as they were before the click.      *)
Fail == Settle("rest") /\ EndTurn(turn.fallback) /\ UNCHANGED view

(* Plausible bug, for mutation: the deadline is not looked at.             *)
PollTurnForever(next) ==
    \/ next.phase = "idle" /\ ApplyCompletedTurn(next)
    \/ next.phase = "failed" /\ Show(next, "failed")
    \/ /\ next.phase = "updating"
       /\ Settle("sleeping")
       /\ view' = next /\ turnPhase' = "updating-plan"
       /\ UNCHANGED turn

(* pollTurn once it has a view.                                            *)
PollTurn(next) ==
    \/ next.phase = "idle" /\ ApplyCompletedTurn(next)
    \/ /\ next.phase = "failed" /\ turn.mayContinue
       /\ Send("continue", "continuing")
       /\ view' = next /\ turnPhase' = "updating-plan"
       /\ turn' = [turn EXCEPT !.mayContinue = FALSE]
    \/ next.phase = "failed" /\ ~ turn.mayContinue /\ Show(next, "failed")
    \/ next.phase = "updating" /\ turn.late /\ Show(next, "timed-out")
    \/ /\ next.phase = "updating" /\ ~ turn.late
       /\ Settle("sleeping")
       /\ view' = next /\ turnPhase' = "updating-plan"
       /\ UNCHANGED turn

(* pollTurn with no view yet, or after POLL_INTERVAL_MS.                   *)
PollSession ==
    /\ Send("current", "reading")
    /\ turnPhase' = "updating-plan"
    /\ UNCHANGED <<view, turn>>

(* enterLearning, or recoverExercise: a new session, and the plan instead  *)
(* of an exercise.                                                         *)
OpenAs(next) == CanOpen /\ Send("open", next) /\ UNCHANGED <<view, turnPhase, turn>>

RecoverExercise == OpenAs("recovering")

-----------------------------------------------------------------------------
(* What the learner does.                                                  *)

Open == flow = "closed" /\ OpenAs("opening")

(* startSkill: the plan's buttons are disabled while a turn is unfinished. *)
StartSkill ==
    /\ flow = "rest" /\ turnPhase = "idle" /\ CanPose
    /\ Send("start", "starting")
    /\ UNCHANGED <<view, turnPhase, turn>>

SubmitCode ==
    /\ flow = "rest" /\ turnPhase = "idle" /\ view.exercise # 0
    /\ Send("submit", "submitting")
    /\ turnPhase' = "running-tests"
    /\ turn' = [NoTurn EXCEPT !.answers = view.exercise]
    /\ UNCHANGED view

(* resumeTurn: "Try again" continues, "Check again" looks first.           *)
ResumeTurn == \E checkServerFirst \in BOOLEAN :
    /\ flow = "rest"
    /\ turnPhase = IF checkServerFirst THEN "timed-out" ELSE "failed"
    /\ IF checkServerFirst THEN Send("current", "checking") ELSE Send("continue", "retrying")
    /\ turnPhase' = "updating-plan"
    /\ turn' = [turn EXCEPT !.fallback = turnPhase, !.mayContinue = checkServerFirst]
    /\ UNCHANGED view

(* The page is loaded again: it forgets everything, the server nothing.    *)
Reload ==
    /\ flow # "closed" /\ CanOpen
    /\ Trouble
    /\ jobs' = [t \in Threads |-> CASE t # req -> jobs[t]
                                    [] t = req /\ At(t, "replied") -> Idle
                                    [] OTHER -> [jobs[t] EXCEPT !.heard = FALSE]]
    /\ flow' = "closed" /\ req' = Nobody /\ view' = NoView
    /\ turnPhase' = "idle" /\ turn' = NoTurn
    /\ abandoned' = (abandoned \/ req # Nobody)
    /\ UNCHANGED <<sessions, registry, posed, recorded>>

-----------------------------------------------------------------------------
(* What the page does by itself.                                           *)

Opened ==
    /\ Answered("opening")
    /\ Settle(IF Failing THEN "closed" ELSE "rest")
    /\ UNCHANGED <<view, turnPhase, turn>>

Recovered ==
    /\ Answered("recovering")
    /\ IF Failing THEN Fail ELSE ApplyCompletedTurn(NoView)

(* Plausible bug, for mutation: with a draft of the old exercise kept, the *)
(* old exercise is kept as well.                                           *)
StartedKeepingDraft ==
    /\ Answered("starting")
    /\ CASE Status = "ok"      -> Show(IF view.exercise = 0 THEN Told ELSE view, "idle")
         [] Status = "missing" -> RecoverExercise
         [] OTHER              -> Fail

Started ==
    /\ Answered("starting")
    /\ CASE Status = "ok"      -> Show(Told, "idle")
         [] Status = "missing" -> RecoverExercise
         [] OTHER              -> Fail

Submitted ==
    /\ Answered("submitting")
    /\ CASE Status = "ok"      -> PollTurn(Told)
         [] Status = "busy"    -> PollSession
         [] Status = "missing" -> RecoverExercise
         [] OTHER              -> Fail

(* An answer to GET /session, in the poll or on "Check again".             *)
Polled ==
    /\ Answered("reading") \/ Answered("checking")
    /\ IF Failing THEN Fail ELSE PollTurn(Told)

Wake == flow = "sleeping" /\ PollSession

(* An answer to /continue, in the poll or on "Try again".                  *)
Continued ==
    /\ Answered("continuing") \/ Answered("retrying")
    /\ CASE Status = "ok"   -> PollTurn(Told)
         [] Status = "busy" -> PollSession
         [] OTHER           -> Fail

(* 90 seconds pass since the learner's click.                              *)
Deadline ==
    /\ turnInFlight /\ ~ turn.late
    /\ turn' = [turn EXCEPT !.late = TRUE]
    /\ UNCHANGED <<serverVars, flow, req, view, turnPhase, abandoned>>

(* A request does not reach the server, or its answer does not come back   *)
(* in time; the server knows nothing of it and goes on.                    *)
LoseAnswer ==
    /\ req # Nobody /\ jobs[req].step # "replied"
    /\ Trouble
    /\ \/ /\ jobs[req].kind = "open" => CanOpen
          /\ jobs' = [jobs EXCEPT ![req].heard = FALSE]
       \/ At(req, "enter") /\ jobs' = [jobs EXCEPT ![req] = Idle]
    /\ abandoned' = TRUE
    /\ req' = Nobody
    /\ flow' = IF flow = "opening" THEN "closed" ELSE "rest"
    /\ EndTurn(turn.fallback)
    /\ UNCHANGED <<sessions, registry, posed, recorded, view>>

ServerRestarts == CanOpen /\ Restart /\ UNCHANGED <<pageVars, abandoned>>

-----------------------------------------------------------------------------
Quiet == UNCHANGED <<pageVars, abandoned>>

Server == (\E h \in Handlers : HandlerStep(h)) \/ (\E w \in Workers : WorkerStep(w))

Page == \/ Opened \/ Recovered \/ Started \/ Submitted \/ Polled \/ Wake \/ Continued

Learner == Open \/ StartSkill \/ SubmitCode \/ ResumeTurn \/ Reload

Next ==
    \/ Server /\ Quiet
    \/ Page \/ Deadline \/ Learner \/ LoseAnswer \/ ServerRestarts

Spec == PageInit /\ [][Next]_vars

(* Threads are scheduled, answers are handled, timers fire; the learner    *)
(* need not do anything.                                                   *)
Fairness ==
    /\ \A h \in Handlers : WF_vars(HandlerStep(h) /\ Quiet)
    /\ \A w \in Workers : WF_vars(WorkerStep(w) /\ Quiet)
    /\ WF_vars(Page)
    /\ WF_vars(Deadline)

FairSpec == Spec /\ Fairness

-----------------------------------------------------------------------------
(* Correctness.                                                            *)

(* Where the answer to an exercise stands.                                 *)
StageOf(x) ==
    LET holders == {i \in 1 .. Len(sessions) : sessions[i].exercise = x}
    IN  IF recorded[x] > 0 THEN "recorded"
        ELSE IF x > posed THEN "unposed"
        ELSE IF holders = {} THEN "dropped"
        ELSE LET i == CHOOSE i \in holders : TRUE
             IN  CASE sessions[i].node = "await" -> "open"
                   [] sessions[i].node = "grade" -> "taken"
                   [] OTHER -> "graded"

(* The state is well formed, and the page awaits an answer exactly when    *)
(* its flow needs one, so no answer reaches the wrong continuation.        *)
PageTypeOK ==
    /\ registry \in 0 .. Len(sessions)
    /\ posed \in 0 .. MaxExercises
    /\ \A i \in 1 .. Len(sessions) :
          /\ sessions[i].lock \in Threads \cup {Free}
          /\ sessions[i].phase \in {"idle", "updating", "failed"}
          /\ sessions[i].node \in Nodes
          /\ sessions[i].exercise \in 0 .. posed
    /\ flow \in Flows
    /\ turnPhase \in TurnPhases
    /\ req \in Handlers \cup {Nobody}
    /\ (req = Nobody) <=> (flow \in {"closed", "rest", "sleeping"})
    /\ req # Nobody => jobs[req] # Idle /\ jobs[req].heard

(* While a thread runs a session's graph, or still has its outcome to      *)
(* publish, it holds that session's lock, across the hand-over as well: at *)
(* most one thread moves a graph, and none publishes over a later turn.    *)
OneRunner == \A t \in Threads :
    jobs[t].step \in {"run", "hand over", "release"} =>
        sessions[jobs[t].session].lock = t

(* While a worker finishes a turn the phase says so: a page that polls     *)
(* does not take an unfinished turn for a finished one.                    *)
WorkIsAnnounced == \A w \in Workers :
    At(w, "run") => sessions[jobs[w].session].phase = "updating"

(* A graded answer whose update nobody works on is known to be unfinished: *)
(* the page can offer to continue it.  (Or its worker never started.)      *)
UnfinishedIsReported == \A i \in 1 .. Len(sessions) :
    sessions[i].lock = Free /\ sessions[i].node \in {"record", "adapt"} =>
        sessions[i].phase = "failed" \/ sessions[i].stranded

(* A submission is graded against the exercise the page showed when it was *)
(* sent, unless it has ever given up on a request the server still had.    *)
GradedAsShown == [][\A h \in Handlers :
    jobs[h].kind = "submit" /\ jobs[h].step = "enter" /\ jobs'[h].step = "run" =>
        \/ jobs[h].shown = sessions'[jobs'[h].session].exercise
        \/ abandoned]_vars

(* When the page says "Your answer was saved", the answer is graded or     *)
(* recorded, unless the server has since restarted and lost it, or the     *)
(* page gave up on a request and may be a step behind the server.          *)
SavedIsTrue ==
    turnPhase \in {"failed", "timed-out"} /\ registry # 0 /\ ~ abandoned =>
        turn.answers # 0 /\ StageOf(turn.answers) \in {"graded", "recorded"}

(* The sessions implement Turn: each exercise is answered once at most,    *)
(* and the plan updated once at most from each answer.                     *)
T == INSTANCE Turn WITH stage <- [x \in Exercises |-> StageOf(x)]

ImplementsTurn == T!Spec

(* The page never stays in the middle of a turn.                           *)
TurnEnds == turnInFlight ~> ~ turnInFlight

(* No lock is kept for good: every path through the handlers and the       *)
(* worker releases it.                                                     *)
LocksAreReleased == \A i \in 1 .. MaxSessions :
    (i <= Len(sessions) /\ sessions[i].lock # Free) ~>
        (i <= Len(sessions) /\ sessions[i].lock = Free)

(* A graded answer is recorded, given up, or reported as unfinished.       *)
AnswerSettles == \A x \in Exercises :
    (StageOf(x) = "graded") ~>
        \/ StageOf(x) # "graded"
        \/ \E i \in 1 .. Len(sessions) :
              sessions[i].exercise = x /\ (sessions[i].phase = "failed" \/ sessions[i].stranded)
=============================================================================

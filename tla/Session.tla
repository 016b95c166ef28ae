------------------------------ MODULE Session ------------------------------
(***************************************************************************)
(* The tutoring sessions of one student in app/api/main.py: the registry   *)
(* of Session objects, each with its lock, its phase and the graph it      *)
(* owns, the request handlers, which run concurrently in the server's      *)
(* thread pool, and the worker thread a graded turn is handed to together  *)
(* with the lock.  Sessions live in memory; a restart loses them all.      *)
(*                                                                         *)
(* Only the holder of a session's lock moves its graph, so taking the lock *)
(* and the reads made under it are one step; GET /session takes no lock,   *)
(* and its two reads are two steps.                                        *)
(***************************************************************************)
EXTENDS Naturals, Sequences, FiniteSets

CONSTANTS
    Handlers,        \* threads that serve requests
    Workers,         \* threads that finish turns
    Free,            \* nobody holds the lock
    MaxSessions,     \* bound on POST /session
    MaxExercises,    \* bound on exercises posed
    MaxTroubles      \* bound on everything that goes wrong: nodes that raise, threads that
                     \* do not start, restarts, answers that are lost, pages loaded again

ASSUME SessionAssumption ==
    /\ Handlers \cap Workers = {}
    /\ Free \notin Handlers \cup Workers
    /\ {MaxSessions, MaxExercises, MaxTroubles} \subseteq Nat

VARIABLES
    jobs,          \* what each thread is doing
    sessions,      \* the Session objects, oldest first
    registry,      \* SESSIONS[student_id]: the current one, 0 for none
    posed,         \* exercises posed so far; each is known by its number
    recorded,      \* how often the plan was updated from each exercise
    troubles       \* what went wrong so far

serverVars == <<jobs, sessions, registry, posed, recorded, troubles>>

Threads   == Handlers \cup Workers
Exercises == 1 .. MaxExercises

(* Where the graph stands: the exercise being chosen, the learner being    *)
(* awaited, the answer being graded, the grade being recorded, the next    *)
(* step being decided, the end.                                            *)
Breakpoints == {"pose", "grade", "record", "adapt"}
Nodes       == Breakpoints \cup {"none", "await", "over"}

(* stranded is for checking: the worker of this session did not start.     *)
NewSession == [lock |-> Free, phase |-> "idle", node |-> "none", exercise |-> 0,
               stranded |-> FALSE]

(* What a view tells: the exercise that awaits an answer, 0 if none does,  *)
(* and the phase.                                                          *)
NoView == [exercise |-> 0, phase |-> "idle"]

Kinds == {"open", "start", "submit", "continue", "current"}

(* step is the next thing the thread does; view is what it has read of the *)
(* session, and in a reply what it returns; shown is the exercise the      *)
(* client had before it; heard says whether the client still waits.        *)
Idle == [kind |-> "none", step |-> "idle", session |-> 0, view |-> NoView,
         shown |-> 0, status |-> "none", heard |-> TRUE]

Request(kind, shown) == [Idle EXCEPT !.kind = kind, !.step = "enter", !.shown = shown]

Init ==
    /\ jobs = [t \in Threads |-> Idle]
    /\ sessions = <<>>
    /\ registry = 0
    /\ posed = 0
    /\ recorded = [x \in Exercises |-> 0]
    /\ troubles = 0

-----------------------------------------------------------------------------
(* What the handlers share.                                                *)

AwaitingStudent(s) == s.node = "await"
AtBreakpoint(s)    == s.node \in Breakpoints

ViewOf(s) == [exercise |-> IF AwaitingStudent(s) THEN s.exercise ELSE 0, phase |-> s.phase]

(* The job after its answer; an answer nobody waits for is dropped.        *)
Replied(job, status, view) ==
    IF job.heard THEN [Idle EXCEPT !.kind = job.kind, !.step = "replied",
                                   !.status = status, !.view = view]
                 ELSE Idle

Reply(h, status, view) == jobs' = [jobs EXCEPT ![h] = Replied(@, status, view)]

(* _session(...) and lock.acquire(blocking=False): handler h finds the     *)
(* current session i in the registry.                                      *)
Entering(h, kind, i) ==
    /\ jobs[h].kind = kind
    /\ jobs[h].step = "enter"
    /\ registry = i

Locking(h, kind, i) == i # 0 /\ Entering(h, kind, i) /\ sessions[i].lock = Free

(* Something goes wrong.                                                   *)
Trouble == troubles < MaxTroubles /\ troubles' = troubles + 1

At(t, step) == jobs[t].step = step

(* The bound on exercises, counting those already on their way.            *)
CanPose == posed + Cardinality({i \in 1 .. Len(sessions) : sessions[i].node = "pose"})
                 + Cardinality({h \in Handlers : jobs[h].kind = "start" /\ At(h, "enter")})
           < MaxExercises

-----------------------------------------------------------------------------
(* The handlers.                                                           *)

(* POST /session: a new object replaces whatever the registry held.        *)
OpenSession(h) ==
    /\ \E i \in 0 .. MaxSessions : Entering(h, "open", i)
    /\ sessions' = Append(sessions, NewSession)
    /\ registry' = Len(sessions')
    /\ Reply(h, "ok", NoView)
    /\ UNCHANGED <<posed, recorded, troubles>>

(* 404: the registry has no session.                                       *)
MissingSession(h) ==
    /\ \E kind \in Kinds \ {"open"} : Entering(h, kind, 0)
    /\ Reply(h, "missing", NoView)
    /\ UNCHANGED <<sessions, registry, posed, recorded, troubles>>

(* 409: another thread holds the lock.                                     *)
Busy(h) ==
    /\ registry # 0
    /\ \E kind \in {"start", "submit", "continue"} : Entering(h, kind, registry)
    /\ sessions[registry].lock # Free
    /\ Reply(h, "busy", NoView)
    /\ UNCHANGED <<sessions, registry, posed, recorded, troubles>>

(* begin_tutoring: a fresh state on the session's thread.                  *)
BeginTutoring(h) == \E i \in 1 .. Len(sessions) :
    /\ Locking(h, "start", i)
    /\ sessions' = [sessions EXCEPT ![i].lock = h, ![i].node = "pose", ![i].exercise = 0]
    /\ jobs' = [jobs EXCEPT ![h].step = "run", ![h].session = i]
    /\ UNCHANGED <<registry, posed, recorded, troubles>>

(* Plausible bug, for mutation: a submission is not refused when no        *)
(* exercise awaits one.                                                    *)
SubmitUnasked(h) == \E i \in 1 .. Len(sessions) :
    /\ Locking(h, "submit", i)
    /\ sessions[i].exercise # 0
    /\ sessions' = [sessions EXCEPT ![i].lock = h, ![i].node = "grade"]
    /\ jobs' = [jobs EXCEPT ![h].step = "run", ![h].session = i]
    /\ UNCHANGED <<registry, posed, recorded, troubles>>

(* submit when the learner is awaited: the graph resumes with the code.    *)
Submit(h) == \E i \in 1 .. Len(sessions) :
    /\ Locking(h, "submit", i)
    /\ AwaitingStudent(sessions[i])
    /\ sessions' = [sessions EXCEPT ![i].lock = h, ![i].node = "grade"]
    /\ jobs' = [jobs EXCEPT ![h].step = "run", ![h].session = i]
    /\ UNCHANGED <<registry, posed, recorded, troubles>>

SubmitNothingAwaited(h) == \E i \in 1 .. Len(sessions) :
    /\ Locking(h, "submit", i)
    /\ ~ AwaitingStudent(sessions[i])
    /\ Reply(h, "refused", NoView)
    /\ UNCHANGED <<sessions, registry, posed, recorded, troubles>>

(* continue_turn: a turn at rest between nodes is handed to a worker.      *)
ContinueTurn(h) == \E i \in 1 .. Len(sessions) :
    /\ Locking(h, "continue", i)
    /\ AtBreakpoint(sessions[i])
    /\ sessions' = [sessions EXCEPT ![i].lock = h]
    /\ jobs' = [jobs EXCEPT ![h].step = "hand over", ![h].session = i]
    /\ UNCHANGED <<registry, posed, recorded, troubles>>

ContinueNothing(h) == \E i \in 1 .. Len(sessions) :
    /\ Locking(h, "continue", i)
    /\ ~ AtBreakpoint(sessions[i])
    /\ Reply(h, "ok", ViewOf(sessions[i]))
    /\ UNCHANGED <<sessions, registry, posed, recorded, troubles>>

(* current: _view reads the graph first and the phase later.               *)
CurrentReadsGraph(h) == \E i \in 1 .. Len(sessions) :
    /\ Entering(h, "current", i)
    /\ jobs' = [jobs EXCEPT ![h].step = "read phase", ![h].session = i,
                            ![h].view = ViewOf(sessions[i])]
    /\ UNCHANGED <<sessions, registry, posed, recorded, troubles>>

CurrentReadsPhase(h) ==
    /\ At(h, "read phase")
    /\ Reply(h, "ok", [jobs[h].view EXCEPT !.phase = sessions[jobs[h].session].phase])
    /\ UNCHANGED <<sessions, registry, posed, recorded, troubles>>

-----------------------------------------------------------------------------
(* An invocation of the graph, by the handler or the worker that holds the *)
(* session's lock.  A phased submission stops once it is graded.           *)

Stops(t) ==
    LET node == sessions[jobs[t].session].node
    IN  IF jobs[t].kind = "submit" THEN node = "record" ELSE node \notin Breakpoints

Running(t) == At(t, "run") /\ ~ Stops(t)

NodeDone(t, i, node) ==
    /\ At(t, "run") /\ ~ Stops(t)
    /\ i = jobs[t].session
    /\ sessions[i].node = node

(* generate_problem reached the interrupt of await_student.                *)
PoseNode(t) == \E i \in 1 .. Len(sessions) :
    /\ NodeDone(t, i, "pose")
    /\ posed' = posed + 1
    /\ sessions' = [sessions EXCEPT ![i].node = "await", ![i].exercise = posed + 1]
    /\ UNCHANGED <<jobs, registry, recorded, troubles>>

GradeNode(t) == \E i \in 1 .. Len(sessions) :
    /\ NodeDone(t, i, "grade")
    /\ sessions' = [sessions EXCEPT ![i].node = "record"]
    /\ UNCHANGED <<jobs, registry, posed, recorded, troubles>>

(* update_mastery, or recover when the grade was a fault of ours.          *)
RecordNode(t) == \E i \in 1 .. Len(sessions) :
    /\ NodeDone(t, i, "record")
    /\ sessions' = [sessions EXCEPT ![i].node = "adapt"]
    /\ recorded' = [recorded EXCEPT ![sessions[i].exercise] = @ + 1]
    /\ UNCHANGED <<jobs, registry, posed, troubles>>

(* route_next: one more exercise, or finalize; the bound on exercises      *)
(* stands for the session's own ceilings.                                  *)
AdaptNode(t) == \E i \in 1 .. Len(sessions), next \in {"pose", "over"} :
    /\ NodeDone(t, i, "adapt")
    /\ next = "pose" => CanPose
    /\ sessions' = [sessions EXCEPT ![i].node = next]
    /\ UNCHANGED <<jobs, registry, posed, recorded, troubles>>

(* Plausible bug, for mutation: a failed update is published as finished.  *)
PublishIdle(w, phase) ==
    /\ sessions' = [sessions EXCEPT ![jobs[w].session].phase = "idle"]
    /\ jobs' = [jobs EXCEPT ![w].step = "release"]

(* The terminal phase is published before the lock is released.            *)
Publish(w, phase) ==
    /\ sessions' = [sessions EXCEPT ![jobs[w].session].phase = phase]
    /\ jobs' = [jobs EXCEPT ![w].step = "release"]

(* Plausible bug, for mutation: a handler that fails keeps the lock.       *)
HandlerRaisesLocked(h) ==
    /\ Running(h)
    /\ Trouble
    /\ Reply(h, "broken", NoView)
    /\ UNCHANGED <<sessions, registry, posed, recorded>>

(* A node raises: the graph stays at it.  A handler releases the lock and  *)
(* answers 500, the worker goes on to publish "failed".                    *)
HandlerRaises(h) ==
    /\ Running(h)
    /\ Trouble
    /\ sessions' = [sessions EXCEPT ![jobs[h].session].lock = Free]
    /\ Reply(h, "broken", NoView)
    /\ UNCHANGED <<registry, posed, recorded>>

WorkerRaises(w) ==
    /\ Running(w)
    /\ Trouble
    /\ Publish(w, "failed")
    /\ UNCHANGED <<registry, posed, recorded>>

(* begin_tutoring returns its view and releases the lock.                  *)
StartDone(h) == \E i \in 1 .. Len(sessions) :
    /\ At(h, "run") /\ jobs[h].kind = "start" /\ Stops(h) /\ i = jobs[h].session
    /\ sessions' = [sessions EXCEPT ![i].lock = Free]
    /\ Reply(h, "ok", ViewOf(sessions[i]))
    /\ UNCHANGED <<registry, posed, recorded, troubles>>

-----------------------------------------------------------------------------
(* The hand-over and the worker.                                           *)

(* submit once the answer is graded, continue_turn at once.                *)
Handing(h, i) ==
    /\ \/ At(h, "hand over")
       \/ At(h, "run") /\ jobs[h].kind = "submit" /\ Stops(h)
    /\ i = jobs[h].session

IdleWorkers == {w \in Workers : jobs[w] = Idle}

WorkerJob(i) == [Idle EXCEPT !.kind = "finish", !.step = "run", !.session = i]

(* Plausible bugs, for mutation: the handler's own clean-up releases the   *)
(* lock it has handed over; the phase is not set before the view is built; *)
(* the worker is made and never started.                                   *)
HandOverReleasing(h) == \E i \in 1 .. Len(sessions) :
    /\ Handing(h, i)
    /\ IdleWorkers # {}
    /\ LET w == CHOOSE w \in IdleWorkers : TRUE
       IN  /\ sessions' = [sessions EXCEPT ![i].phase = "updating", ![i].lock = Free]
           /\ jobs' = [jobs EXCEPT ![w] = WorkerJob(i),
                                   ![h] = Replied(@, "ok", ViewOf(sessions'[i]))]
    /\ UNCHANGED <<registry, posed, recorded, troubles>>

HandOverUnannounced(h) == \E i \in 1 .. Len(sessions) :
    /\ Handing(h, i)
    /\ IdleWorkers # {}
    /\ LET w == CHOOSE w \in IdleWorkers : TRUE
       IN  /\ sessions' = [sessions EXCEPT ![i].lock = w]
           /\ jobs' = [jobs EXCEPT ![w] = WorkerJob(i),
                                   ![h] = Replied(@, "ok", ViewOf(sessions'[i]))]
    /\ UNCHANGED <<registry, posed, recorded, troubles>>

HandOverUnstarted(h) == \E i \in 1 .. Len(sessions) :
    /\ Handing(h, i)
    /\ IdleWorkers # {}
    /\ sessions' = [sessions EXCEPT ![i].phase = "updating",
                                    ![i].lock = CHOOSE w \in IdleWorkers : TRUE]
    /\ Reply(h, "ok", ViewOf(sessions'[i]))
    /\ UNCHANGED <<registry, posed, recorded, troubles>>

(* _start_finish_worker: the phase is set, the view built, the thread      *)
(* started; the lock is now the worker's to release.                       *)
HandOver(h) == \E i \in 1 .. Len(sessions) :
    /\ Handing(h, i)
    /\ IdleWorkers # {}
    /\ LET w == CHOOSE w \in IdleWorkers : TRUE
       IN  /\ sessions' = [sessions EXCEPT ![i].phase = "updating", ![i].lock = w]
           /\ jobs' = [jobs EXCEPT ![w] = WorkerJob(i),
                                   ![h] = Replied(@, "ok", ViewOf(sessions'[i]))]
    /\ UNCHANGED <<registry, posed, recorded, troubles>>

(* Thread.start raises: the handler answers 500 and releases the lock.     *)
HandOverFails(h) == \E i \in 1 .. Len(sessions) :
    /\ Handing(h, i)
    /\ Trouble
    /\ sessions' = [sessions EXCEPT ![i].phase = "updating", ![i].lock = Free,
                                    ![i].stranded = TRUE]
    /\ Reply(h, "broken", NoView)
    /\ UNCHANGED <<registry, posed, recorded>>

WorkerDone(w) ==
    /\ At(w, "run") /\ Stops(w)
    /\ Publish(w, "idle")
    /\ UNCHANGED <<registry, posed, recorded, troubles>>

WorkerReleases(w) ==
    /\ At(w, "release")
    /\ sessions' = [sessions EXCEPT ![jobs[w].session].lock = Free]
    /\ jobs' = [jobs EXCEPT ![w] = Idle]
    /\ UNCHANGED <<registry, posed, recorded, troubles>>

(* The process restarts: sessions, graphs and threads are gone, the rows   *)
(* stay, and whoever waits is disconnected.                                *)
Restart ==
    /\ registry # 0
    /\ Trouble
    /\ sessions' = [i \in 1 .. Len(sessions) |-> NewSession]
    /\ registry' = 0
    /\ jobs' = [t \in Threads |->
                  IF jobs[t].step \in {"idle", "replied"} THEN jobs[t]
                  ELSE IF t \in Workers THEN Idle
                  ELSE Replied(jobs[t], "lost", NoView)]
    /\ UNCHANGED <<posed, recorded>>

HandlerStep(h) ==
    \/ OpenSession(h) \/ MissingSession(h) \/ Busy(h) \/ BeginTutoring(h)
    \/ Submit(h) \/ SubmitNothingAwaited(h) \/ ContinueTurn(h) \/ ContinueNothing(h)
    \/ CurrentReadsGraph(h) \/ CurrentReadsPhase(h)
    \/ PoseNode(h) \/ GradeNode(h) \/ HandlerRaises(h) \/ StartDone(h)
    \/ HandOver(h) \/ HandOverFails(h)

WorkerStep(w) ==
    \/ PoseNode(w) \/ GradeNode(w) \/ RecordNode(w) \/ AdaptNode(w) \/ WorkerRaises(w)
    \/ WorkerDone(w) \/ WorkerReleases(w)
=============================================================================

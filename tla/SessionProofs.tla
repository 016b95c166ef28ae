--------------------------- MODULE SessionProofs ---------------------------
(***************************************************************************)
(* What holds of the sessions and the page for any number of threads,      *)
(* sessions, exercises and troubles.                                       *)
(***************************************************************************)
EXTENDS TutorPage, TLAPS

-----------------------------------------------------------------------------
(* The invariant.                                                          *)

Phases   == {"idle", "updating", "failed"}
Steps    == {"idle", "enter", "run", "hand over", "release", "read phase", "replied"}
Statuses == {"none", "ok", "missing", "busy", "refused", "broken", "lost"}

View == [exercise : Nat, phase : Phases]

Job == [kind : Kinds \cup {"none", "finish"}, step : Steps, session : Nat, view : View,
        shown : Nat, status : Statuses, heard : BOOLEAN]

Object == [lock : Threads \cup {Free}, phase : Phases, node : Nodes, exercise : Nat,
           stranded : BOOLEAN]

TypeInv ==
    /\ jobs \in [Threads -> Job]
    /\ sessions \in Seq(Object)
    /\ registry \in 0 .. Len(sessions)
    /\ posed \in Nat
    /\ recorded \in [Exercises -> Nat]
    /\ req \in Handlers \cup {Nobody}
    /\ view \in View

(* What a thread at work on a session relies on, and nobody else disturbs: *)
(* the lock is its own, and its graph and phase are where it left them.    *)
Fits(t) ==
    /\ jobs[t].step \in {"run", "hand over", "release"} =>
           /\ jobs[t].session \in 1 .. Len(sessions)
           /\ sessions[jobs[t].session].lock = t
    /\ jobs[t].step = "read phase" => jobs[t].session \in 1 .. Len(sessions)
    /\ t \in Handlers => jobs[t].step # "release"
    /\ t \in Handlers /\ jobs[t].step = "run" =>
           \/ jobs[t].kind = "start" /\ sessions[jobs[t].session].node \in {"pose", "await"}
           \/ jobs[t].kind = "submit" /\ sessions[jobs[t].session].node \in {"grade", "record"}
    /\ t \in Workers => jobs[t].step \in {"idle", "run", "release"}
    /\ t \in Workers /\ jobs[t].step = "run" =>
           /\ jobs[t].kind = "finish"
           /\ sessions[jobs[t].session].phase = "updating"
    /\ t \in Workers /\ jobs[t].step = "release" =>
           \/ sessions[jobs[t].session].node \notin {"record", "adapt"}
           \/ sessions[jobs[t].session].phase = "failed"

Reported(i) ==
    sessions[i].lock = Free /\ sessions[i].node \in {"record", "adapt"} =>
        sessions[i].phase = "failed" \/ sessions[i].stranded

SessionInv ==
    /\ TypeInv
    /\ \A t \in Threads : Fits(t)
    /\ \A i \in 1 .. Len(sessions) : Reported(i)

-----------------------------------------------------------------------------
(* Steps of one kind.                                                      *)

(* Threads are of one sort each, and neither Free nor Nobody is one.       *)
LEMMA Disjoint == /\ Handlers \cap Workers = {} /\ Free \notin Threads /\ Nobody \notin Handlers
    BY SessionAssumption, PageAssumption DEF SessionAssumption, PageAssumption, Threads

(* Replacing one session of the list changes nothing else of it.           *)
LEMMA Updated ==
    ASSUME NEW s \in Seq(Object), NEW i \in 1 .. Len(s), NEW r \in Object
    PROVE  /\ [s EXCEPT ![i] = r] \in Seq(Object)
           /\ Len([s EXCEPT ![i] = r]) = Len(s)
           /\ \A k \in 1 .. Len(s) : [s EXCEPT ![i] = r][k] = IF k = i THEN r ELSE s[k]
    OBVIOUS

(* Every session of the list is a Session object.                          *)
LEMMA Member == ASSUME NEW s \in Seq(Object), NEW i \in 1 .. Len(s) PROVE s[i] \in Object
    OBVIOUS

(* A thread with nothing to do, and a new session, are well formed.        *)
LEMMA Constants == Idle \in Job /\ NewSession \in Object
    BY DEF Idle, Job, View, NoView, Statuses, Steps, Kinds, Phases, NewSession, Object, Nodes, Threads

(* A job that has been answered is well formed and at rest.                *)
LEMMA RepliedType ==
    ASSUME NEW j \in Job, NEW status \in Statuses, NEW v \in View
    PROVE  /\ Replied(j, status, v) \in Job
           /\ Replied(j, status, v).step \in {"idle", "replied"}
    BY Constants DEF Replied, Job, Idle, Steps

(* What a request is told of a session is a view.                          *)
LEMMA ViewType == ASSUME NEW s \in Object PROVE ViewOf(s) \in View
    BY DEF ViewOf, View, Object

(* One thread changes its own job and no session.                          *)
LEMMA JobStep ==
    ASSUME SessionInv, NEW t \in Threads, NEW j \in Job,
           jobs' = [jobs EXCEPT ![t] = j],
           UNCHANGED <<sessions, registry, posed, recorded, req, view>>,
           Fits(t)'
    PROVE  SessionInv'
<1>1. TypeInv'
    BY DEF SessionInv, TypeInv
<1>2. ASSUME NEW u \in Threads PROVE Fits(u)'
  <2>1. CASE u = t
    BY <2>1
  <2>2. CASE u # t
    BY <2>2 DEF SessionInv, TypeInv, Fits
  <2> QED  BY <2>1, <2>2
<1>3. \A i \in 1 .. Len(sessions') : Reported(i)'
    BY DEF SessionInv, Reported
<1> QED  BY <1>1, <1>2, <1>3 DEF SessionInv

(* One thread changes its own job and a session whose lock is free or its  *)
(* own.                                                                    *)
LEMMA SessionStep ==
    ASSUME SessionInv, NEW t \in Threads, NEW i \in 1 .. Len(sessions),
           NEW j \in Job, NEW r \in Object,
           sessions[i].lock \in {Free, t},
           sessions' = [sessions EXCEPT ![i] = r],
           jobs' = [jobs EXCEPT ![t] = j],
           posed' \in Nat, recorded' \in [Exercises -> Nat],
           UNCHANGED <<registry, req, view>>,
           Fits(t)', Reported(i)'
    PROVE  SessionInv'
<1>1. /\ sessions' \in Seq(Object) /\ Len(sessions') = Len(sessions)
      /\ \A k \in 1 .. Len(sessions) : sessions'[k] = IF k = i THEN r ELSE sessions[k]
    BY Updated DEF SessionInv, TypeInv
<1>2. TypeInv'
    BY <1>1 DEF SessionInv, TypeInv
<1>3. ASSUME NEW u \in Threads PROVE Fits(u)'
  <2>1. CASE u = t
    BY <2>1
  <2>2. CASE u # t
    <3>1. jobs'[u] = jobs[u] /\ Fits(u)
        BY <2>2 DEF SessionInv, TypeInv
    <3>2. CASE jobs[u].step \in {"run", "hand over", "release"}
      <4>1. jobs[u].session \in 1 .. Len(sessions) /\ jobs[u].session # i
          BY <3>1, <3>2, <2>2, Disjoint DEF Fits
      <4> QED  BY <1>1, <3>1, <4>1 DEF Fits
    <3>3. CASE jobs[u].step \notin {"run", "hand over", "release"}
        BY <1>1, <3>1, <3>3 DEF Fits
    <3> QED  BY <3>2, <3>3
  <2> QED  BY <2>1, <2>2
<1>4. \A k \in 1 .. Len(sessions') : Reported(k)'
    BY <1>1 DEF SessionInv, Reported
<1> QED  BY <1>2, <1>3, <1>4 DEF SessionInv

-----------------------------------------------------------------------------
(* The handlers.                                                           *)

(* POST /session appends a session nobody is at work on.                   *)
LEMMA OpenKeeps ==
    ASSUME SessionInv, NEW h \in Handlers, OpenSession(h), Quiet
    PROVE  SessionInv'
<1>1. /\ jobs[h] \in Job /\ h \in Threads
      /\ sessions' = Append(sessions, NewSession)
      /\ registry' = Len(sessions')
      /\ jobs' = [jobs EXCEPT ![h] = Replied(jobs[h], "ok", NoView)]
      /\ UNCHANGED <<posed, recorded, req, view>>
    BY DEF OpenSession, Quiet, pageVars, Reply, SessionInv, TypeInv, Threads
<1>2. /\ Replied(jobs[h], "ok", NoView) \in Job
      /\ Replied(jobs[h], "ok", NoView).step \in {"idle", "replied"}
    BY <1>1, RepliedType DEF Statuses, View, NoView, Phases
<1>3. /\ sessions' \in Seq(Object) /\ Len(sessions') = Len(sessions) + 1
      /\ \A k \in 1 .. Len(sessions) : sessions'[k] = sessions[k]
      /\ sessions'[Len(sessions) + 1] = NewSession
    BY <1>1, Constants DEF SessionInv, TypeInv
<1>4. TypeInv'
    BY <1>1, <1>2, <1>3 DEF SessionInv, TypeInv
<1>5. ASSUME NEW u \in Threads PROVE Fits(u)'
  <2>1. CASE u = h
      BY <1>1, <1>2, <2>1, Disjoint DEF Fits, SessionInv, TypeInv
  <2>2. CASE u # h
    <3>1. jobs'[u] = jobs[u] /\ Fits(u)
        BY <1>1, <2>2 DEF SessionInv, TypeInv
    <3>2. Len(sessions) \in Nat
        BY DEF SessionInv, TypeInv
    <3>3. CASE jobs[u].step \in {"run", "hand over", "release", "read phase"}
      <4>1. jobs[u].session \in 1 .. Len(sessions)
          BY <3>1, <3>3 DEF Fits
      <4>2. sessions'[jobs[u].session] = sessions[jobs[u].session]
          BY <1>3, <4>1
      <4>3. jobs[u].session \in 1 .. Len(sessions')
          BY <1>3, <3>2, <4>1
      <4> QED  BY <3>1, <4>1, <4>2, <4>3 DEF Fits
    <3>4. CASE jobs[u].step \notin {"run", "hand over", "release", "read phase"}
        BY <3>1, <3>4 DEF Fits
    <3> QED  BY <3>3, <3>4
  <2> QED  BY <2>1, <2>2
<1>6. ASSUME NEW k \in 1 .. Len(sessions') PROVE Reported(k)'
    BY <1>3 DEF Reported, SessionInv, NewSession
<1> QED  BY <1>4, <1>5, <1>6 DEF SessionInv

(* A handler answers without having touched any session.                   *)
LEMMA ReplyKeeps ==
    ASSUME SessionInv, NEW h \in Handlers, NEW status \in Statuses, NEW v \in View,
           Reply(h, status, v), UNCHANGED <<sessions, registry, posed, recorded, req, view>>
    PROVE  SessionInv'
<1>1. jobs[h] \in Job /\ h \in Threads
    BY DEF SessionInv, TypeInv, Threads
<1> DEFINE j == Replied(jobs[h], status, v)
<1>2. j \in Job /\ j.step \in {"idle", "replied"}
    BY <1>1, RepliedType
<1>3. jobs' = [jobs EXCEPT ![h] = j]
    BY DEF Reply
<1>4. Fits(h)'
    BY <1>1, <1>2, <1>3, Disjoint DEF Fits, SessionInv, TypeInv
<1> QED  BY <1>1, <1>2, <1>3, <1>4, JobStep

(* Taking a lock: begin_tutoring, submit, continue_turn.                   *)
LEMMA TakingKeeps ==
    ASSUME SessionInv, NEW h \in Handlers, BeginTutoring(h) \/ Submit(h) \/ ContinueTurn(h), Quiet
    PROVE  SessionInv'
<1>1. h \in Threads /\ jobs[h] \in Job
    BY DEF SessionInv, TypeInv, Threads
<1>2. PICK i \in 1 .. Len(sessions), j \in Job, r \in Object :
        /\ sessions[i].lock = Free
        /\ sessions' = [sessions EXCEPT ![i] = r]
        /\ jobs' = [jobs EXCEPT ![h] = j]
        /\ r.lock = h /\ j.session = i
        /\ \/ j.step = "hand over"
           \/ j.step = "run" /\ j.kind = "start" /\ r.node = "pose"
           \/ j.step = "run" /\ j.kind = "submit" /\ r.node = "grade"
  <2>1. CASE BeginTutoring(h)
    <3>1. PICK i \in 1 .. Len(sessions) :
            /\ Locking(h, "start", i)
            /\ sessions' = [sessions EXCEPT ![i].lock = h, ![i].node = "pose", ![i].exercise = 0]
            /\ jobs' = [jobs EXCEPT ![h].step = "run", ![h].session = i]
        BY <2>1 DEF BeginTutoring
    <3> DEFINE r == [sessions[i] EXCEPT !.lock = h, !.node = "pose", !.exercise = 0]
               j == [jobs[h] EXCEPT !.step = "run", !.session = i]
    <3>2. sessions[i] \in Object /\ r \in Object /\ j \in Job
      <4>1. sessions[i] \in Object
          BY DEF SessionInv, TypeInv
      <4>2. r \in Object
          BY <1>1, <4>1 DEF Object, Nodes, Breakpoints
      <4>3. i \in Nat
          BY DEF SessionInv, TypeInv
      <4>4. j \in Job
          BY <1>1, <4>3 DEF Job, Steps
      <4> QED  BY <4>1, <4>2, <4>4
    <3>3. sessions' = [sessions EXCEPT ![i] = r] /\ jobs' = [jobs EXCEPT ![h] = j]
        BY <3>1
    <3>4. sessions[i].lock = Free /\ jobs[h].kind = "start"
        BY <3>1 DEF Locking, Entering
    <3>5. r.lock = h /\ r.node = "pose" /\ j.session = i /\ j.step = "run" /\ j.kind = "start"
        BY <1>1, <3>2, <3>4 DEF Object, Job
    <3> HIDE DEF r, j
    <3> QED  BY <3>2, <3>3, <3>4, <3>5
  <2>2. CASE Submit(h)
    <3>1. PICK i \in 1 .. Len(sessions) :
            /\ Locking(h, "submit", i)
            /\ sessions' = [sessions EXCEPT ![i].lock = h, ![i].node = "grade"]
            /\ jobs' = [jobs EXCEPT ![h].step = "run", ![h].session = i]
        BY <2>2 DEF Submit
    <3> DEFINE r == [sessions[i] EXCEPT !.lock = h, !.node = "grade"]
               j == [jobs[h] EXCEPT !.step = "run", !.session = i]
    <3>2. sessions[i] \in Object /\ r \in Object /\ j \in Job
      <4>1. sessions[i] \in Object
          BY DEF SessionInv, TypeInv
      <4>2. r \in Object
          BY <1>1, <4>1 DEF Object, Nodes, Breakpoints
      <4>3. i \in Nat
          BY DEF SessionInv, TypeInv
      <4>4. j \in Job
          BY <1>1, <4>3 DEF Job, Steps
      <4> QED  BY <4>1, <4>2, <4>4
    <3>3. sessions' = [sessions EXCEPT ![i] = r] /\ jobs' = [jobs EXCEPT ![h] = j]
        BY <3>1
    <3>4. sessions[i].lock = Free /\ jobs[h].kind = "submit"
        BY <3>1 DEF Locking, Entering
    <3>5. r.lock = h /\ r.node = "grade" /\ j.session = i /\ j.step = "run" /\ j.kind = "submit"
        BY <1>1, <3>2, <3>4 DEF Object, Job
    <3> HIDE DEF r, j
    <3> QED  BY <3>2, <3>3, <3>4, <3>5
  <2>3. CASE ContinueTurn(h)
    <3>1. PICK i \in 1 .. Len(sessions) :
            /\ Locking(h, "continue", i)
            /\ sessions' = [sessions EXCEPT ![i].lock = h]
            /\ jobs' = [jobs EXCEPT ![h].step = "hand over", ![h].session = i]
        BY <2>3 DEF ContinueTurn
    <3> DEFINE r == [sessions[i] EXCEPT !.lock = h]
               j == [jobs[h] EXCEPT !.step = "hand over", !.session = i]
    <3>2. sessions[i] \in Object /\ r \in Object /\ j \in Job
      <4>1. sessions[i] \in Object
          BY DEF SessionInv, TypeInv
      <4>2. r \in Object
          BY <1>1, <4>1 DEF Object
      <4>3. i \in Nat
          BY DEF SessionInv, TypeInv
      <4>4. j \in Job
          BY <1>1, <4>3 DEF Job, Steps
      <4> QED  BY <4>1, <4>2, <4>4
    <3>3. sessions' = [sessions EXCEPT ![i] = r] /\ jobs' = [jobs EXCEPT ![h] = j]
        BY <3>1
    <3>4. sessions[i].lock = Free
        BY <3>1 DEF Locking
    <3>5. r.lock = h /\ j.session = i /\ j.step = "hand over"
        BY <1>1, <3>2 DEF Object, Job
    <3> HIDE DEF r, j
    <3> QED  BY <3>2, <3>3, <3>4, <3>5
  <2> QED  BY <2>1, <2>2, <2>3
<1>3. UNCHANGED <<registry, posed, recorded, req, view>>
    BY DEF BeginTutoring, Submit, ContinueTurn, Quiet, pageVars
<1>4. jobs'[h] = j /\ sessions'[i] = r /\ Len(sessions') = Len(sessions)
  <2>1. sessions \in Seq(Object) /\ jobs \in [Threads -> Job]
      BY DEF SessionInv, TypeInv
  <2>2. sessions' = [sessions EXCEPT ![i] = r]
      BY <1>2
  <2>3. /\ Len([sessions EXCEPT ![i] = r]) = Len(sessions)
        /\ [sessions EXCEPT ![i] = r][i] = r
      BY <2>1, Updated
  <2> QED  BY <1>1, <1>2, <2>1, <2>2, <2>3
<1>5. h \in Handlers /\ h \notin Workers /\ h # Free
    BY <1>1, Disjoint
<1>6. Fits(h)'
    BY <1>2, <1>4, <1>5 DEF Fits
<1>7. Reported(i)'
    BY <1>2, <1>4, <1>5 DEF Reported
<1> QED  BY <1>1, <1>2, <1>3, <1>6, <1>7, SessionStep DEF SessionInv, TypeInv

(* GET /session: the graph is read.                                        *)
LEMMA ReadingKeeps ==
    ASSUME SessionInv, NEW h \in Handlers, CurrentReadsGraph(h), Quiet
    PROVE  SessionInv'
<1>1. PICK i \in 1 .. Len(sessions) :
        jobs' = [jobs EXCEPT ![h].step = "read phase", ![h].session = i,
                             ![h].view = ViewOf(sessions[i])]
    BY DEF CurrentReadsGraph
<1> DEFINE j == [jobs[h] EXCEPT !.step = "read phase", !.session = i, !.view = ViewOf(sessions[i])]
<1>2. h \in Threads /\ h \notin Workers /\ jobs[h] \in Job /\ jobs \in [Threads -> Job]
    BY Disjoint DEF SessionInv, TypeInv, Threads
<1>3. sessions[i] \in Object /\ i \in Nat
    BY DEF SessionInv, TypeInv
<1>4. j \in Job
    BY <1>2, <1>3, ViewType DEF Job, Steps
<1>5. jobs' = [jobs EXCEPT ![h] = j]
    BY <1>1
<1>6. UNCHANGED <<sessions, registry, posed, recorded, req, view>>
    BY DEF CurrentReadsGraph, Quiet, pageVars
<1>7. jobs'[h].step = "read phase" /\ jobs'[h].session = i
    BY <1>2, <1>5 DEF Job
<1>8. Fits(h)'
    BY <1>2, <1>6, <1>7 DEF Fits
<1> QED  BY <1>2, <1>4, <1>5, <1>6, <1>8, JobStep

(* GET /session: the phase is read and the view returned.                  *)
LEMMA ReadKeeps ==
    ASSUME SessionInv, NEW h \in Handlers, CurrentReadsPhase(h), Quiet
    PROVE  SessionInv'
<1> DEFINE v == [jobs[h].view EXCEPT !.phase = sessions[jobs[h].session].phase]
<1>1. h \in Threads /\ jobs[h] \in Job /\ jobs[h].session \in 1 .. Len(sessions)
    BY DEF SessionInv, TypeInv, Threads, Fits, CurrentReadsPhase, At
<1>2. sessions[jobs[h].session] \in Object
    BY <1>1 DEF SessionInv, TypeInv
<1>3. v \in View
    BY <1>1, <1>2 DEF Job, View, Object
<1>4. Reply(h, "ok", v) /\ UNCHANGED <<sessions, registry, posed, recorded, req, view>>
    BY DEF CurrentReadsPhase, Quiet, pageVars
<1> QED  BY <1>3, <1>4, ReplyKeeps DEF Statuses

(* MissingSession, Busy, SubmitNothingAwaited, ContinueNothing.            *)
LEMMA RefusingKeeps ==
    ASSUME SessionInv, NEW h \in Handlers, Quiet,
           MissingSession(h) \/ Busy(h) \/ SubmitNothingAwaited(h) \/ ContinueNothing(h)
    PROVE  SessionInv'
<1>1. NoView \in View
    BY DEF NoView, View, Phases
<1>2. CASE MissingSession(h)
    BY <1>1, <1>2, ReplyKeeps DEF MissingSession, Statuses, Quiet, pageVars
<1>3. CASE Busy(h)
    BY <1>1, <1>3, ReplyKeeps DEF Busy, Statuses, Quiet, pageVars
<1>4. CASE SubmitNothingAwaited(h)
    BY <1>1, <1>4, ReplyKeeps DEF SubmitNothingAwaited, Statuses, Quiet, pageVars
<1>5. CASE ContinueNothing(h)
  <2>1. PICK i \in 1 .. Len(sessions) : Reply(h, "ok", ViewOf(sessions[i]))
      BY <1>5 DEF ContinueNothing
  <2>2. ViewOf(sessions[i]) \in View
      BY ViewType DEF SessionInv, TypeInv
  <2>3. UNCHANGED <<sessions, registry, posed, recorded, req, view>>
      BY <1>5 DEF ContinueNothing, Quiet, pageVars
  <2> QED  BY <2>1, <2>2, <2>3, ReplyKeeps DEF Statuses
<1> QED  BY <1>2, <1>3, <1>4, <1>5

-----------------------------------------------------------------------------
(* The graph, moved by the thread that holds the lock.                     *)

(* A thread at work has a session of the list, and its lock.               *)
LEMMA Working ==
    ASSUME SessionInv, NEW t \in Threads, jobs[t].step \in {"run", "hand over", "release"}
    PROVE  /\ jobs \in [Threads -> Job] /\ jobs[t] \in Job
           /\ jobs[t].session \in 1 .. Len(sessions)
           /\ sessions[jobs[t].session] \in Object
           /\ sessions[jobs[t].session].lock = t
           /\ t # Free /\ ~ (t \in Handlers /\ t \in Workers)
<1>1. /\ jobs[t].session \in 1 .. Len(sessions)
      /\ sessions[jobs[t].session].lock = t
    BY DEF SessionInv, Fits
<1>2. jobs \in [Threads -> Job] /\ sessions \in Seq(Object)
    BY DEF SessionInv, TypeInv
<1>3. sessions[jobs[t].session] \in Object
    BY <1>1, <1>2, Member
<1> QED  BY <1>1, <1>2, <1>3, Disjoint

(* A node that is done leaves the thread at work, on the next node.        *)
LEMMA NodeKeeps ==
    ASSUME SessionInv, NEW t \in Threads, jobs[t].step = "run",
           NEW r \in Object,
           r.lock = t, r.phase = sessions[jobs[t].session].phase,
           sessions' = [sessions EXCEPT ![jobs[t].session] = r],
           UNCHANGED <<jobs, registry, req, view>>,
           posed' \in Nat, recorded' \in [Exercises -> Nat],
           t \in Handlers => \/ jobs[t].kind = "start" /\ r.node \in {"pose", "await"}
                             \/ jobs[t].kind = "submit" /\ r.node \in {"grade", "record"}
    PROVE  SessionInv'
<1> DEFINE i == jobs[t].session
<1>1. /\ i \in 1 .. Len(sessions) /\ sessions[i].lock = t /\ t # Free /\ Fits(t)
      /\ jobs \in [Threads -> Job] /\ jobs[t] \in Job
    BY Working DEF SessionInv
<1>2. jobs' = [jobs EXCEPT ![t] = jobs[t]]
    BY <1>1
<1>3. sessions \in Seq(Object)
    BY DEF SessionInv, TypeInv
<1>4. sessions'[i] = r /\ Len(sessions') = Len(sessions)
    BY <1>1, <1>3, Updated
<1>5. Fits(t)'
    BY <1>1, <1>4 DEF Fits
<1>6. Reported(i)'
    BY <1>1, <1>4 DEF Reported
<1> QED  BY <1>1, <1>2, <1>5, <1>6, SessionStep

(* generate_problem stops where the learner is awaited.                    *)
LEMMA PoseKeeps ==
    ASSUME SessionInv, NEW t \in Threads, PoseNode(t), Quiet
    PROVE  SessionInv'
<1> DEFINE i == jobs[t].session
           r == [sessions[i] EXCEPT !.node = "await", !.exercise = posed + 1]
<1>1. /\ jobs[t].step = "run" /\ sessions[i].node = "pose"
      /\ posed' = posed + 1
      /\ sessions' = [sessions EXCEPT ![i].node = "await", ![i].exercise = posed + 1]
      /\ UNCHANGED <<jobs, registry, recorded, req, view>>
    BY DEF PoseNode, NodeDone, At, Quiet, pageVars
<1>2. Fits(t) /\ sessions[i] \in Object /\ sessions[i].lock = t
    BY <1>1, Working DEF SessionInv
<1>3. posed' \in Nat /\ recorded' \in [Exercises -> Nat]
    BY <1>1 DEF SessionInv, TypeInv
<1>4. /\ r \in Object /\ r.lock = t /\ r.phase = sessions[i].phase /\ r.node = "await"
    BY <1>1, <1>2, <1>3 DEF Object, Nodes
<1>5. t \in Handlers => jobs[t].kind = "start"
    BY <1>1, <1>2 DEF Fits
<1>6. sessions' = [sessions EXCEPT ![i] = r]
    BY <1>1
<1> HIDE DEF r
<1> QED  BY <1>1, <1>3, <1>4, <1>5, <1>6, NodeKeeps

(* grade is followed by the record of the grade.                           *)
LEMMA GradeKeeps ==
    ASSUME SessionInv, NEW t \in Threads, GradeNode(t), Quiet
    PROVE  SessionInv'
<1> DEFINE i == jobs[t].session
           r == [sessions[i] EXCEPT !.node = "record"]
<1>1. /\ jobs[t].step = "run" /\ sessions[i].node = "grade"
      /\ sessions' = [sessions EXCEPT ![i].node = "record"]
      /\ UNCHANGED <<jobs, registry, posed, recorded, req, view>>
    BY DEF GradeNode, NodeDone, At, Quiet, pageVars
<1>2. Fits(t) /\ sessions[i] \in Object /\ sessions[i].lock = t
    BY <1>1, Working DEF SessionInv
<1>3. posed' \in Nat /\ recorded' \in [Exercises -> Nat]
    BY <1>1 DEF SessionInv, TypeInv
<1>4. /\ r \in Object /\ r.lock = t /\ r.phase = sessions[i].phase /\ r.node = "record"
    BY <1>2 DEF Object, Nodes, Breakpoints
<1>5. t \in Handlers => jobs[t].kind = "submit"
    BY <1>1, <1>2 DEF Fits
<1>6. sessions' = [sessions EXCEPT ![i] = r]
    BY <1>1
<1> HIDE DEF r
<1> QED  BY <1>1, <1>3, <1>4, <1>5, <1>6, NodeKeeps

(* The nodes only a worker runs.                                           *)
LEMMA RecordKeeps ==
    ASSUME SessionInv, NEW w \in Workers, RecordNode(w), Quiet
    PROVE  SessionInv'
<1> DEFINE i == jobs[w].session
           r == [sessions[i] EXCEPT !.node = "adapt"]
           x == sessions[i].exercise
<1>1. /\ w \in Threads /\ w \notin Handlers
      /\ jobs[w].step = "run"
      /\ sessions' = [sessions EXCEPT ![i].node = "adapt"]
      /\ recorded' = [recorded EXCEPT ![x] = @ + 1]
      /\ UNCHANGED <<jobs, registry, posed, req, view>>
    BY Disjoint DEF RecordNode, NodeDone, At, Quiet, pageVars, Threads
<1>2. sessions[i] \in Object /\ sessions[i].lock = w
    BY <1>1, Working
<1>3. posed' \in Nat /\ recorded' \in [Exercises -> Nat]
  <2>1. posed \in Nat /\ recorded \in [Exercises -> Nat]
      BY DEF SessionInv, TypeInv
  <2>2. \A y \in Exercises : recorded[y] + 1 \in Nat
      BY <2>1
  <2> HIDE DEF x
  <2> QED  BY <1>1, <2>1, <2>2
<1>4. r \in Object /\ r.lock = w /\ r.phase = sessions[i].phase
    BY <1>2 DEF Object, Nodes, Breakpoints
<1>5. sessions' = [sessions EXCEPT ![i] = r]
    BY <1>1
<1> HIDE DEF r
<1> QED  BY <1>1, <1>3, <1>4, <1>5, NodeKeeps

(* adapt is followed by another exercise or by the end.                    *)
LEMMA AdaptKeeps ==
    ASSUME SessionInv, NEW w \in Workers, AdaptNode(w), Quiet
    PROVE  SessionInv'
<1> DEFINE i == jobs[w].session
<1>1. PICK next \in {"pose", "over"} : sessions' = [sessions EXCEPT ![i].node = next]
    BY DEF AdaptNode, NodeDone
<1>2. /\ w \in Threads /\ w \notin Handlers
      /\ jobs[w].step = "run"
      /\ UNCHANGED <<jobs, registry, posed, recorded, req, view>>
    BY Disjoint DEF AdaptNode, NodeDone, At, Quiet, pageVars, Threads
<1> DEFINE r == [sessions[i] EXCEPT !.node = next]
<1>3. sessions[i] \in Object /\ sessions[i].lock = w
    BY <1>2, Working
<1>4. posed' \in Nat /\ recorded' \in [Exercises -> Nat]
    BY <1>2 DEF SessionInv, TypeInv
<1>5. r \in Object /\ r.lock = w /\ r.phase = sessions[i].phase
    BY <1>3 DEF Object, Nodes, Breakpoints
<1>6. sessions' = [sessions EXCEPT ![i] = r]
    BY <1>1
<1> HIDE DEF r
<1> QED  BY <1>2, <1>4, <1>5, <1>6, NodeKeeps

-----------------------------------------------------------------------------
(* The end of an invocation.                                               *)

(* A handler answers and lets the lock of its session go.                  *)
LEMMA LettingGo ==
    ASSUME SessionInv, NEW h \in Handlers, jobs[h].step \in {"run", "hand over"},
           NEW status \in Statuses, NEW v \in View, NEW r \in Object,
           Reply(h, status, v),
           sessions' = [sessions EXCEPT ![jobs[h].session] = r],
           UNCHANGED <<registry, posed, recorded, req, view>>,
           r.node \in {"record", "adapt"} => r.phase = "failed" \/ r.stranded
    PROVE  SessionInv'
<1> DEFINE j == Replied(jobs[h], status, v)
<1>1. h \in Threads /\ h \notin Workers
    BY Disjoint DEF Threads
<1>0. PICK i \in 1 .. Len(sessions) : i = jobs[h].session
    BY <1>1, Working
<1>2. jobs \in [Threads -> Job] /\ jobs[h] \in Job /\ sessions[i].lock = h
    BY <1>0, <1>1, Working
<1>3. j \in Job /\ j.step \in {"idle", "replied"}
    BY <1>2, RepliedType
<1>4. jobs' = [jobs EXCEPT ![h] = j] /\ jobs'[h] = j
    BY <1>1, <1>2 DEF Reply
<1>5. posed' \in Nat /\ recorded' \in [Exercises -> Nat]
    BY DEF SessionInv, TypeInv
<1>6. sessions' = [sessions EXCEPT ![i] = r]
    BY <1>0
<1>7. sessions'[i] = r
  <2>1. sessions \in Seq(Object)
      BY DEF SessionInv, TypeInv
  <2>2. \A k \in 1 .. Len(sessions) :
             [sessions EXCEPT ![i] = r][k] = IF k = i THEN r ELSE sessions[k]
      BY <2>1, Updated, Zenon
  <2> QED  BY <1>6, <2>2
<1>8. Fits(h)'
    BY <1>1, <1>3, <1>4 DEF Fits
<1>9. Reported(i)'
    BY <1>7 DEF Reported
<1> HIDE DEF j
<1> QED  BY <1>1, <1>2, <1>3, <1>4, <1>5, <1>6, <1>8, <1>9, SessionStep

(* A node raises in a handler, which lets the lock go.                     *)
LEMMA RaisingKeeps ==
    ASSUME SessionInv, NEW h \in Handlers, HandlerRaises(h), Quiet
    PROVE  SessionInv'
<1> DEFINE i == jobs[h].session
           r == [sessions[i] EXCEPT !.lock = Free]
<1>1. /\ h \in Threads /\ jobs[h].step = "run" /\ ~ Stops(h)
      /\ sessions' = [sessions EXCEPT ![i].lock = Free]
      /\ Reply(h, "broken", NoView)
      /\ UNCHANGED <<registry, posed, recorded, req, view>>
    BY DEF HandlerRaises, Running, At, Quiet, pageVars, Threads
<1>2. Fits(h) /\ sessions[i] \in Object
    BY <1>1, Working DEF SessionInv
<1>3. r \in Object /\ r.node = sessions[i].node
    BY <1>2 DEF Object
<1>4. r.node \notin {"record", "adapt"}
    BY <1>1, <1>2, <1>3 DEF Fits, Stops
<1>5. sessions' = [sessions EXCEPT ![i] = r]
    BY <1>1
<1>6. NoView \in View /\ "broken" \in Statuses
    BY DEF NoView, View, Phases, Statuses
<1> HIDE DEF r
<1> QED  BY <1>1, <1>3, <1>4, <1>5, <1>6, LettingGo

(* begin_tutoring returns its view and lets the lock go.                   *)
LEMMA StartedKeeps ==
    ASSUME SessionInv, NEW h \in Handlers, StartDone(h), Quiet
    PROVE  SessionInv'
<1> DEFINE i == jobs[h].session
           r == [sessions[i] EXCEPT !.lock = Free]
<1>1. /\ h \in Threads /\ jobs[h].step = "run" /\ jobs[h].kind = "start" /\ Stops(h)
      /\ sessions' = [sessions EXCEPT ![i].lock = Free]
      /\ Reply(h, "ok", ViewOf(sessions[i]))
      /\ UNCHANGED <<registry, posed, recorded, req, view>>
    BY DEF StartDone, At, Quiet, pageVars, Threads
<1>2. sessions[i] \in Object
    BY <1>1, Working
<1>3. r \in Object /\ r.node = sessions[i].node
    BY <1>2 DEF Object
<1>4. r.node \notin {"record", "adapt"}
    BY <1>1, <1>3 DEF Stops, Breakpoints
<1>5. sessions' = [sessions EXCEPT ![i] = r]
    BY <1>1
<1>6. ViewOf(sessions[i]) \in View /\ "ok" \in Statuses
    BY <1>2, ViewType DEF Statuses
<1> HIDE DEF r
<1> QED  BY <1>1, <1>3, <1>4, <1>5, <1>6, LettingGo

(* The worker does not start: the handler lets the lock go.                *)
LEMMA StrandingKeeps ==
    ASSUME SessionInv, NEW h \in Handlers, HandOverFails(h), Quiet
    PROVE  SessionInv'
<1> DEFINE i == jobs[h].session
           r == [sessions[i] EXCEPT !.phase = "updating", !.lock = Free, !.stranded = TRUE]
<1>1. /\ h \in Threads /\ jobs[h].step \in {"run", "hand over"}
      /\ sessions' = [sessions EXCEPT ![i].phase = "updating", ![i].lock = Free,
                                      ![i].stranded = TRUE]
      /\ Reply(h, "broken", NoView)
      /\ UNCHANGED <<registry, posed, recorded, req, view>>
    BY DEF HandOverFails, Handing, At, Quiet, pageVars, Threads
<1>2. sessions[i] \in Object
    BY <1>1, Working
<1>3. r \in Object
    BY <1>2 DEF Object, Phases
<1>4. r.stranded
    BY <1>2 DEF Object
<1>5. sessions' = [sessions EXCEPT ![i] = r]
    BY <1>1
<1>6. NoView \in View /\ "broken" \in Statuses
    BY DEF NoView, View, Phases, Statuses
<1> HIDE DEF r
<1> QED  BY <1>1, <1>3, <1>4, <1>5, <1>6, LettingGo

(* The worker publishes a phase, and then lets the lock go.                *)
LEMMA PublishingKeeps ==
    ASSUME SessionInv, NEW w \in Workers, WorkerDone(w) \/ WorkerRaises(w), Quiet
    PROVE  SessionInv'
<1> DEFINE j == [jobs[w] EXCEPT !.step = "release"]
<1>0. PICK i \in 1 .. Len(sessions) : i = jobs[w].session
    BY Working DEF Threads, WorkerDone, WorkerRaises, Running, At
<1>1. PICK phase \in Phases :
        /\ Publish(w, phase)
        /\ phase = "failed" \/ Stops(w)
    BY DEF WorkerDone, WorkerRaises, Phases
<1> DEFINE r == [sessions[i] EXCEPT !.phase = phase]
<1>2. /\ w \in Threads /\ w \notin Handlers /\ jobs[w].step = "run"
      /\ UNCHANGED <<registry, posed, recorded, req, view>>
    BY Disjoint DEF WorkerDone, WorkerRaises, Running, At, Quiet, pageVars, Threads
<1>3. /\ Fits(w) /\ sessions[i] \in Object /\ sessions[i].lock = w /\ w # Free
      /\ jobs \in [Threads -> Job] /\ jobs[w] \in Job
    BY <1>0, <1>2, Working DEF SessionInv
<1>4. /\ r \in Object /\ r.lock = w /\ r.phase = phase /\ r.node = sessions[i].node
    BY <1>3 DEF Object
<1>5. j \in Job /\ j.step = "release" /\ j.session = i
    BY <1>0, <1>3 DEF Job, Steps
<1>6. sessions' = [sessions EXCEPT ![i] = r] /\ jobs' = [jobs EXCEPT ![w] = j]
    BY <1>0, <1>1 DEF Publish
<1>7. jobs'[w] = j
    BY <1>2, <1>3, <1>6
<1>8. sessions \in Seq(Object) /\ posed' \in Nat /\ recorded' \in [Exercises -> Nat]
    BY <1>2 DEF SessionInv, TypeInv
<1>9. sessions'[i] = r /\ Len(sessions') = Len(sessions)
    BY <1>3, <1>4, <1>6, <1>8, Updated
<1>10. r.node \in {"record", "adapt"} => r.phase = "failed"
    BY <1>0, <1>1, <1>2, <1>3, <1>4 DEF Stops, Breakpoints, Fits
<1> HIDE DEF r, j
<1>11. Fits(w)'
    BY <1>2, <1>3, <1>4, <1>5, <1>7, <1>9, <1>10 DEF Fits
<1>12. Reported(i)'
    BY <1>3, <1>4, <1>9 DEF Reported
<1> QED  BY <1>2, <1>3, <1>4, <1>5, <1>6, <1>8, <1>11, <1>12, SessionStep

(* The worker lets the lock go, its phase published before.                *)
LEMMA ReleasingKeeps ==
    ASSUME SessionInv, NEW w \in Workers, WorkerReleases(w), Quiet
    PROVE  SessionInv'
<1>0. PICK i \in 1 .. Len(sessions) : i = jobs[w].session
    BY Working DEF Threads, WorkerReleases, At
<1> DEFINE r == [sessions[i] EXCEPT !.lock = Free]
<1>1. /\ w \in Threads /\ w \notin Handlers /\ jobs[w].step = "release"
      /\ sessions' = [sessions EXCEPT ![i].lock = Free]
      /\ jobs' = [jobs EXCEPT ![w] = Idle]
      /\ UNCHANGED <<registry, posed, recorded, req, view>>
    BY <1>0, Disjoint DEF WorkerReleases, At, Quiet, pageVars, Threads
<1>2. /\ Fits(w) /\ sessions[i] \in Object /\ sessions[i].lock = w
      /\ jobs \in [Threads -> Job]
    BY <1>0, <1>1, Working DEF SessionInv
<1>3. r \in Object /\ r.phase = sessions[i].phase /\ r.node = sessions[i].node
    BY <1>2 DEF Object
<1>4. sessions' = [sessions EXCEPT ![i] = r]
    BY <1>1
<1>5. sessions \in Seq(Object) /\ posed' \in Nat /\ recorded' \in [Exercises -> Nat]
    BY <1>1 DEF SessionInv, TypeInv
<1>6. sessions'[i] = r
    BY <1>2, <1>3, <1>4, <1>5, Updated
<1>7. Reported(i)'
    BY <1>0, <1>1, <1>2, <1>3, <1>6 DEF Reported, Fits
<1>8. jobs'[w].step = "idle"
    BY <1>1, <1>2 DEF Idle
<1>9. Fits(w)'
    BY <1>1, <1>8 DEF Fits
<1> HIDE DEF r
<1> QED  BY <1>1, <1>2, <1>3, <1>4, <1>5, <1>7, <1>9, SessionStep, Constants

(* The lock passes from the handler to a worker that was idle.             *)
LEMMA HandingKeeps ==
    ASSUME SessionInv, NEW h \in Handlers, HandOver(h), Quiet
    PROVE  SessionInv'
<1>0. PICK w : w = CHOOSE u \in IdleWorkers : TRUE
    OBVIOUS
<1>1. PICK i \in 1 .. Len(sessions) :
        /\ Handing(h, i)
        /\ IdleWorkers # {}
        /\ sessions' = [sessions EXCEPT ![i].phase = "updating", ![i].lock = w]
        /\ jobs' = [jobs EXCEPT ![w] = WorkerJob(i),
                                ![h] = Replied(@, "ok", ViewOf(sessions'[i]))]
        /\ UNCHANGED <<registry, posed, recorded>>
    BY <1>0, Zenon DEF HandOver
<1>2. w \in Workers
    BY <1>0, <1>1, Zenon DEF IdleWorkers
<1> DEFINE s == [sessions[i] EXCEPT !.phase = "updating", !.lock = w]
           j == Replied(jobs[h], "ok", ViewOf(s))
<1>3. /\ h \in Threads /\ h \notin Workers /\ w \in Threads /\ w \notin Handlers /\ w # h
      /\ w # Free
    BY <1>2, Disjoint DEF Threads
<1>4. jobs[h].step \in {"run", "hand over"} /\ jobs[h].session = i
    BY <1>1 DEF Handing, At
<1>5. /\ jobs \in [Threads -> Job] /\ jobs[h] \in Job
      /\ sessions[i] \in Object /\ sessions[i].lock = h
    BY <1>3, <1>4, Working
<1>6. s \in Object /\ s.phase = "updating" /\ s.lock = w
    BY <1>3, <1>5 DEF Object, Phases
<1>7. sessions' = [sessions EXCEPT ![i] = s]
    BY <1>1
<1> HIDE DEF s
<1>8. /\ sessions \in Seq(Object) /\ sessions' \in Seq(Object)
      /\ Len(sessions') = Len(sessions) /\ i \in Nat /\ i \in 1 .. Len(sessions')
      /\ \A k \in 1 .. Len(sessions) : sessions'[k] = IF k = i THEN s ELSE sessions[k]
  <2>1. sessions \in Seq(Object)
      BY DEF SessionInv, TypeInv
  <2>2. /\ [sessions EXCEPT ![i] = s] \in Seq(Object)
        /\ Len([sessions EXCEPT ![i] = s]) = Len(sessions)
        /\ \A k \in 1 .. Len(sessions) :
               [sessions EXCEPT ![i] = s][k] = IF k = i THEN s ELSE sessions[k]
      BY <1>6, <2>1, Updated
  <2>3. i \in Nat
      BY <2>1
  <2>4. i \in 1 .. Len(sessions)
      OBVIOUS
  <2> QED  BY <1>7, <2>1, <2>2, <2>3, <2>4
<1>9. j \in Job /\ j.step \in {"idle", "replied"}
    BY <1>5, <1>6, RepliedType, ViewType DEF Statuses
<1>10. WorkerJob(i) \in Job
    BY <1>8, Constants DEF WorkerJob, Job, Steps
<1>11. sessions'[i] = s
    BY <1>8
<1>12. jobs' = [jobs EXCEPT ![w] = WorkerJob(i), ![h] = j]
    BY <1>1, <1>3, <1>11
<1> HIDE DEF j
<1>13. /\ jobs' \in [Threads -> Job] /\ jobs'[w] = WorkerJob(i) /\ jobs'[h] = j
       /\ \A u \in Threads : u # w /\ u # h => jobs'[u] = jobs[u]
    BY <1>3, <1>5, <1>9, <1>10, <1>12
<1>14. UNCHANGED <<registry, posed, recorded, req, view>>
    BY <1>1 DEF Quiet, pageVars
<1>15. TypeInv'
    BY <1>8, <1>13, <1>14 DEF SessionInv, TypeInv
<1>16. Fits(w)'
  <2>1. WorkerJob(i).step = "run" /\ WorkerJob(i).kind = "finish" /\ WorkerJob(i).session = i
      BY DEF WorkerJob, Idle
  <2> QED  BY <1>3, <1>6, <1>8, <1>11, <1>13, <2>1 DEF Fits
<1>17. Fits(h)'
    BY <1>3, <1>9, <1>13 DEF Fits
<1>18. ASSUME NEW u \in Threads, u # w, u # h PROVE Fits(u)'
  <2>1. jobs'[u] = jobs[u] /\ Fits(u)
      BY <1>13, <1>18 DEF SessionInv
  <2>2. CASE jobs[u].step \in {"run", "hand over", "release"}
    <3>1. jobs[u].session \in 1 .. Len(sessions) /\ jobs[u].session # i
        BY <1>5, <1>18, <2>1, <2>2 DEF Fits
    <3> QED  BY <1>8, <2>1, <3>1 DEF Fits
  <2>3. CASE jobs[u].step \notin {"run", "hand over", "release"}
      BY <1>8, <2>1, <2>3 DEF Fits
  <2> QED  BY <2>2, <2>3
<1>19. \A k \in 1 .. Len(sessions') : Reported(k)'
    BY <1>3, <1>6, <1>8 DEF Reported, SessionInv
<1>20. \A u \in Threads : Fits(u)'
    BY <1>16, <1>17, <1>18
<1> QED  BY <1>15, <1>19, <1>20 DEF SessionInv

(* After a restart nobody is at work and no session is unfinished.         *)
LEMMA RestartingKeeps ==
    ASSUME SessionInv, Restart, UNCHANGED <<req, view>>
    PROVE  SessionInv'
<1>1. /\ sessions' = [i \in 1 .. Len(sessions) |-> NewSession]
      /\ registry' = 0 /\ UNCHANGED <<posed, recorded>>
      /\ jobs' = [t \in Threads |->
                    IF jobs[t].step \in {"idle", "replied"} THEN jobs[t]
                    ELSE IF t \in Workers THEN Idle
                    ELSE Replied(jobs[t], "lost", NoView)]
    BY DEF Restart
<1>2. /\ sessions \in Seq(Object) /\ jobs \in [Threads -> Job]
      /\ Len(sessions) \in Nat
    BY DEF SessionInv, TypeInv
<1>3. sessions' \in Seq(Object) /\ Len(sessions') = Len(sessions)
    BY <1>1, <1>2, Constants
<1>4. ASSUME NEW t \in Threads
      PROVE  jobs'[t] \in Job /\ jobs'[t].step \in {"idle", "replied"}
                /\ (t \in Workers => jobs'[t].step = "idle")
  <2>1. Replied(jobs[t], "lost", NoView) \in Job
            /\ Replied(jobs[t], "lost", NoView).step \in {"idle", "replied"}
      BY <1>2, RepliedType DEF Statuses, View, NoView, Phases
  <2>2. Idle \in Job /\ Idle.step = "idle"
      BY Constants DEF Idle
  <2>3. jobs[t] \in Job /\ (t \in Workers => jobs[t].step \in {"idle", "run", "release"})
      BY <1>2 DEF SessionInv, Fits
  <2>4. CASE jobs[t].step \in {"idle", "replied"}
      BY <1>1, <2>3, <2>4
  <2>5. CASE jobs[t].step \notin {"idle", "replied"} /\ t \in Workers
      BY <1>1, <2>2, <2>5
  <2>6. CASE jobs[t].step \notin {"idle", "replied"} /\ t \notin Workers
      BY <1>1, <2>1, <2>6
  <2> QED  BY <2>4, <2>5, <2>6
<1>5. TypeInv'
  <2>1. jobs' \in [Threads -> Job]
      BY <1>1, <1>4
  <2> QED  BY <1>1, <1>2, <1>3, <2>1 DEF SessionInv, TypeInv
<1>6. \A t \in Threads : Fits(t)'
    BY <1>4 DEF Fits
<1>7. ASSUME NEW i \in 1 .. Len(sessions') PROVE Reported(i)'
    BY <1>1, <1>3 DEF Reported, NewSession
<1> QED  BY <1>5, <1>6, <1>7 DEF SessionInv

-----------------------------------------------------------------------------
(* The steps of the page: they move no session, and no thread at work.     *)

(* A step that sends, takes or drops a request disturbs no thread.         *)
LEMMA PageStepKeeps ==
    ASSUME SessionInv, UNCHANGED <<sessions, registry, posed, recorded>>,
           jobs' \in [Threads -> Job],
           \A t \in Threads :
              \/ jobs'[t] = jobs[t]
              \/ jobs'[t] = [jobs[t] EXCEPT !.heard = FALSE]
              \/ t \in Handlers /\ jobs'[t].step \in {"idle", "enter"},
           req' \in Handlers \cup {Nobody}, view' \in View
    PROVE  SessionInv'
<1>1. TypeInv'
    BY DEF SessionInv, TypeInv
<1>2. ASSUME NEW t \in Threads PROVE Fits(t)'
  <2>1. jobs[t] \in Job /\ Fits(t)
      BY DEF SessionInv, TypeInv
  <2>2. CASE \/ jobs'[t] = jobs[t]
             \/ jobs'[t] = [jobs[t] EXCEPT !.heard = FALSE]
    <3>1. /\ jobs'[t].step = jobs[t].step /\ jobs'[t].kind = jobs[t].kind
          /\ jobs'[t].session = jobs[t].session
        BY <2>1, <2>2 DEF Job
    <3> QED  BY <2>1, <3>1 DEF Fits
  <2>3. CASE t \in Handlers /\ jobs'[t].step \in {"idle", "enter"}
      BY <2>3, Disjoint DEF Fits
  <2> QED  BY <2>2, <2>3
<1>3. \A i \in 1 .. Len(sessions') : Reported(i)'
    BY DEF SessionInv, Reported
<1> QED  BY <1>1, <1>2, <1>3 DEF SessionInv

(* Taking an answer leaves its handler idle and the others alone.          *)
LEMMA TakenType ==
    ASSUME SessionInv
    PROVE  /\ Taken \in [Threads -> Job]
           /\ \A t \in Threads :
                 Taken[t] = jobs[t] \/ (t \in Handlers /\ Taken[t].step = "idle")
<1>1. jobs \in [Threads -> Job] /\ req \in Handlers \cup {Nobody} /\ Idle \in Job
    BY Constants DEF SessionInv, TypeInv
<1>2. CASE req = Nobody
  <2>1. Taken = jobs
      BY <1>2, Zenon DEF Taken
  <2> QED  BY <1>1, <2>1
<1>3. CASE req # Nobody
  <2>1. req \in Handlers /\ req \in Threads /\ Idle.step = "idle"
      BY <1>1, <1>3 DEF Idle, Threads
  <2>2. Taken = [jobs EXCEPT ![req] = Idle]
      BY <1>3, Zenon DEF Taken
  <2> QED  BY <1>1, <2>1, <2>2
<1> QED  BY <1>2, <1>3

(* The page takes its answer and rests.                                    *)
LEMMA SettleKeeps ==
    ASSUME SessionInv, NEW next, Settle(next), view' \in View
    PROVE  SessionInv'
<1>1. jobs' = Taken /\ req' = Nobody /\ UNCHANGED <<sessions, registry, posed, recorded>>
    BY DEF Settle
<1> QED  BY <1>1, TakenType, PageStepKeeps

(* The page takes its answer and sends its next request.                   *)
LEMMA SendKeeps ==
    ASSUME SessionInv, NEW kind \in Kinds, NEW next, Send(kind, next), view' \in View
    PROVE  SessionInv'
<1>1. PICK shown \in Nat : jobs' = [Taken EXCEPT ![req'] = Request(kind, shown)]
  <2> DEFINE n == IF kind = "submit" THEN view.exercise ELSE 0
  <2>1. n \in Nat
      BY DEF SessionInv, TypeInv, View
  <2>2. jobs' = [Taken EXCEPT ![req'] = Request(kind, n)]
      BY Zenon DEF Send
  <2> HIDE DEF n
  <2> QED  BY <2>1, <2>2
<1>2. req' \in Handlers
    BY Zenon DEF Send
<1>3. UNCHANGED <<sessions, registry, posed, recorded>>
    BY Zenon DEF Send
<1>4. Request(kind, shown) \in Job /\ Request(kind, shown).step = "enter"
    BY <1>1, Constants DEF Request, Idle, Job, Steps
<1>5. Taken \in [Threads -> Job] /\ req' \in Threads
    BY <1>2, TakenType DEF Threads
<1>6. jobs' \in [Threads -> Job]
    BY <1>1, <1>4, <1>5
<1>7. \A t \in Threads :
         jobs'[t] = jobs[t] \/ (t \in Handlers /\ jobs'[t].step \in {"idle", "enter"})
    BY <1>1, <1>2, <1>4, <1>5, TakenType
<1> QED  BY <1>2, <1>3, <1>6, <1>7, PageStepKeeps

(* What the page is told is a view.                                        *)
LEMMA ToldType ==
    ASSUME SessionInv, req # Nobody
    PROVE  Told \in View
<1>1. req \in Threads /\ jobs \in [Threads -> Job]
    BY DEF SessionInv, TypeInv, Threads
<1>2. jobs[req] \in Job
    BY <1>1
<1> QED  BY <1>2 DEF Told, Job

(* pollTurn, whatever phase it was told.                                   *)
LEMMA PollTurnKeeps ==
    ASSUME SessionInv, NEW next \in View, PollTurn(next)
    PROVE  SessionInv'
<1>1. CASE Send("continue", "continuing") /\ view' = next
    BY <1>1, SendKeeps DEF Kinds
<1>2. CASE (Settle("sleeping") \/ Settle("rest")) /\ view' = next
    BY <1>2, SettleKeeps
<1> QED  BY <1>1, <1>2 DEF PollTurn, ApplyCompletedTurn, Show

(* Every answer the page handles, and its poll timer.                      *)
LEMMA PageKeeps ==
    ASSUME SessionInv, Page
    PROVE  SessionInv'
<1>1. view \in View /\ NoView \in View
    BY DEF SessionInv, TypeInv, NoView, View, Phases
<1>2. ASSUME NEW next, Settle(next), view' \in View PROVE SessionInv'
    BY <1>2, SettleKeeps
<1>3. CASE PollSession
    BY <1>1, <1>3, SendKeeps DEF PollSession, Kinds
<1>4. CASE RecoverExercise
    BY <1>1, <1>4, SendKeeps DEF RecoverExercise, OpenAs, Kinds
<1>5. CASE Fail
    BY <1>1, <1>2, <1>5 DEF Fail
<1>6. ASSUME req # Nobody, PollTurn(Told) PROVE SessionInv'
    BY <1>6, ToldType, PollTurnKeeps
<1>7. CASE Opened
    BY <1>1, <1>2, <1>7 DEF Opened
<1>8. CASE Recovered
    BY <1>1, <1>2, <1>5, <1>8 DEF Recovered, ApplyCompletedTurn, Show
<1>9. CASE Started
  <2>1. CASE Show(Told, "idle")
      BY <1>2, <1>9, <2>1, ToldType DEF Show, Started, Answered
  <2> QED  BY <1>4, <1>5, <1>9, <2>1 DEF Started
<1>10. CASE Submitted
    BY <1>3, <1>4, <1>5, <1>6, <1>10 DEF Submitted, Answered
<1>11. CASE Polled
    BY <1>5, <1>6, <1>11 DEF Polled, Answered
<1>12. CASE Wake
    BY <1>3, <1>12 DEF Wake
<1>13. CASE Continued
    BY <1>3, <1>5, <1>6, <1>13 DEF Continued, Answered
<1> QED  BY <1>7, <1>8, <1>9, <1>10, <1>11, <1>12, <1>13 DEF Page

(* Everything the learner does, loading the page again included.           *)
LEMMA LearnerKeeps ==
    ASSUME SessionInv, Learner
    PROVE  SessionInv'
<1>1. /\ view \in View /\ NoView \in View /\ jobs \in [Threads -> Job]
      /\ req \in Handlers \cup {Nobody}
    BY DEF SessionInv, TypeInv, NoView, View, Phases
<1>2. ASSUME NEW kind \in Kinds, NEW next, Send(kind, next), UNCHANGED view
      PROVE  SessionInv'
    BY <1>1, <1>2, SendKeeps
<1>3. CASE Open
    BY <1>2, <1>3 DEF Open, OpenAs, Kinds
<1>4. CASE StartSkill
    BY <1>2, <1>4 DEF StartSkill, Kinds
<1>5. CASE SubmitCode
    BY <1>2, <1>5 DEF SubmitCode, Kinds
<1>6. CASE ResumeTurn
    BY <1>2, <1>6 DEF ResumeTurn, Kinds
<1>7. CASE Reload
  <2>1. /\ jobs' = [t \in Threads |-> CASE t # req -> jobs[t]
                                        [] t = req /\ At(t, "replied") -> Idle
                                        [] OTHER -> [jobs[t] EXCEPT !.heard = FALSE]]
        /\ req' = Nobody /\ view' = NoView
        /\ UNCHANGED <<sessions, registry, posed, recorded>>
      BY <1>7 DEF Reload
  <2>2. ASSUME NEW t \in Threads
        PROVE  /\ jobs'[t] \in Job
               /\ \/ jobs'[t] = jobs[t]
                  \/ jobs'[t] = [jobs[t] EXCEPT !.heard = FALSE]
                  \/ t \in Handlers /\ jobs'[t].step \in {"idle", "enter"}
    <3>1. jobs[t] \in Job /\ Idle \in Job /\ Idle.step = "idle"
        BY <1>1, Constants DEF Idle
    <3>2. CASE t # req
        BY <2>1, <3>1, <3>2
    <3>3. CASE t = req /\ At(t, "replied")
      <4>1. jobs'[t] = Idle
          BY <2>1, <3>3
      <4>2. t \in Handlers
          BY <1>1, <3>3 DEF Threads, At, SessionInv, Fits
      <4> QED  BY <3>1, <4>1, <4>2
    <3>4. CASE t = req /\ ~ At(t, "replied")
      <4>1. jobs'[t] = [jobs[t] EXCEPT !.heard = FALSE]
          BY <2>1, <3>4
      <4> QED  BY <3>1, <4>1 DEF Job
    <3> QED  BY <3>2, <3>3, <3>4
  <2>3. jobs' \in [Threads -> Job]
      BY <2>1, <2>2
  <2> QED  BY <1>1, <2>1, <2>2, <2>3, PageStepKeeps
<1> QED  BY <1>3, <1>4, <1>5, <1>6, <1>7 DEF Learner

(* A request or an answer is lost.                                         *)
LEMMA LosingKeeps ==
    ASSUME SessionInv, LoseAnswer
    PROVE  SessionInv'
<1>1. /\ view \in View /\ jobs \in [Threads -> Job] /\ req \in Handlers /\ req \in Threads
      /\ jobs[req] \in Job /\ Idle \in Job /\ Idle.step = "idle"
    BY Constants DEF SessionInv, TypeInv, LoseAnswer, Threads, Idle
<1>2. PICK j : /\ jobs' = [jobs EXCEPT ![req] = j]
               /\ j = [jobs[req] EXCEPT !.heard = FALSE] \/ j = Idle
    BY <1>1 DEF LoseAnswer
<1>3. j \in Job
    BY <1>1, <1>2 DEF Job
<1>4. req' = Nobody /\ UNCHANGED <<sessions, registry, posed, recorded, view>>
    BY Zenon DEF LoseAnswer
<1>5. /\ jobs' \in [Threads -> Job]
      /\ \A t \in Threads : jobs'[t] = IF t = req THEN j ELSE jobs[t]
    BY <1>1, <1>2, <1>3
<1> QED  BY <1>1, <1>2, <1>4, <1>5, PageStepKeeps

-----------------------------------------------------------------------------
(* The invariant holds.                                                    *)

(* The invariant holds when the server starts.                             *)
LEMMA InitSession == PageInit => SessionInv
<1> SUFFICES ASSUME PageInit PROVE SessionInv
    OBVIOUS
<1>1. /\ jobs = [t \in Threads |-> Idle] /\ sessions = <<>> /\ registry = 0 /\ posed = 0
      /\ recorded = [x \in Exercises |-> 0] /\ req = Nobody /\ view = NoView
    BY DEF PageInit, Init
<1>2. Idle \in Job /\ Idle.step = "idle" /\ NoView \in View
    BY Constants DEF Idle, NoView, View, Phases
<1>3. TypeInv
    BY <1>1, <1>2 DEF TypeInv
<1>4. \A t \in Threads : Fits(t)
    BY <1>1, <1>2 DEF Fits
<1> QED  BY <1>1, <1>3, <1>4 DEF SessionInv

(* Every step of a handler preserves the invariant.                        *)
LEMMA HandlerKeeps ==
    ASSUME SessionInv, NEW h \in Handlers, HandlerStep(h), Quiet
    PROVE  SessionInv'
<1>1. h \in Threads
    BY DEF Threads
<1>2. CASE OpenSession(h)  BY <1>2, OpenKeeps
<1>3. CASE MissingSession(h) \/ Busy(h) \/ SubmitNothingAwaited(h) \/ ContinueNothing(h)
    BY <1>3, RefusingKeeps
<1>4. CASE BeginTutoring(h) \/ Submit(h) \/ ContinueTurn(h)
    BY <1>4, TakingKeeps
<1>5. CASE CurrentReadsGraph(h)  BY <1>5, ReadingKeeps
<1>6. CASE CurrentReadsPhase(h)  BY <1>6, ReadKeeps
<1>7. CASE PoseNode(h)  BY <1>1, <1>7, PoseKeeps
<1>8. CASE GradeNode(h)  BY <1>1, <1>8, GradeKeeps
<1>9. CASE HandlerRaises(h)  BY <1>9, RaisingKeeps
<1>10. CASE StartDone(h)  BY <1>10, StartedKeeps
<1>11. CASE HandOver(h)  BY <1>11, HandingKeeps
<1>12. CASE HandOverFails(h)  BY <1>12, StrandingKeeps
<1> QED  BY <1>2, <1>3, <1>4, <1>5, <1>6, <1>7, <1>8, <1>9, <1>10, <1>11, <1>12
         DEF HandlerStep

(* Every step of a worker preserves the invariant.                         *)
LEMMA WorkerKeeps ==
    ASSUME SessionInv, NEW w \in Workers, WorkerStep(w), Quiet
    PROVE  SessionInv'
<1>1. w \in Threads
    BY DEF Threads
<1>2. CASE PoseNode(w)  BY <1>1, <1>2, PoseKeeps
<1>3. CASE GradeNode(w)  BY <1>1, <1>3, GradeKeeps
<1>4. CASE RecordNode(w)  BY <1>4, RecordKeeps
<1>5. CASE AdaptNode(w)  BY <1>5, AdaptKeeps
<1>6. CASE WorkerDone(w) \/ WorkerRaises(w)  BY <1>6, PublishingKeeps
<1>7. CASE WorkerReleases(w)  BY <1>7, ReleasingKeeps
<1> QED  BY <1>2, <1>3, <1>4, <1>5, <1>6, <1>7 DEF WorkerStep

(* Every step of the sessions and the page preserves the invariant.        *)
LEMMA SessionStepPreserves == SessionInv /\ [Next]_vars => SessionInv'
<1> SUFFICES ASSUME SessionInv, [Next]_vars PROVE SessionInv'
    OBVIOUS
<1>1. CASE UNCHANGED vars
    BY <1>1 DEF vars, serverVars, pageVars, SessionInv, TypeInv, Fits, Reported
<1>2. CASE Server /\ Quiet
    BY <1>2, HandlerKeeps, WorkerKeeps DEF Server
<1>3. CASE Page  BY <1>3, PageKeeps
<1>4. CASE Deadline
    BY <1>4 DEF Deadline, serverVars, SessionInv, TypeInv, Fits, Reported
<1>5. CASE Learner  BY <1>5, LearnerKeeps
<1>6. CASE LoseAnswer  BY <1>6, LosingKeeps
<1>7. CASE ServerRestarts
    BY <1>7, RestartingKeeps DEF ServerRestarts, pageVars
<1> QED  BY <1>1, <1>2, <1>3, <1>4, <1>5, <1>6, <1>7 DEF Next

(* In every behaviour sessions, jobs and locks fit together: the state is  *)
(* well typed, a thread at work holds its session's lock and finds it      *)
(* where it left it.                                                       *)
THEOREM SessionInvariant == Spec => []SessionInv
    BY InitSession, SessionStepPreserves, PTL DEF Spec

(* At most one thread moves a session's graph, hand-over included: the one *)
(* that holds its lock.                                                    *)
THEOREM SessionsHaveOneRunner == Spec => []OneRunner
<1>1. SessionInv => OneRunner
    BY DEF SessionInv, Fits, OneRunner
<1> QED  BY <1>1, SessionInvariant, PTL

(* While a worker finishes a turn the phase is "updating".                 *)
THEOREM SessionWorkIsAnnounced == Spec => []WorkIsAnnounced
<1>1. SessionInv => WorkIsAnnounced
    BY DEF SessionInv, Fits, WorkIsAnnounced, At, Threads
<1> QED  BY <1>1, SessionInvariant, PTL

(* A graded answer nobody works on is shown as failed, unless its worker   *)
(* never started.                                                          *)
THEOREM SessionUnfinishedIsReported == Spec => []UnfinishedIsReported
<1>1. SessionInv => UnfinishedIsReported
    BY DEF SessionInv, Reported, UnfinishedIsReported
<1> QED  BY <1>1, SessionInvariant, PTL

-----------------------------------------------------------------------------
(* The sessions and the page implement Turn: an exercise is put once,      *)
(* answered once at most, and counted once at most.                        *)
(*                                                                         *)
(* Where every exercise stands follows from the sessions: an exercise is   *)
(* held by one session at most, and a session at work on an answer holds   *)
(* an exercise that is not recorded yet, every other one none or one that  *)
(* is.                                                                     *)

Unsettled == {"await", "grade", "record"}

Recorded(x)   == x \in Exercises => recorded[x] > 0
Unrecorded(x) == x \in Exercises => recorded[x] = 0

Ledger ==
    /\ \A i \in 1 .. Len(sessions) : sessions[i].exercise <= posed
    /\ \A i, k \in 1 .. Len(sessions) :
          sessions[i].exercise = sessions[k].exercise => i = k \/ sessions[i].exercise = 0
    /\ \A x \in Exercises : x > posed => recorded[x] = 0
    /\ \A i \in 1 .. Len(sessions) :
          IF sessions[i].node \in Unsettled
          THEN sessions[i].exercise # 0 /\ Unrecorded(sessions[i].exercise)
          ELSE sessions[i].exercise = 0 \/ Recorded(sessions[i].exercise)

TurnInv == SessionInv /\ Ledger

Position(node) == CASE node = "await" -> "open" [] node = "grade" -> "taken" [] OTHER -> "graded"

StagesFit == \A x \in Exercises :
    /\ recorded[x] > 0 => StageOf(x) = "recorded"
    /\ recorded[x] = 0 /\ x > posed => StageOf(x) = "unposed"
    /\ recorded[x] = 0 /\ x <= posed =>
          \/ /\ StageOf(x) = "dropped"
             /\ \A i \in 1 .. Len(sessions) : sessions[i].exercise # x
          \/ \E i \in 1 .. Len(sessions) :
                /\ sessions[i].exercise = x
                /\ StageOf(x) = Position(sessions[i].node)

-----------------------------------------------------------------------------
(* What a step can do to the exercises.                                    *)

(* No session moves; new ones hold no exercise.                            *)
Rests ==
    /\ UNCHANGED <<posed, recorded>>
    /\ Len(sessions) <= Len(sessions')
    /\ \A k \in 1 .. Len(sessions) :
          /\ sessions'[k].node = sessions[k].node
          /\ sessions'[k].exercise = sessions[k].exercise
    /\ \A k \in 1 .. Len(sessions') : k \notin 1 .. Len(sessions) =>
          sessions'[k].node = "none" /\ sessions'[k].exercise = 0

(* Session i alone moves, to a node and an exercise.                       *)
Moves(i, node, x) ==
    /\ Len(sessions') = Len(sessions)
    /\ sessions'[i].node = node /\ sessions'[i].exercise = x
    /\ \A k \in 1 .. Len(sessions) : k # i =>
          /\ sessions'[k].node = sessions[k].node
          /\ sessions'[k].exercise = sessions[k].exercise

(* Session i goes from one node to the next with its exercise.             *)
Goes(i, from, to) == sessions[i].node = from /\ Moves(i, to, sessions[i].exercise)

Starts(i)  == Moves(i, "pose", 0) /\ UNCHANGED <<posed, recorded>>
Takes(i)   == Goes(i, "await", "grade") /\ UNCHANGED <<posed, recorded>>
Grades(i)  == Goes(i, "grade", "record") /\ UNCHANGED <<posed, recorded>>
Adapts(i)  ==
    /\ (Goes(i, "adapt", "pose") /\ CanPose) \/ Goes(i, "adapt", "over")
    /\ UNCHANGED <<posed, recorded>>

Records(i) ==
    /\ Goes(i, "record", "adapt")
    /\ recorded' = [recorded EXCEPT ![sessions[i].exercise] = @ + 1]
    /\ UNCHANGED posed

Poses(i) ==
    /\ sessions[i].node = "pose" /\ Moves(i, "await", posed + 1)
    /\ posed' = posed + 1
    /\ UNCHANGED recorded

(* No session holds an exercise any more.                                  *)
Drops ==
    /\ UNCHANGED <<posed, recorded>>
    /\ \A k \in 1 .. Len(sessions') :
          sessions'[k].node = "none" /\ sessions'[k].exercise = 0

(* No session gives its exercise up.                                       *)
Advances ==
    \/ Rests
    \/ \E i \in 1 .. Len(sessions) :
          Takes(i) \/ Grades(i) \/ Records(i) \/ Adapts(i) \/ Poses(i)

TurnStep == Advances \/ Drops \/ \E i \in 1 .. Len(sessions) : Starts(i)

(* An updated session moves alone.                                         *)
LEMMA UpdateMoves ==
    ASSUME SessionInv, NEW i \in 1 .. Len(sessions), NEW r \in Object,
           sessions' = [sessions EXCEPT ![i] = r]
    PROVE  Moves(i, r.node, r.exercise)
<1>1. sessions \in Seq(Object)
    BY DEF SessionInv, TypeInv
<1>2. Len([sessions EXCEPT ![i] = r]) = Len(sessions)
    BY <1>1, Updated
<1>3. \A k \in 1 .. Len(sessions) :
         [sessions EXCEPT ![i] = r][k] = IF k = i THEN r ELSE sessions[k]
    BY <1>1, Updated
<1> QED  BY <1>2, <1>3 DEF Moves

(* One that keeps its node and its exercise does not count as moving.      *)
LEMMA UpdateRests ==
    ASSUME SessionInv, NEW i \in 1 .. Len(sessions), NEW r \in Object,
           sessions' = [sessions EXCEPT ![i] = r],
           r.node = sessions[i].node, r.exercise = sessions[i].exercise,
           UNCHANGED <<posed, recorded>>
    PROVE  Rests
<1>1. sessions \in Seq(Object) /\ Len(sessions) \in Nat
    BY DEF SessionInv, TypeInv
<1>2. Moves(i, r.node, r.exercise)
    BY UpdateMoves
<1>3. /\ Len(sessions') = Len(sessions)
      /\ \A k \in 1 .. Len(sessions) :
            /\ sessions'[k].node = sessions[k].node
            /\ sessions'[k].exercise = sessions[k].exercise
    BY <1>2 DEF Moves
<1> QED  BY <1>1, <1>3 DEF Rests

(* A step that touches no session moves none.                              *)
LEMMA StutterRests ==
    ASSUME SessionInv, UNCHANGED <<sessions, posed, recorded>>
    PROVE  Rests
    BY DEF SessionInv, TypeInv, Rests

-----------------------------------------------------------------------------
(* Every step is one of them.                                              *)

(* A node that is done.                                                    *)
LEMMA NodeMoves ==
    ASSUME SessionInv, NEW t \in Threads,
           PoseNode(t) \/ GradeNode(t) \/ RecordNode(t) \/ AdaptNode(t)
    PROVE  Advances
<1>0. /\ posed \in Nat
      /\ \A k \in 1 .. Len(sessions) : sessions[k] \in Object
    BY DEF SessionInv, TypeInv
<1>1. CASE PoseNode(t)
  <2>1. PICK i \in 1 .. Len(sessions) :
          /\ sessions[i].node = "pose"
          /\ sessions' = [sessions EXCEPT ![i].node = "await", ![i].exercise = posed + 1]
          /\ posed' = posed + 1 /\ UNCHANGED recorded
      BY <1>1 DEF PoseNode, NodeDone
  <2> DEFINE r == [sessions[i] EXCEPT !.node = "await", !.exercise = posed + 1]
  <2>0. posed + 1 \in Nat /\ sessions[i] \in Object /\ "await" \in Nodes
      BY <1>0 DEF Nodes
  <2>2. /\ r \in Object /\ r.node = "await" /\ r.exercise = posed + 1
        /\ sessions' = [sessions EXCEPT ![i] = r]
      BY <2>0, <2>1 DEF Object
  <2> HIDE DEF r
  <2>3. Poses(i)
      BY <2>1, <2>2, UpdateMoves DEF Poses
  <2> QED  BY <2>3 DEF Advances
<1>2. CASE GradeNode(t)
  <2>1. PICK i \in 1 .. Len(sessions) :
          /\ sessions[i].node = "grade"
          /\ sessions' = [sessions EXCEPT ![i].node = "record"]
          /\ UNCHANGED <<posed, recorded>>
      BY <1>2 DEF GradeNode, NodeDone
  <2> DEFINE r == [sessions[i] EXCEPT !.node = "record"]
  <2>2. /\ r \in Object /\ r.node = "record" /\ r.exercise = sessions[i].exercise
        /\ sessions' = [sessions EXCEPT ![i] = r]
      BY <1>0, <2>1 DEF Object, Nodes, Breakpoints
  <2> HIDE DEF r
  <2>3. Grades(i)
      BY <2>1, <2>2, UpdateMoves DEF Grades, Goes
  <2> QED  BY <2>3 DEF Advances
<1>3. CASE RecordNode(t)
  <2>1. PICK i \in 1 .. Len(sessions) :
          /\ sessions[i].node = "record"
          /\ sessions' = [sessions EXCEPT ![i].node = "adapt"]
          /\ recorded' = [recorded EXCEPT ![sessions[i].exercise] = @ + 1]
          /\ UNCHANGED posed
      BY <1>3 DEF RecordNode, NodeDone
  <2> DEFINE r == [sessions[i] EXCEPT !.node = "adapt"]
  <2>2. /\ r \in Object /\ r.node = "adapt" /\ r.exercise = sessions[i].exercise
        /\ sessions' = [sessions EXCEPT ![i] = r]
      BY <1>0, <2>1 DEF Object, Nodes, Breakpoints
  <2> HIDE DEF r
  <2>3. Records(i)
      BY <2>1, <2>2, UpdateMoves DEF Records, Goes
  <2> QED  BY <2>3 DEF Advances
<1>4. CASE AdaptNode(t)
  <2>1. PICK i \in 1 .. Len(sessions), next \in {"pose", "over"} :
          /\ sessions[i].node = "adapt"
          /\ sessions' = [sessions EXCEPT ![i].node = next]
          /\ next = "pose" => CanPose
          /\ UNCHANGED <<posed, recorded>>
      BY <1>4 DEF AdaptNode, NodeDone
  <2> DEFINE r == [sessions[i] EXCEPT !.node = next]
  <2>2. /\ r \in Object /\ r.node = next /\ r.exercise = sessions[i].exercise
        /\ sessions' = [sessions EXCEPT ![i] = r]
      BY <1>0, <2>1 DEF Object, Nodes, Breakpoints
  <2> HIDE DEF r
  <2>3. Adapts(i)
      BY <2>1, <2>2, UpdateMoves DEF Adapts, Goes
  <2> QED  BY <2>3 DEF Advances
<1> QED  BY <1>1, <1>2, <1>3, <1>4

(* The steps of a handler.                                                 *)
LEMMA HandlerMoves ==
    ASSUME SessionInv, NEW h \in Handlers, HandlerStep(h), Quiet
    PROVE  Advances \/ (BeginTutoring(h) /\ \E i \in 1 .. Len(sessions) : Starts(i))
<1>0. /\ h \in Threads /\ sessions \in Seq(Object) /\ jobs \in [Threads -> Job]
      /\ jobs[h] \in Job
      /\ \A k \in 1 .. Len(sessions) : sessions[k] \in Object
    BY DEF SessionInv, TypeInv, Threads
<1>1. CASE OpenSession(h)
  <2>1. sessions' = Append(sessions, NewSession) /\ UNCHANGED <<posed, recorded>>
      BY <1>1 DEF OpenSession
  <2>2. /\ Len(sessions') = Len(sessions) + 1 /\ Len(sessions) \in Nat
        /\ \A k \in 1 .. Len(sessions) : sessions'[k] = sessions[k]
        /\ sessions'[Len(sessions) + 1] = NewSession
      BY <1>0, <2>1, Constants
  <2>3. Rests
      BY <2>1, <2>2 DEF Rests, NewSession
  <2> QED  BY <2>3 DEF Advances
<1>2. CASE \/ MissingSession(h) \/ Busy(h) \/ SubmitNothingAwaited(h) \/ ContinueNothing(h)
           \/ CurrentReadsGraph(h) \/ CurrentReadsPhase(h)
  <2>1. UNCHANGED <<sessions, posed, recorded>>
      BY <1>2 DEF MissingSession, Busy, SubmitNothingAwaited, ContinueNothing,
                  CurrentReadsGraph, CurrentReadsPhase
  <2> QED  BY <2>1, StutterRests DEF Advances
<1>3. CASE BeginTutoring(h)
  <2>1. PICK i \in 1 .. Len(sessions) :
          /\ sessions' = [sessions EXCEPT ![i].lock = h, ![i].node = "pose", ![i].exercise = 0]
          /\ UNCHANGED <<posed, recorded>>
      BY <1>3 DEF BeginTutoring
  <2> DEFINE r == [sessions[i] EXCEPT !.lock = h, !.node = "pose", !.exercise = 0]
  <2>2. r \in Object /\ r.node = "pose" /\ r.exercise = 0 /\ sessions' = [sessions EXCEPT ![i] = r]
      BY <1>0, <2>1 DEF Object, Nodes, Breakpoints
  <2> HIDE DEF r
  <2>3. Starts(i)
      BY <2>1, <2>2, UpdateMoves DEF Starts
  <2> QED  BY <1>3, <2>3
<1>4. CASE Submit(h)
  <2>1. PICK i \in 1 .. Len(sessions) :
          /\ sessions[i].node = "await"
          /\ sessions' = [sessions EXCEPT ![i].lock = h, ![i].node = "grade"]
          /\ UNCHANGED <<posed, recorded>>
      BY <1>4 DEF Submit, AwaitingStudent
  <2> DEFINE r == [sessions[i] EXCEPT !.lock = h, !.node = "grade"]
  <2>2. /\ r \in Object /\ r.node = "grade" /\ r.exercise = sessions[i].exercise
        /\ sessions' = [sessions EXCEPT ![i] = r]
      BY <1>0, <2>1 DEF Object, Nodes, Breakpoints
  <2> HIDE DEF r
  <2>3. Takes(i)
      BY <2>1, <2>2, UpdateMoves DEF Takes, Goes
  <2> QED  BY <2>3 DEF Advances
<1>5. CASE ContinueTurn(h)
  <2>1. PICK i \in 1 .. Len(sessions) :
          /\ sessions' = [sessions EXCEPT ![i].lock = h]
          /\ UNCHANGED <<posed, recorded>>
      BY <1>5 DEF ContinueTurn
  <2> DEFINE r == [sessions[i] EXCEPT !.lock = h]
  <2>2. /\ r \in Object /\ r.node = sessions[i].node /\ r.exercise = sessions[i].exercise
        /\ sessions' = [sessions EXCEPT ![i] = r]
      BY <1>0, <2>1 DEF Object
  <2> HIDE DEF r
  <2>3. Rests
      BY <2>1, <2>2, UpdateRests
  <2> QED  BY <2>3 DEF Advances
<1>6. ASSUME NEW i \in 1 .. Len(sessions), NEW r \in Object,
             sessions' = [sessions EXCEPT ![i] = r],
             r.node = sessions[i].node, r.exercise = sessions[i].exercise,
             UNCHANGED <<posed, recorded>>
      PROVE  Advances
    BY <1>6, UpdateRests DEF Advances
<1>7. CASE HandlerRaises(h)
  <2>1. PICK i \in 1 .. Len(sessions) :
          /\ sessions' = [sessions EXCEPT ![i].lock = Free]
          /\ UNCHANGED <<posed, recorded>>
      BY <1>0, <1>7, Working DEF HandlerRaises, Running, At
  <2> DEFINE r == [sessions[i] EXCEPT !.lock = Free]
  <2>2. /\ r \in Object /\ r.node = sessions[i].node /\ r.exercise = sessions[i].exercise
        /\ sessions' = [sessions EXCEPT ![i] = r]
      BY <1>0, <2>1 DEF Object
  <2> HIDE DEF r
  <2> QED  BY <1>6, <2>1, <2>2
<1>8. CASE StartDone(h)
  <2>1. PICK i \in 1 .. Len(sessions) :
          /\ sessions' = [sessions EXCEPT ![i].lock = Free]
          /\ UNCHANGED <<posed, recorded>>
      BY <1>8 DEF StartDone
  <2> DEFINE r == [sessions[i] EXCEPT !.lock = Free]
  <2>2. /\ r \in Object /\ r.node = sessions[i].node /\ r.exercise = sessions[i].exercise
        /\ sessions' = [sessions EXCEPT ![i] = r]
      BY <1>0, <2>1 DEF Object
  <2> HIDE DEF r
  <2> QED  BY <1>6, <2>1, <2>2
<1>9. CASE HandOver(h)
  <2>0. PICK w : w = CHOOSE u \in IdleWorkers : TRUE
      OBVIOUS
  <2>1. PICK i \in 1 .. Len(sessions) :
          /\ IdleWorkers # {}
          /\ sessions' = [sessions EXCEPT ![i].phase = "updating", ![i].lock = w]
          /\ UNCHANGED <<posed, recorded>>
      BY <1>9, <2>0, Zenon DEF HandOver
  <2>2. w \in Threads
      BY <2>0, <2>1, Zenon DEF IdleWorkers, Threads
  <2> DEFINE r == [sessions[i] EXCEPT !.phase = "updating", !.lock = w]
  <2>3. /\ r \in Object /\ r.node = sessions[i].node /\ r.exercise = sessions[i].exercise
        /\ sessions' = [sessions EXCEPT ![i] = r]
      BY <1>0, <2>1, <2>2 DEF Object, Phases
  <2> HIDE DEF r
  <2> QED  BY <1>6, <2>1, <2>3
<1>10. CASE HandOverFails(h)
  <2>1. PICK i \in 1 .. Len(sessions) :
          /\ sessions' = [sessions EXCEPT ![i].phase = "updating", ![i].lock = Free,
                                          ![i].stranded = TRUE]
          /\ UNCHANGED <<posed, recorded>>
      BY <1>10 DEF HandOverFails
  <2> DEFINE r == [sessions[i] EXCEPT !.phase = "updating", !.lock = Free, !.stranded = TRUE]
  <2>2. /\ r \in Object /\ r.node = sessions[i].node /\ r.exercise = sessions[i].exercise
        /\ sessions' = [sessions EXCEPT ![i] = r]
      BY <1>0, <2>1 DEF Object, Phases
  <2> HIDE DEF r
  <2> QED  BY <1>6, <2>1, <2>2
<1>11. CASE PoseNode(h) \/ GradeNode(h)
    BY <1>0, <1>11, NodeMoves
<1> QED  BY <1>1, <1>2, <1>3, <1>4, <1>5, <1>7, <1>8, <1>9, <1>10, <1>11 DEF HandlerStep

(* The steps of a worker.                                                  *)
LEMMA WorkerMoves ==
    ASSUME SessionInv, NEW w \in Workers, WorkerStep(w), Quiet
    PROVE  Advances
<1>0. /\ w \in Threads
      /\ \A k \in 1 .. Len(sessions) : sessions[k] \in Object
    BY DEF SessionInv, TypeInv, Threads
<1>1. CASE WorkerReleases(w)
  <2>1. PICK i \in 1 .. Len(sessions) :
          /\ sessions' = [sessions EXCEPT ![i].lock = Free]
          /\ UNCHANGED <<posed, recorded>>
      BY <1>0, <1>1, Working DEF WorkerReleases, At
  <2> DEFINE r == [sessions[i] EXCEPT !.lock = Free]
  <2>2. /\ r \in Object /\ r.node = sessions[i].node /\ r.exercise = sessions[i].exercise
        /\ sessions' = [sessions EXCEPT ![i] = r]
      BY <1>0, <2>1 DEF Object
  <2> HIDE DEF r
  <2> QED  BY <2>1, <2>2, UpdateRests DEF Advances
<1>2. CASE WorkerDone(w) \/ WorkerRaises(w)
  <2>1. PICK phase \in Phases : Publish(w, phase)
      BY <1>2 DEF WorkerDone, WorkerRaises, Phases
  <2>2. UNCHANGED <<posed, recorded>> /\ jobs[w].step = "run"
      BY <1>2 DEF WorkerDone, WorkerRaises, Running, At
  <2>3. PICK i \in 1 .. Len(sessions) : sessions' = [sessions EXCEPT ![i].phase = phase]
      BY <1>0, <2>1, <2>2, Working DEF Publish
  <2> DEFINE r == [sessions[i] EXCEPT !.phase = phase]
  <2>4. /\ r \in Object /\ r.node = sessions[i].node /\ r.exercise = sessions[i].exercise
        /\ sessions' = [sessions EXCEPT ![i] = r]
      BY <1>0, <2>3 DEF Object
  <2> HIDE DEF r
  <2> QED  BY <2>2, <2>3, <2>4, UpdateRests DEF Advances
<1>3. CASE PoseNode(w) \/ GradeNode(w) \/ RecordNode(w) \/ AdaptNode(w)
    BY <1>0, <1>3, NodeMoves
<1> QED  BY <1>1, <1>2, <1>3 DEF WorkerStep

(* The steps of the page.                                                  *)
LEMMA PageMoves ==
    ASSUME SessionInv, Page \/ Deadline \/ Learner \/ LoseAnswer
    PROVE  Rests
<1> SUFFICES UNCHANGED <<sessions, posed, recorded>>
    BY StutterRests
<1>1. ASSUME NEW kind, NEW next, Send(kind, next) PROVE UNCHANGED <<sessions, posed, recorded>>
    BY <1>1, Zenon DEF Send
<1>2. ASSUME NEW next, Settle(next) PROVE UNCHANGED <<sessions, posed, recorded>>
    BY <1>2 DEF Settle
<1>3. ASSUME NEW next, PollTurn(next) PROVE UNCHANGED <<sessions, posed, recorded>>
    BY <1>1, <1>2, <1>3 DEF PollTurn, ApplyCompletedTurn, Show
<1>4. CASE Page
    BY <1>1, <1>2, <1>3, <1>4
       DEF Page, Opened, Recovered, Started, Submitted, Polled, Wake, Continued,
           PollSession, RecoverExercise, OpenAs, Fail, ApplyCompletedTurn, Show
<1>5. CASE Learner
    BY <1>1, <1>5 DEF Learner, Open, OpenAs, StartSkill, SubmitCode, ResumeTurn, Reload
<1>6. CASE Deadline \/ LoseAnswer
    BY <1>6, Zenon DEF Deadline, LoseAnswer, serverVars
<1> QED  BY <1>4, <1>5, <1>6

(* Every step.                                                             *)
LEMMA NextMoves ==
    ASSUME SessionInv, [Next]_vars
    PROVE  TurnStep
<1>1. CASE UNCHANGED vars
    BY <1>1, StutterRests DEF vars, serverVars, TurnStep, Advances
<1>2. CASE Server /\ Quiet
    BY <1>2, HandlerMoves, WorkerMoves DEF Server, TurnStep
<1>3. CASE ServerRestarts
  <2>1. /\ sessions' = [i \in 1 .. Len(sessions) |-> NewSession]
        /\ UNCHANGED <<posed, recorded>> /\ sessions \in Seq(Object)
      BY <1>3 DEF ServerRestarts, Restart, SessionInv, TypeInv
  <2>2. \A k \in 1 .. Len(sessions') : sessions'[k] = NewSession
      BY <2>1
  <2> QED  BY <2>1, <2>2 DEF TurnStep, Advances, Drops, NewSession
<1> QED  BY <1>1, <1>2, <1>3, PageMoves DEF Next, TurnStep, Advances

-----------------------------------------------------------------------------
(* The ledger is kept.                                                     *)

Typed ==
    /\ posed \in Nat /\ recorded \in [Exercises -> Nat] /\ Len(sessions) \in Nat
    /\ \A k \in 1 .. Len(sessions) : sessions[k].node \in Nodes /\ sessions[k].exercise \in Nat

(* What the ledger needs of the types.                                     *)
LEMMA TypedFacts == SessionInv => Typed
<1> SUFFICES ASSUME SessionInv PROVE Typed
    OBVIOUS
<1>1. /\ posed \in Nat /\ recorded \in [Exercises -> Nat] /\ Len(sessions) \in Nat
      /\ \A k \in 1 .. Len(sessions) : sessions[k] \in Object
    BY DEF SessionInv, TypeInv
<1> QED  BY <1>1 DEF Typed, Object

(* A move that keeps the exercise keeps who holds what.                    *)
LEMMA GoesKeeps ==
    ASSUME Ledger, Typed, NEW i \in 1 .. Len(sessions), NEW from, NEW to, Goes(i, from, to),
           UNCHANGED posed
    PROVE  /\ Len(sessions') = Len(sessions)
           /\ \A k \in 1 .. Len(sessions) : sessions'[k].exercise = sessions[k].exercise
           /\ \A k \in 1 .. Len(sessions) : k # i => sessions'[k].node = sessions[k].node
           /\ sessions[i].node = from /\ sessions'[i].node = to
           /\ \A k \in 1 .. Len(sessions') : sessions'[k].exercise <= posed'
           /\ \A j, k \in 1 .. Len(sessions') :
                 sessions'[j].exercise = sessions'[k].exercise =>
                    j = k \/ sessions'[j].exercise = 0
    BY DEF Goes, Moves, Ledger, Typed

(* No step puts an exercise into two sessions, or recorded ones back to    *)
(* work.                                                                   *)
LEMMA LedgerKeeps ==
    ASSUME Ledger, Typed, Typed', TurnStep
    PROVE  Ledger'
<1>1. CASE Rests
    BY <1>1, SMTT(30) DEF Rests, Ledger, Typed, Recorded, Unrecorded, Unsettled
<1>2. CASE Drops
    BY <1>2 DEF Drops, Ledger, Typed, Recorded, Unrecorded, Unsettled
<1> SUFFICES ASSUME NEW i \in 1 .. Len(sessions),
                    Starts(i) \/ Takes(i) \/ Grades(i) \/ Records(i) \/ Adapts(i) \/ Poses(i)
             PROVE  Ledger'
    BY <1>1, <1>2 DEF TurnStep, Advances
<1>3. CASE Starts(i)
    BY <1>3, SMTT(30) DEF Starts, Moves, Ledger, Typed, Recorded, Unrecorded, Unsettled
<1>4. ASSUME NEW from, NEW to, Goes(i, from, to), UNCHANGED <<posed, recorded>>,
             (from \in Unsettled) <=> (to \in Unsettled)
      PROVE  Ledger'
  <2>1. \A k \in 1 .. Len(sessions) :
           /\ sessions'[k].exercise = sessions[k].exercise
           /\ (sessions'[k].node \in Unsettled) <=> (sessions[k].node \in Unsettled)
      BY <1>4, GoesKeeps
  <2>2. Len(sessions') = Len(sessions)
      BY <1>4, GoesKeeps
  <2> QED  BY <1>4, <2>1, <2>2 DEF Ledger, Recorded, Unrecorded
<1>5. CASE Takes(i) \/ Grades(i) \/ Adapts(i)
    BY <1>4, <1>5 DEF Takes, Grades, Adapts, Unsettled
<1>6. CASE Records(i)
  <2>0. PICK x : x = sessions[i].exercise
      OBVIOUS
  <2>1. /\ Goes(i, "record", "adapt") /\ UNCHANGED posed
        /\ recorded' = [recorded EXCEPT ![x] = @ + 1]
      BY <1>6, <2>0 DEF Records
  <2>2. x <= posed /\ x # 0 /\ x \in Nat
      BY <2>0, <2>1 DEF Goes, Ledger, Typed, Unsettled
  <2>3. \A y \in Exercises : recorded'[y] = IF y = x THEN recorded[y] + 1 ELSE recorded[y]
      BY <2>1 DEF Typed
  <2>4. \A y \in Exercises : y > posed' => recorded'[y] = 0
    <3> SUFFICES ASSUME NEW y \in Exercises, y > posed PROVE recorded'[y] = 0
        BY <2>1
    <3>1. y # x /\ recorded[y] = 0
        BY <2>2 DEF Ledger, Typed, Exercises
    <3> QED  BY <2>3, <3>1
  <2>5. ASSUME NEW k \in 1 .. Len(sessions')
        PROVE  IF sessions'[k].node \in Unsettled
               THEN /\ sessions'[k].exercise # 0
                    /\ sessions'[k].exercise \in Exercises => recorded'[sessions'[k].exercise] = 0
               ELSE \/ sessions'[k].exercise = 0
                    \/ sessions'[k].exercise \in Exercises => recorded'[sessions'[k].exercise] > 0
    <3>1. k \in 1 .. Len(sessions) /\ sessions'[k].exercise = sessions[k].exercise
        BY <2>1, GoesKeeps
    <3>2. CASE k = i
      <4>1. sessions'[k].node = "adapt" /\ sessions'[k].exercise = x
          BY <2>0, <2>1, <3>1, <3>2, GoesKeeps
      <4>2. x \in Exercises => recorded'[x] > 0
          BY <2>3 DEF Typed
      <4> QED  BY <4>1, <4>2 DEF Unsettled, Recorded
    <3>3. CASE k # i
      <4>1. sessions'[k].node = sessions[k].node
          BY <2>1, <3>1, <3>3, GoesKeeps
      <4>2. sessions[k].exercise = 0 \/ sessions[k].exercise # x
          BY <2>0, <3>1, <3>3 DEF Ledger
      <4> QED  BY <2>3, <3>1, <4>1, <4>2 DEF Ledger, Recorded, Unrecorded, Exercises
    <3> QED  BY <3>2, <3>3
  <2>6. /\ \A k \in 1 .. Len(sessions') : sessions'[k].exercise <= posed'
        /\ \A j, k \in 1 .. Len(sessions') :
              sessions'[j].exercise = sessions'[k].exercise =>
                 j = k \/ sessions'[j].exercise = 0
      BY <2>1, GoesKeeps
  <2> QED  BY <2>4, <2>5, <2>6 DEF Ledger, Recorded, Unrecorded
<1>7. CASE Poses(i)
  <2>1. /\ Len(sessions') = Len(sessions) /\ posed' = posed + 1 /\ posed \in Nat
        /\ sessions'[i].node = "await" /\ sessions'[i].exercise = posed + 1
        /\ \A k \in 1 .. Len(sessions) : k # i =>
              /\ sessions'[k].node = sessions[k].node
              /\ sessions'[k].exercise = sessions[k].exercise
        /\ recorded' = recorded
      BY <1>7 DEF Poses, Moves, Typed
  <2>2. \A k \in 1 .. Len(sessions) : sessions[k].exercise <= posed /\ sessions[k].exercise \in Nat
      BY DEF Ledger, Typed
  <2>3. \A k \in 1 .. Len(sessions') : sessions'[k].exercise <= posed'
      BY <2>1, <2>2
  <2>4. \A j, k \in 1 .. Len(sessions') :
           sessions'[j].exercise = sessions'[k].exercise => j = k \/ sessions'[j].exercise = 0
      BY <2>1, <2>2 DEF Ledger
  <2>5. \A y \in Exercises : y > posed' => recorded'[y] = 0
      BY <2>1 DEF Ledger, Exercises
  <2>6. posed + 1 \in Exercises => recorded'[posed + 1] = 0
      BY <2>1 DEF Ledger
  <2>7. \A k \in 1 .. Len(sessions') :
           IF sessions'[k].node \in Unsettled
           THEN sessions'[k].exercise # 0
                   /\ (sessions'[k].exercise \in Exercises => recorded'[sessions'[k].exercise] = 0)
           ELSE sessions'[k].exercise = 0
                   \/ (sessions'[k].exercise \in Exercises => recorded'[sessions'[k].exercise] > 0)
      BY <2>1, <2>6 DEF Ledger, Recorded, Unrecorded, Unsettled
  <2> QED  BY <2>3, <2>4, <2>5, <2>7 DEF Ledger, Recorded, Unrecorded
<1> QED  BY <1>3, <1>5, <1>6, <1>7

(* The sessions and the ledger together are an invariant.                  *)
LEMMA TurnInvariant == Spec => []TurnInv
<1>1. PageInit => TurnInv
  <2>1. PageInit => Ledger
      BY DEF PageInit, Init, Ledger
  <2> QED  BY <2>1, InitSession DEF TurnInv
<1>2. TurnInv /\ [Next]_vars => TurnInv'
  <2> SUFFICES ASSUME TurnInv, [Next]_vars PROVE TurnInv'
      OBVIOUS
  <2>1. SessionInv /\ SessionInv'
      BY SessionStepPreserves DEF TurnInv
  <2>2. Typed /\ Typed'
      BY <2>1, TypedFacts, PTL
  <2>3. TurnStep
      BY <2>1, NextMoves
  <2>4. Ledger'
      BY <2>2, <2>3, LedgerKeeps DEF TurnInv
  <2> QED  BY <2>1, <2>4 DEF TurnInv
<1> QED  BY <1>1, <1>2, PTL DEF Spec

-----------------------------------------------------------------------------
(* The refinement.                                                         *)

(* Where an exercise stands, read off the sessions.                        *)
LEMMA Stages == Ledger /\ Typed => StagesFit
<1> SUFFICES ASSUME Ledger, Typed, NEW x \in Exercises
             PROVE  /\ recorded[x] > 0 => StageOf(x) = "recorded"
                    /\ recorded[x] = 0 /\ x > posed => StageOf(x) = "unposed"
                    /\ recorded[x] = 0 /\ x <= posed =>
                          \/ /\ StageOf(x) = "dropped"
                             /\ \A i \in 1 .. Len(sessions) : sessions[i].exercise # x
                          \/ \E i \in 1 .. Len(sessions) :
                                /\ sessions[i].exercise = x
                                /\ StageOf(x) = Position(sessions[i].node)
    BY DEF StagesFit
<1> DEFINE holders == {i \in 1 .. Len(sessions) : sessions[i].exercise = x}
           holder  == CHOOSE i \in holders : TRUE
<1>1. recorded[x] \in Nat /\ x \in Nat /\ posed \in Nat
    BY DEF Typed, Exercises
<1>2. StageOf(x) = IF recorded[x] > 0 THEN "recorded"
                   ELSE IF x > posed THEN "unposed"
                   ELSE IF holders = {} THEN "dropped"
                   ELSE Position(sessions[holder].node)
    BY Zenon DEF StageOf, Position
<1>3. holders # {} => holder \in holders
    BY Zenon
<1> HIDE DEF holder
<1>4. holders = {} => \A i \in 1 .. Len(sessions) : sessions[i].exercise # x
    OBVIOUS
<1>5. holders # {} => holder \in 1 .. Len(sessions) /\ sessions[holder].exercise = x
    BY <1>3
<1> HIDE DEF holders
<1> QED  BY <1>1, <1>2, <1>4, <1>5

(* The session that holds an exercise tells where it stands.               *)
HoldersFit == \A x \in Exercises, i \in 1 .. Len(sessions) :
    sessions[i].exercise = x /\ recorded[x] = 0 => StageOf(x) = Position(sessions[i].node)

(* There is one such session.                                              *)
LEMMA Holders == Ledger /\ Typed /\ StagesFit => HoldersFit
<1> SUFFICES ASSUME Ledger, Typed, StagesFit,
                    NEW x \in Exercises, NEW i \in 1 .. Len(sessions),
                    sessions[i].exercise = x, recorded[x] = 0
             PROVE  StageOf(x) = Position(sessions[i].node)
    BY DEF HoldersFit
<1>1. x <= posed /\ x # 0
    BY DEF Ledger, Typed, Exercises
<1>2. PICK k \in 1 .. Len(sessions) :
        sessions[k].exercise = x /\ StageOf(x) = Position(sessions[k].node)
    BY <1>1 DEF StagesFit
<1>3. k = i
    BY <1>1, <1>2 DEF Ledger
<1> QED  BY <1>2, <1>3

(* An exercise stays where it is if nothing about it changes.              *)
LEMMA StageStays ==
    ASSUME Ledger, Ledger', Typed, Typed', StagesFit, StagesFit', NEW x \in Exercises,
           recorded'[x] = recorded[x],
           (x <= posed') <=> (x <= posed),
           recorded[x] = 0 => \A k \in Nat :
              (/\ k \in 1 .. Len(sessions) /\ sessions[k].exercise = x) <=>
              (/\ k \in 1 .. Len(sessions') /\ sessions'[k].exercise = x),
           recorded[x] = 0 => \A k \in 1 .. Len(sessions) :
              sessions[k].exercise = x => sessions'[k].node = sessions[k].node
    PROVE  StageOf(x)' = StageOf(x)
<1>1. recorded[x] \in Nat /\ x \in Nat /\ x # 0 /\ posed \in Nat /\ posed' \in Nat
    BY DEF Typed, Exercises
<1>2. CASE recorded[x] > 0
    BY <1>1, <1>2 DEF StagesFit
<1>3. CASE recorded[x] = 0 /\ x > posed
    BY <1>1, <1>3 DEF StagesFit
<1>4. CASE recorded[x] = 0 /\ x <= posed
    BY <1>1, <1>4 DEF StagesFit, Ledger
<1> QED  BY <1>1, <1>2, <1>3, <1>4

(* An exercise is given up, or left where it is.                           *)
LEMMA StageDrops ==
    ASSUME Ledger, Ledger', Typed, Typed', StagesFit, StagesFit', NEW x \in Exercises,
           UNCHANGED <<posed, recorded>>,
           \A k \in 1 .. Len(sessions') : sessions'[k].exercise # x
    PROVE  StageOf(x)' = IF StageOf(x) \in T!InHand THEN "dropped" ELSE StageOf(x)
<1>1. recorded[x] \in Nat /\ x \in Nat /\ posed \in Nat
    BY DEF Typed, Exercises
<1>2. CASE recorded[x] > 0
    BY <1>1, <1>2 DEF StagesFit, T!InHand
<1>3. CASE recorded[x] = 0 /\ x > posed
    BY <1>1, <1>3 DEF StagesFit, T!InHand
<1>4. CASE recorded[x] = 0 /\ x <= posed
  <2>1. StageOf(x)' = "dropped"
      BY <1>1, <1>4 DEF StagesFit
  <2>2. StageOf(x) \in T!InHand \cup {"dropped"}
      BY <1>1, <1>4 DEF StagesFit, Position, T!InHand
  <2> QED  BY <2>1, <2>2
<1> QED  BY <1>1, <1>2, <1>3, <1>4

(* Every step of the sessions is a step of Turn, or none.                  *)
LEMMA StepImplements ==
    ASSUME Ledger, Ledger', Typed, Typed', StagesFit, StagesFit', HoldersFit, HoldersFit',
           TurnStep
    PROVE  [T!Next]_(T!vars)
<1>1. ASSUME \A x \in Exercises : StageOf(x)' = StageOf(x), UNCHANGED recorded
      PROVE  UNCHANGED T!vars
    BY <1>1 DEF T!vars
<1>2. ASSUME NEW x \in Exercises, NEW from, NEW to, StageOf(x) = from, StageOf(x)' = to,
             \A y \in Exercises : y # x => StageOf(y)' = StageOf(y)
      PROVE  T!Move(x, from, to)
    BY <1>2 DEF T!Move
<1>3. CASE Rests
  <2>1. \A x \in Exercises : StageOf(x)' = StageOf(x)
    <3> SUFFICES ASSUME NEW x \in Exercises PROVE StageOf(x)' = StageOf(x)
        OBVIOUS
    <3>1. x # 0
        BY DEF Exercises
    <3>2. \A k \in Nat : (/\ k \in 1 .. Len(sessions) /\ sessions[k].exercise = x) <=>
                         (/\ k \in 1 .. Len(sessions') /\ sessions'[k].exercise = x)
        BY <1>3, <3>1 DEF Rests, Typed
    <3> QED  BY <1>3, <3>2, StageStays DEF Rests
  <2> QED  BY <1>1, <1>3, <2>1 DEF Rests
<1>4. CASE Drops
  <2>1. \A x \in Exercises :
           StageOf(x)' = IF StageOf(x) \in T!InHand THEN "dropped" ELSE StageOf(x)
    <3> SUFFICES ASSUME NEW x \in Exercises
                 PROVE  StageOf(x)' = IF StageOf(x) \in T!InHand THEN "dropped" ELSE StageOf(x)
        OBVIOUS
    <3>1. \A k \in 1 .. Len(sessions') : sessions'[k].exercise # x
        BY <1>4 DEF Drops, Exercises
    <3> QED  BY <1>4, <3>1, StageDrops DEF Drops
  <2>2. T!GiveUp({x \in Exercises : StageOf(x) \in T!InHand})
      BY <1>4, <2>1 DEF T!GiveUp, Drops
  <2> QED  BY <2>2 DEF T!Next
<1> SUFFICES ASSUME NEW i \in 1 .. Len(sessions),
                    Starts(i) \/ Takes(i) \/ Grades(i) \/ Records(i) \/ Adapts(i) \/ Poses(i)
             PROVE  [T!Next]_(T!vars)
    BY <1>3, <1>4 DEF TurnStep, Advances
<1>5. PICK x : x = sessions[i].exercise
    OBVIOUS
<1>6. x \in Nat /\ x <= posed
    BY <1>5 DEF Typed, Ledger
<1>7. ASSUME NEW y \in Exercises, y # x, UNCHANGED posed, recorded'[y] = recorded[y],
             \A k \in 1 .. Len(sessions) : k # i =>
                 /\ sessions'[k].node = sessions[k].node
                 /\ sessions'[k].exercise = sessions[k].exercise,
             Len(sessions') = Len(sessions),
             sessions'[i].exercise # y
      PROVE  StageOf(y)' = StageOf(y)
  <2>1. \A k \in Nat : (/\ k \in 1 .. Len(sessions) /\ sessions[k].exercise = y) <=>
                       (/\ k \in 1 .. Len(sessions') /\ sessions'[k].exercise = y)
      BY <1>5, <1>7
  <2>2. \A k \in 1 .. Len(sessions) :
           sessions[k].exercise = y => sessions'[k].node = sessions[k].node
      BY <1>5, <1>7
  <2> QED  BY <1>7, <2>1, <2>2, StageStays
<1>8. CASE Starts(i)
  <2>1. /\ \A k \in 1 .. Len(sessions) : k # i =>
              /\ sessions'[k].node = sessions[k].node
              /\ sessions'[k].exercise = sessions[k].exercise
        /\ Len(sessions') = Len(sessions) /\ sessions'[i].exercise = 0
        /\ UNCHANGED <<posed, recorded>>
      BY <1>8 DEF Starts, Moves
  <2>2. \A y \in Exercises : y # x => StageOf(y)' = StageOf(y)
      BY <1>7, <2>1 DEF Exercises
  <2>3. CASE x \notin Exercises
      BY <1>1, <2>1, <2>2, <2>3
  <2>4. CASE x \in Exercises
    <3>1. \A k \in 1 .. Len(sessions') : sessions'[k].exercise # x
        BY <1>5, <2>1, <2>4 DEF Ledger, Exercises
    <3>2. StageOf(x)' = IF StageOf(x) \in T!InHand THEN "dropped" ELSE StageOf(x)
        BY <2>1, <2>4, <3>1, StageDrops
    <3>3. CASE StageOf(x) \in T!InHand
      <4>1. T!GiveUp({x})
          BY <2>1, <2>2, <2>4, <3>2, <3>3 DEF T!GiveUp
      <4> QED  BY <2>4, <4>1 DEF T!Next
    <3>4. CASE StageOf(x) \notin T!InHand
        BY <1>1, <2>1, <2>2, <3>2, <3>4
    <3> QED  BY <3>3, <3>4
  <2> QED  BY <2>3, <2>4
<1>9. ASSUME NEW from, NEW to, Goes(i, from, to), UNCHANGED posed,
             \A y \in Exercises : y # x => recorded'[y] = recorded[y]
      PROVE  /\ \A y \in Exercises : y # x => StageOf(y)' = StageOf(y)
             /\ x \in Exercises /\ recorded[x] = 0 => StageOf(x) = Position(from)
             /\ x \in Exercises /\ recorded'[x] = 0 => StageOf(x)' = Position(to)
  <2>1. /\ \A k \in 1 .. Len(sessions) : k # i =>
              /\ sessions'[k].node = sessions[k].node
              /\ sessions'[k].exercise = sessions[k].exercise
        /\ Len(sessions') = Len(sessions) /\ sessions'[i].exercise = x
        /\ sessions[i].node = from /\ sessions'[i].node = to
      BY <1>5, <1>9 DEF Goes, Moves
  <2>2. \A y \in Exercises : y # x => StageOf(y)' = StageOf(y)
      BY <1>7, <1>9, <2>1
  <2>3. x \in Exercises /\ recorded[x] = 0 => StageOf(x) = Position(from)
      BY <1>5, <2>1 DEF HoldersFit
  <2>4. x \in Exercises /\ recorded'[x] = 0 => StageOf(x)' = Position(to)
      BY <2>1 DEF HoldersFit
  <2> QED  BY <2>2, <2>3, <2>4
<1>10. CASE Takes(i)
  <2>1. /\ Goes(i, "await", "grade") /\ UNCHANGED <<posed, recorded>>
        /\ x \in Exercises => recorded[x] = 0
      BY <1>5, <1>10 DEF Takes, Goes, Ledger, Unsettled, Unrecorded
  <2>2. CASE x \notin Exercises
      BY <1>1, <1>9, <2>1, <2>2
  <2>3. CASE x \in Exercises
    <3>1. T!Move(x, "open", "taken")
        BY <1>2, <1>9, <2>1, <2>3 DEF Position
    <3> QED  BY <2>1, <2>3, <3>1 DEF T!Next, T!Take
  <2> QED  BY <2>2, <2>3
<1>11. CASE Grades(i)
  <2>1. /\ Goes(i, "grade", "record") /\ UNCHANGED <<posed, recorded>>
        /\ x \in Exercises => recorded[x] = 0
      BY <1>5, <1>11 DEF Grades, Goes, Ledger, Unsettled, Unrecorded
  <2>2. CASE x \notin Exercises
      BY <1>1, <1>9, <2>1, <2>2
  <2>3. CASE x \in Exercises
    <3>1. T!Move(x, "taken", "graded")
        BY <1>2, <1>9, <2>1, <2>3 DEF Position
    <3> QED  BY <2>1, <2>3, <3>1 DEF T!Next, T!Grade
  <2> QED  BY <2>2, <2>3
<1>12. CASE Adapts(i)
  <2>1. PICK to : Goes(i, "adapt", to) /\ UNCHANGED <<posed, recorded>>
      BY <1>12 DEF Adapts
  <2>2. x \in Exercises => recorded[x] > 0
      BY <1>5, <2>1 DEF Goes, Ledger, Unsettled, Recorded, Exercises
  <2>3. x \in Exercises => StageOf(x)' = StageOf(x)
      BY <2>1, <2>2 DEF StagesFit
  <2> QED  BY <1>1, <1>9, <2>1, <2>3
<1>13. CASE Records(i)
  <2>1. /\ Goes(i, "record", "adapt") /\ UNCHANGED posed
        /\ recorded' = [recorded EXCEPT ![x] = @ + 1]
        /\ x \in Exercises => recorded[x] = 0
      BY <1>5, <1>13 DEF Records, Goes, Ledger, Unsettled, Unrecorded
  <2>2. \A y \in Exercises : recorded'[y] = IF y = x THEN recorded[y] + 1 ELSE recorded[y]
      BY <2>1 DEF Typed
  <2>3. CASE x \notin Exercises
    <3>1. recorded' = recorded
        BY <2>1, <2>3 DEF Typed
    <3> QED  BY <1>1, <1>9, <2>1, <2>2, <2>3, <3>1
  <2>4. CASE x \in Exercises
    <3>1. StageOf(x) = "graded"
        BY <1>9, <2>1, <2>2, <2>4 DEF Position
    <3>2. StageOf(x)' = "recorded"
        BY <2>1, <2>2, <2>4 DEF StagesFit
    <3>3. T!Move(x, "graded", "recorded")
        BY <1>2, <1>9, <2>1, <2>2, <2>4, <3>1, <3>2
    <3> QED  BY <2>1, <2>4, <3>3 DEF T!Next, T!Record
  <2> QED  BY <2>3, <2>4
<1>14. CASE Poses(i)
  <2>1. /\ \A k \in 1 .. Len(sessions) : k # i =>
              /\ sessions'[k].node = sessions[k].node
              /\ sessions'[k].exercise = sessions[k].exercise
        /\ Len(sessions') = Len(sessions) /\ sessions'[i].exercise = posed + 1
        /\ sessions[i].node = "pose" /\ sessions'[i].node = "await"
        /\ posed' = posed + 1 /\ posed \in Nat /\ UNCHANGED recorded
      BY <1>14 DEF Poses, Moves, Typed
  <2>2. x = 0 \/ (x \in Exercises => recorded[x] > 0)
      BY <1>5, <2>1 DEF Ledger, Unsettled, Recorded
  <2>3. ASSUME NEW y \in Exercises, y # posed + 1 PROVE StageOf(y)' = StageOf(y)
    <3>1. recorded[y] = 0 => y # x
        BY <2>2, <2>3 DEF Exercises
    <3>2. recorded[y] = 0 => \A k \in Nat :
              (/\ k \in 1 .. Len(sessions) /\ sessions[k].exercise = y) <=>
              (/\ k \in 1 .. Len(sessions') /\ sessions'[k].exercise = y)
        BY <1>5, <2>1, <2>3, <3>1
    <3>3. recorded[y] = 0 => \A k \in 1 .. Len(sessions) :
              sessions[k].exercise = y => sessions'[k].node = sessions[k].node
        BY <1>5, <2>1, <3>1
    <3>4. (y <= posed') <=> (y <= posed)
        BY <2>1, <2>3 DEF Exercises
    <3> QED  BY <2>1, <3>2, <3>3, <3>4, StageStays
  <2>4. CASE posed + 1 \notin Exercises
      BY <1>1, <2>1, <2>3, <2>4
  <2>5. CASE posed + 1 \in Exercises
    <3>1. recorded[posed + 1] = 0
        BY <2>1, <2>5 DEF Ledger
    <3>2. StageOf(posed + 1) = "unposed"
        BY <2>1, <2>5, <3>1 DEF StagesFit
    <3>3. PICK n \in Exercises : n = posed + 1
        BY <2>5
    <3>4. StageOf(n) = "unposed" /\ StageOf(n)' = "open"
        BY <2>1, <3>1, <3>2, <3>3 DEF HoldersFit, Position
    <3>5. T!Move(n, "unposed", "open")
        BY <1>2, <2>3, <3>3, <3>4
    <3> QED  BY <2>1, <3>5 DEF T!Next, T!Pose
  <2> QED  BY <2>4, <2>5
<1> QED  BY <1>8, <1>10, <1>11, <1>12, <1>13, <1>14

(* Whatever the threads, the page, the network and the restarts do, an     *)
(* exercise is put once, one answer to it at most is taken, graded and     *)
(* counted, and no answer is given up after it was counted.                *)
THEOREM SessionsImplementTurn == Spec => ImplementsTurn
<1>1. TurnInv => Ledger /\ Typed /\ StagesFit /\ HoldersFit
    BY TypedFacts, Stages, Holders DEF TurnInv
<1>2. PageInit => T!Init
  <2> SUFFICES ASSUME PageInit PROVE T!Init
      OBVIOUS
  <2>1. sessions = <<>> /\ posed = 0 /\ recorded = [x \in Exercises |-> 0]
      BY DEF PageInit, Init
  <2>2. \A x \in Exercises : StageOf(x) = "unposed"
      BY <2>1 DEF StageOf, Exercises
  <2> QED  BY <2>1, <2>2 DEF T!Init
<1>3. /\ Ledger /\ Typed /\ StagesFit /\ HoldersFit
      /\ Ledger' /\ Typed' /\ StagesFit' /\ HoldersFit'
      /\ TurnStep
      => [T!Next]_(T!vars)
    BY StepImplements
<1>4. TurnInv /\ [Next]_vars => TurnStep
    BY NextMoves DEF TurnInv
<1>5. TurnInv /\ TurnInv' /\ [Next]_vars => [T!Next]_(T!vars)
    BY <1>1, <1>3, <1>4, PTL
<1> QED  BY <1>2, <1>5, TurnInvariant, PTL DEF Spec, ImplementsTurn, T!Spec
=============================================================================

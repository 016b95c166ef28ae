-------------------------- MODULE TutorGraphProofs --------------------------
(***************************************************************************)
(* Proofs about TutorGraph, for every skill graph, every limit and every   *)
(* set of decisions a model may propose.                                   *)
(***************************************************************************)
EXTENDS TutorGraph, PolicyProofs

-----------------------------------------------------------------------------
(* Lemmas about the guard.                                                 *)

(* What guard.py promises of its output: the decision applied completes    *)
(* the session or breaks no rule.                                          *)
LEMMA ValidateSound ==
    ASSUME NEW d, NEW ctx
    PROVE  \/ ViolatedRules(Validate(d, ctx), ctx) = {}
           \/ Validate(d, ctx) = Decision("COMPLETE", ctx.target)
  BY DEF Validate

LEMMA DecideAction ==
    ASSUME NEW ctx
    PROVE  Decide(ctx).action \in AdaptationActions
  BY DEF Decide, Remediate, Decision, AdaptationActions

(* The decision applied is a decision about a skill that exists, whatever  *)
(* was proposed.                                                           *)
LEMMA ValidateType ==
    ASSUME NEW d, d.action \in AdaptationActions, NEW ctx, ctx.target \in Skills
    PROVE  /\ Validate(d, ctx).action \in AdaptationActions
           /\ Validate(d, ctx).target \in Skills \cup {NoSkill}
  <1>1. Decision("COMPLETE", ctx.target).action \in AdaptationActions
    BY DEF Decision, AdaptationActions
  <1>2. Validate(d, ctx).action \in AdaptationActions
    BY <1>1, DecideAction DEF Validate
  <1>3. ASSUME NEW e, ViolatedRules(e, ctx) = {}
        PROVE  e.target \in Skills \cup {NoSkill}
    BY <1>3 DEF ViolatedRules, StandingRules
  <1>4. Decision("COMPLETE", ctx.target).target \in Skills \cup {NoSkill}
    BY DEF Decision
  <1>5. Validate(d, ctx).target \in Skills \cup {NoSkill}
    BY <1>3, <1>4, ValidateSound
  <1>. QED  BY <1>2, <1>5

(* At a limit the only decision applied is to complete the session.        *)
LEMMA LimitsComplete ==
    ASSUME NEW d, NEW ctx, LimitsBreached(ctx)
    PROVE  Validate(d, ctx).action = "COMPLETE"
  <1>1. ASSUME NEW e, ViolatedRules(e, ctx) = {}
        PROVE  e.action = "COMPLETE"
    BY <1>1 DEF ViolatedRules, StandingRules
  <1>. QED  BY <1>1, ValidateSound DEF Decision

(* Below the depth limit a redirect is applied, at it none is.             *)
LEMMA RedirectBelowLimit ==
    ASSUME NEW d, NEW ctx, Validate(d, ctx).action = "REVISIT_PREREQUISITE"
    PROVE  ~(ctx.depth >= MAX_PREREQ_DEPTH)
  <1>1. ASSUME NEW e, ViolatedRules(e, ctx) = {}, e.action = "REVISIT_PREREQUISITE"
        PROVE  ~(ctx.depth >= MAX_PREREQ_DEPTH)
    BY <1>1 DEF ViolatedRules, RedirectRules
  <1>. QED  BY <1>1, ValidateSound DEF Decision

(* With a return pending neither advancing nor escalating is applied.      *)
LEMMA NoLeavingDetour ==
    ASSUME NEW d, NEW ctx, ctx.stack # <<>>
    PROVE  Validate(d, ctx).action \notin {"ADVANCE", "ESCALATE_DIFFICULTY"}
  <1>1. ASSUME NEW e, ViolatedRules(e, ctx) = {}
        PROVE  e.action \notin {"ADVANCE", "ESCALATE_DIFFICULTY"}
    BY <1>1 DEF ViolatedRules, ReturnRules
  <1>. QED  BY <1>1, ValidateSound DEF Decision

(* From the original objective a redirect is applied only to an unmastered *)
(* direct prerequisite that was diagnosed, or measured and found broken.   *)
LEMMA RedirectSound ==
    ASSUME NEW d, NEW ctx, ctx.stack = <<>>, ctx.failures \in Nat,
           Validate(d, ctx).action = "REVISIT_PREREQUISITE"
    PROVE  LET p == Validate(d, ctx).target
           IN  /\ p \in Unmastered(ctx.nodes, ctx.target)
               /\ \/ ctx.hint = p
                  \/ ctx.failures >= 2 /\ HasRedirectEvidence(ctx.nodes, p)
  <1>1. ASSUME NEW e, ViolatedRules(e, ctx) = {}, e.action = "REVISIT_PREREQUISITE"
        PROVE  /\ e.target \in Unmastered(ctx.nodes, ctx.target)
               /\ \/ ctx.hint = e.target
                  \/ ctx.failures >= 2 /\ HasRedirectEvidence(ctx.nodes, e.target)
    <2>1. RedirectRules(e, ctx) = {}
      BY <1>1 DEF ViolatedRules
    <2>2. e.target \in Unmastered(ctx.nodes, ctx.target)
      BY <1>1, <2>1 DEF RedirectRules
    <2>3. ctx.failures >= 2 \/ ctx.hint = e.target
      BY <1>1, <2>1 DEF RedirectRules
    <2>4. e.target \in Prereqs[ctx.target]
      BY <2>2 DEF Unmastered
    <2>5. Implicates(ctx, e.target) \/ HasRedirectEvidence(ctx.nodes, e.target)
      BY <1>1, <2>1, <2>4 DEF RedirectRules
    <2>. QED  BY <2>2, <2>3, <2>5 DEF Implicates
  <1>. QED  BY <1>1, ValidateSound DEF Decision

-----------------------------------------------------------------------------
(* Type correctness.                                                       *)

USE DEF control, request, detour, counters, grade, plan, records, history, others, vars

LEMMA NoRowsIsNoStore ==
    ASSUME NEW f \in [Skills -> SkillNodes]
    PROVE  f # NoRows
  BY SkillsAssumption DEF NoRows

(* Rows of some of the skills, and the threads that may have computed them. *)
SomeRows == UNION {[S -> SkillNodes] : S \in SUBSET Skills}

Threads ==
    [pc : StoreNodes, call : Calls, target : Names, outcome : Outcomes, hint : Names,
     skills : [Skills -> SkillNodes] \cup {NoRows}, moved : SomeRows]

OthersTyped ==
    /\ older \in [DOMAIN older -> Threads]
    /\ \A n \in DOMAIN older : older[n].pc # "load_student" =>
          older[n].target \in Skills /\ older[n].skills # NoRows /\ store # NoRows
    /\ foreign \subseteq Skills

LEMMA SomeRowsAre ==
    ASSUME NEW r
    PROVE  r \in SomeRows <=> AreRows(r)
  BY DEF SomeRows, AreRows

LEMMA ThreadsAre ==
    ASSUME NEW o
    PROVE  o \in Threads <=> \E S \in SUBSET Skills : o \in Thread(S)
  <1>1. ASSUME o \in Threads
        PROVE  \E S \in SUBSET Skills : o \in Thread(S)
    <2>1. PICK S \in SUBSET Skills : o.moved \in [S -> SkillNodes]
      BY <1>1, SomeRowsAre DEF Threads, AreRows
    <2>. QED  BY <1>1, <2>1 DEF Threads, Thread
  <1>2. ASSUME NEW S \in SUBSET Skills, o \in Thread(S)
        PROVE  o \in Threads
    <2>1. o.moved \in SomeRows
      BY <1>2, SomeRowsAre DEF Thread, AreRows
    <2>. QED  BY <1>2, <2>1 DEF Threads, Thread
  <1>. QED  BY <1>1, <1>2

LEMMA OthersAre ==
    ASSUME NEW f
    PROVE  f \in [DOMAIN f -> Threads]
             <=> /\ f = [n \in DOMAIN f |-> f[n]]
                 /\ \A n \in DOMAIN f : \E S \in SUBSET Skills : f[n] \in Thread(S)
  <1>1. f \in [DOMAIN f -> Threads]
          <=> f = [n \in DOMAIN f |-> f[n]] /\ \A n \in DOMAIN f : f[n] \in Threads
    OBVIOUS
  <1>. QED  BY <1>1, ThreadsAre

LEMMA TypeOthers == TypeOK => OthersTyped /\ moved \in SomeRows
  BY OthersAre, SomeRowsAre DEF TypeOK, OthersOK, OthersTyped

LEMMA SomeRowsType ==
    ASSUME NEW r \in SomeRows
    PROVE  DOMAIN r \subseteq Skills /\ \A s \in DOMAIN r : r[s] \in SkillNodes
  BY DEF SomeRows

LEMMA NoRowsType == NoRows \in SomeRows
  <1>1. NoRows \in [{} -> SkillNodes]
    BY DEF NoRows
  <1>. QED  BY <1>1 DEF SomeRows

LEMMA ObservedType ==
    ASSUME NEW node \in SkillNodes, NEW o, NEW n \in Observed(node, o)
    PROVE  /\ n \in SkillNodes
           /\ Resolved(n) \in SkillNodes
           /\ n.attempts = node.attempts + 1
           /\ Resolved(n).attempts = node.attempts + 1
  BY DEF Observed, Resolved, SkillNodes

(* Writing a row through keeps the store and the computed rows typed.      *)
LEMMA SaveSkillType ==
    ASSUME TypeOK, NEW s \in Skills, NEW candidates \in SUBSET SkillNodes,
           store \in [Skills -> SkillNodes], SaveSkill(s, candidates)
    PROVE  /\ store' \in [Skills -> SkillNodes]
           /\ DOMAIN moved' = DOMAIN moved \cup {s}
           /\ moved' \in SomeRows
           /\ \A x \in DOMAIN moved' : moved'[x] \in SkillNodes
           /\ \A x \in DOMAIN moved : moved'[x] = moved[x]
           /\ store'[s] = moved'[s]
           /\ \A x \in Skills \ {s} : store'[x] = store[x]
           /\ s \notin DOMAIN moved => moved'[s] \in candidates
           /\ foreign' = foreign \ {s}
  <1>0. moved \in SomeRows /\ DOMAIN moved \subseteq Skills /\ \A x \in DOMAIN moved : moved[x] \in SkillNodes
    BY SomeRowsType, TypeOthers DEF TypeOK
  <1>1. CASE s \in DOMAIN moved /\ moved' = moved
    BY <1>0, <1>1 DEF SaveSkill
  <1>2. CASE s \notin DOMAIN moved
    <2>1. PICK n \in candidates :
             moved' = [x \in DOMAIN moved \cup {s} |-> IF x = s THEN n ELSE moved[x]]
      BY <1>2 DEF SaveSkill
    <2>2. moved' \in [DOMAIN moved \cup {s} -> SkillNodes]
      BY <1>0, <2>1
    <2>3. moved' \in SomeRows
      BY <1>0, <2>2 DEF SomeRows
    <2>. QED  BY <1>0, <1>2, <2>1, <2>3 DEF SaveSkill
  <1>. QED  BY <1>1, <1>2 DEF SaveSkill

(* So does the patch of update_mastery keep the mirror and the counters.   *)
LEMMA ReturnType ==
    ASSUME TypeOK, skills \in [Skills -> SkillNodes], target \in Skills, ReturnFromUpdate
    PROVE  /\ skills' \in [Skills -> SkillNodes]
           /\ moved' = NoRows /\ moved' \in SomeRows
           /\ failures' \in Nat
           /\ topic' \in [Skills -> Nat]
  <1>1. \A s \in DOMAIN moved : moved[s] \in SkillNodes
    BY SomeRowsType, TypeOthers
  <1>. QED  BY <1>1, NoRowsType DEF ReturnFromUpdate, Patched, TypeOK

LEMMA RecordType ==
    ASSUME TypeOK, pc = "analyze_misconception", RecordMisconception
    PROVE  /\ skills' \in [Skills -> SkillNodes]
           /\ store' \in [Skills -> SkillNodes]
           /\ \A s \in Skills \ {target} : skills'[s] = skills[s] /\ store'[s] = store[s]
           /\ \A s \in Skills : /\ Estimate(skills'[s]) = Estimate(skills[s])
                               /\ store'[s] \in {store[s], skills'[s]}
  <1>1. skills \in [Skills -> SkillNodes] /\ store \in [Skills -> SkillNodes] /\ target \in Skills
    BY DEF TypeOK
  <1>2. /\ Misconceived(skills[target]) \in SkillNodes
        /\ Estimate(Misconceived(skills[target])) = Estimate(skills[target])
    BY <1>1 DEF Misconceived, Estimate, SkillNodes
  <1>. QED  BY <1>1, <1>2 DEF RecordMisconception

LEMMA LeaveBehindType ==
    ASSUME TypeOK, LeaveBehind
    PROVE  /\ store' \in [Skills -> SkillNodes] \cup {NoRows}
           /\ store # NoRows => store' # NoRows
  <1>1. CASE store' = store
    BY <1>1 DEF TypeOK
  <1>2. CASE store = NoRows /\ store' = FirstRows
    BY <1>2, NodeAssumption DEF FirstRows
  <1>3. CASE pc = "analyze_misconception" /\ store' = [store EXCEPT ![target] = Misconceived(skills[target])]
    <2>1. skills \in [Skills -> SkillNodes] /\ store \in [Skills -> SkillNodes] /\ target \in Skills
      BY <1>3 DEF TypeOK
    <2>2. Misconceived(skills[target]) \in SkillNodes
      BY <2>1 DEF Misconceived, SkillNodes
    <2>. QED  BY <1>3, <2>1, <2>2, NoRowsIsNoStore
  <1>. QED  BY <1>1, <1>2, <1>3 DEF LeaveBehind

-----------------------------------------------------------------------------
(* The threads of replaced sessions.                                       *)

(* What a replaced session may write of a skill: what it had computed, or  *)
(* a row at most one attempt past its mirror, and only for the skill it    *)
(* was about or one that shares the failure.                               *)
MayWrite(o, s, node) ==
    /\ o.pc \in {"analyze_misconception", "update_mastery"}
    /\ \/ s \in DOMAIN o.moved /\ node = o.moved[s]
       \/ node.attempts \in {o.skills[s].attempts, o.skills[s].attempts + 1}
    /\ s = o.target \/ (o.outcome # "CORRECT" /\ s \in Prereqs[o.target])

LEMMA OlderKnows ==
    ASSUME TypeOK, NEW n \in DOMAIN older, older[n].pc # "load_student"
    PROVE  /\ older[n] \in Threads
           /\ older[n].target \in Skills
           /\ older[n].skills \in [Skills -> SkillNodes]
           /\ store \in [Skills -> SkillNodes]
           /\ \A s \in DOMAIN older[n].moved : s \in Skills /\ older[n].moved[s] \in SkillNodes
  <1>1. older[n] \in Threads /\ store \in [Skills -> SkillNodes]
    BY TypeOthers DEF TypeOK, OthersTyped
  <1>2. older[n].moved \in SomeRows
    BY <1>1 DEF Threads
  <1>. QED  BY <1>1, <1>2, SomeRowsType, TypeOthers DEF TypeOK, OthersTyped, Threads

LEMMA OverwriteType ==
    ASSUME NEW s \in Skills, NEW node \in SkillNodes, store \in [Skills -> SkillNodes],
           Overwrite(s, node)
    PROVE  /\ store' \in [Skills -> SkillNodes]
           /\ store'[s] = node
           /\ \A x \in Skills \ {s} : store'[x] = store[x]
           /\ foreign' = foreign \cup {s}
  BY DEF Overwrite

(* Every step of such a thread writes nothing, seeds an empty store, or    *)
(* overwrites one row with one it may write.                               *)
LEMMA OlderWrites ==
    ASSUME TypeOK, NEW n \in DOMAIN older, OlderStep(n)
    PROVE  \/ UNCHANGED <<store, foreign>>
           \/ store = NoRows /\ store' = FirstRows /\ UNCHANGED foreign
           \/ \E s \in Skills, node \in SkillNodes :
                 /\ MayWrite(older[n], s, node)
                 /\ Overwrite(s, node)
                 /\ store \in [Skills -> SkillNodes]
  <1>. DEFINE o == older[n]
  <1>1. CASE OlderLoads(n) \/ OlderGrades(n) \/ OlderFindsNothing(n) \/ OlderLogs(n) \/ OlderEnds(n)
    BY <1>1 DEF OlderLoads, OlderGrades, OlderFindsNothing, OlderLogs, OlderEnds
  <1>2. CASE OlderAnalyzes(n)
    <2>1. o.pc = "analyze_misconception"
      BY <1>2 DEF OlderAnalyzes, Replaced
    <2>2. o.target \in Skills /\ o.skills \in [Skills -> SkillNodes] /\ store \in [Skills -> SkillNodes]
      BY <2>1, OlderKnows
    <2>3. /\ Misconceived(o.skills[o.target]) \in SkillNodes
          /\ Misconceived(o.skills[o.target]).attempts = o.skills[o.target].attempts
      BY <2>2 DEF Misconceived, SkillNodes
    <2>4. \/ Overwrite(o.target, Misconceived(o.skills[o.target]))
          \/ UNCHANGED <<store, foreign>>
      BY <1>2 DEF OlderAnalyzes
    <2>5. MayWrite(o, o.target, Misconceived(o.skills[o.target]))
      BY <2>1, <2>3 DEF MayWrite
    <2>. HIDE DEF o
    <2>. QED  BY <2>2, <2>3, <2>4, <2>5 DEF o
  <1>3. CASE OlderSaves(n)
    <2>1. o.pc = "update_mastery"
      BY <1>3 DEF OlderSaves, Replaced
    <2>2. /\ o.target \in Skills /\ o.skills \in [Skills -> SkillNodes] /\ store \in [Skills -> SkillNodes]
          /\ \A s \in DOMAIN o.moved : o.moved[s] \in SkillNodes
      BY <2>1, OlderKnows
    <2>. DEFINE C == {Resolved(r) : r \in Observed(o.skills[o.target], o.outcome)}
    <2>3. \A c \in C : c \in SkillNodes /\ c.attempts = o.skills[o.target].attempts + 1
      BY <2>2, ObservedType
    <2>4. PICK row \in RowsFor(o, o.target, C) : Overwrite(o.target, row)
      BY <1>3 DEF OlderSaves
    <2>. HIDE DEF C
    <2>5. row \in SkillNodes /\ MayWrite(o, o.target, row)
      BY <2>1, <2>2, <2>3 DEF RowsFor, MayWrite
    <2>. QED  BY <2>2, <2>4, <2>5
  <1>4. CASE OlderSavesShare(n)
    <2>1. o.pc = "update_mastery"
      BY <1>4 DEF OlderSavesShare, Replaced
    <2>2. /\ o.target \in Skills /\ o.skills \in [Skills -> SkillNodes] /\ store \in [Skills -> SkillNodes]
          /\ \A s \in DOMAIN o.moved : o.moved[s] \in SkillNodes
      BY <2>1, OlderKnows
    <2>3. PICK p \in SharedWith(o.outcome, o.target, o.hint) :
             \E row \in RowsFor(o, p, Observed(o.skills[p], o.outcome)) : Overwrite(p, row)
      BY <1>4 DEF OlderSavesShare
    <2>4. PICK row \in RowsFor(o, p, Observed(o.skills[p], o.outcome)) : Overwrite(p, row)
      BY <2>3
    <2>5. p \in Skills /\ p \in Prereqs[o.target] /\ o.outcome # "CORRECT"
      BY <2>2, <2>3, GraphAssumption DEF SharedWith
    <2>6. \A r \in Observed(o.skills[p], o.outcome) :
             r \in SkillNodes /\ r.attempts = o.skills[p].attempts + 1
      BY <2>2, <2>5, ObservedType
    <2>7. row \in SkillNodes /\ MayWrite(o, p, row)
      BY <2>1, <2>2, <2>5, <2>6 DEF RowsFor, MayWrite
    <2>. QED  BY <2>2, <2>4, <2>5, <2>7
  <1>. QED  BY <1>1, <1>2, <1>3, <1>4 DEF OlderStep

(* It moves no other thread; its own keeps its skill and the attempts of   *)
(* its mirror, and is past the grade once it has counted a submission.     *)
LEMMA OlderThreads ==
    ASSUME TypeOK, NEW n \in DOMAIN older, OlderStep(n)
    PROVE  /\ DOMAIN older' \subseteq DOMAIN older
           /\ older' \in [DOMAIN older' -> Threads]
           /\ \A m \in DOMAIN older : m # n => m \in DOMAIN older' /\ older'[m] = older[m]
           /\ rows' \in {rows, rows + 1} /\ submissions' \in {submissions, submissions + 1}
           /\ n \in DOMAIN older' =>
                 /\ older'[n] # older[n]
                 /\ older[n].pc # "load_student" /\ older'[n].pc # "load_student"
                 /\ older'[n].target = older[n].target
                 /\ older'[n].moved = older[n].moved
                 /\ older'[n].skills \in [Skills -> SkillNodes]
                 /\ \A s \in Skills : older'[n].skills[s].attempts = older[n].skills[s].attempts
                 /\ \/ /\ older'[n].outcome \in StudentOutcomes
                       /\ submissions' = submissions + 1
                    \/ /\ older'[n].outcome = older[n].outcome
                       /\ older[n].pc \in {"analyze_misconception", "update_mastery"}
                       /\ submissions' = submissions
  <1>. DEFINE o == older[n]
  <1>0. older \in [DOMAIN older -> Threads] /\ o \in Threads
    BY TypeOthers DEF TypeOK, OthersTyped
  <1>1. CASE Leave(n) /\ rows' \in {rows, rows + 1} /\ UNCHANGED submissions
    BY <1>0, <1>1 DEF Leave
  <1>2. CASE OlderGrades(n)
    <2>1. PICK out \in StudentOutcomes :
             older' = [older EXCEPT ![n].pc = "analyze_misconception", ![n].outcome = out]
      BY <1>2 DEF OlderGrades
    <2>2. o.pc = "execute_and_grade" /\ submissions' = submissions + 1 /\ UNCHANGED rows
      BY <1>2 DEF OlderGrades, Replaced
    <2>3. o.skills \in [Skills -> SkillNodes]
      BY <2>2, OlderKnows
    <2>4. /\ DOMAIN older' = DOMAIN older
          /\ \A m \in DOMAIN older : m # n => older'[m] = older[m]
          /\ older'[n] = [o EXCEPT !.pc = "analyze_misconception", !.outcome = out]
      BY <1>0, <2>1
    <2>5. /\ older'[n] \in Threads
          /\ older'[n].pc = "analyze_misconception" /\ older'[n].outcome = out
          /\ older'[n].skills = o.skills /\ older'[n].target = o.target /\ older'[n].moved = o.moved
      BY <1>0, <2>4 DEF Threads, StoreNodes, Outcomes
    <2>6. older' \in [DOMAIN older' -> Threads]
      BY <1>0, <2>1, <2>4, <2>5
    <2>. QED  BY <2>2, <2>3, <2>4, <2>5, <2>6
  <1>3. CASE OlderFindsNothing(n) \/ OlderAnalyzes(n)
    <2>1. /\ o.pc = "analyze_misconception" /\ UNCHANGED <<rows, submissions>>
      BY <1>3 DEF OlderFindsNothing, OlderAnalyzes, Replaced
    <2>2. o.skills \in [Skills -> SkillNodes] /\ o.target \in Skills
      BY <2>1, OlderKnows
    <2>3. PICK h \in Names, mirror \in [Skills -> SkillNodes] :
             /\ older' = [older EXCEPT ![n] = [o EXCEPT !.pc = "update_mastery", !.hint = h,
                                                       !.skills = mirror]]
             /\ \A s \in Skills : mirror[s].attempts = o.skills[s].attempts
      <3>1. CASE OlderFindsNothing(n)
        <4>1. PICK h \in Names : older' = [older EXCEPT ![n].pc = "update_mastery", ![n].hint = h]
          BY <1>0, <3>1 DEF OlderFindsNothing, Names, Threads
        <4>2. older' = [older EXCEPT ![n] = [o EXCEPT !.pc = "update_mastery", !.hint = h]]
          BY <1>0, <4>1
        <4>3. [o EXCEPT !.pc = "update_mastery", !.hint = h]
                = [o EXCEPT !.pc = "update_mastery", !.hint = h, !.skills = o.skills]
          BY <1>0 DEF Threads
        <4>. QED  BY <2>2, <4>2, <4>3
      <3>2. CASE OlderAnalyzes(n)
        <4>. DEFINE node == Misconceived(o.skills[o.target])
        <4>1. PICK h \in Names : older' = [older EXCEPT ![n].pc = "update_mastery", ![n].hint = h,
                                                        ![n].skills[o.target] = node]
          BY <3>2, InputAssumption DEF OlderAnalyzes, Names
        <4>2. node \in SkillNodes /\ node.attempts = o.skills[o.target].attempts
          BY <2>2 DEF Misconceived, SkillNodes
        <4>. DEFINE mirror == [o.skills EXCEPT ![o.target] = node]
        <4>3. mirror \in [Skills -> SkillNodes] /\ \A s \in Skills : mirror[s].attempts = o.skills[s].attempts
          BY <2>2, <4>2
        <4>4. older' = [older EXCEPT ![n] = [o EXCEPT !.pc = "update_mastery", !.hint = h, !.skills = mirror]]
          BY <1>0, <4>1 DEF Threads
        <4>. QED  BY <4>3, <4>4
      <3>. QED  BY <1>3, <3>1, <3>2
    <2>4. /\ DOMAIN older' = DOMAIN older
          /\ \A m \in DOMAIN older : m # n => older'[m] = older[m]
          /\ older'[n] = [o EXCEPT !.pc = "update_mastery", !.hint = h, !.skills = mirror]
      BY <1>0, <2>3
    <2>5. /\ older'[n] \in Threads
          /\ older'[n].pc = "update_mastery" /\ older'[n].outcome = o.outcome
          /\ older'[n].skills = mirror /\ older'[n].target = o.target /\ older'[n].moved = o.moved
      BY <1>0, <2>4 DEF Threads, StoreNodes
    <2>6. older' \in [DOMAIN older' -> Threads]
      BY <1>0, <2>3, <2>4, <2>5
    <2>. QED  BY <2>1, <2>3, <2>4, <2>5, <2>6
  <1>4. CASE OlderSaves(n) \/ OlderLogs(n)
    <2>1. PICK c \in {"log", "save_share"} : older' = [older EXCEPT ![n].call = c] /\ o.call # c
      BY <1>4 DEF OlderSaves, OlderLogs
    <2>2. o.pc = "update_mastery" /\ UNCHANGED submissions /\ rows' \in {rows, rows + 1}
      BY <1>4 DEF OlderSaves, OlderLogs, Replaced
    <2>3. o.skills \in [Skills -> SkillNodes]
      BY <2>2, OlderKnows
    <2>4. /\ DOMAIN older' = DOMAIN older
          /\ \A m \in DOMAIN older : m # n => older'[m] = older[m]
          /\ older'[n] = [o EXCEPT !.call = c]
      BY <1>0, <2>1
    <2>5. /\ older'[n] \in Threads /\ older'[n].call = c
          /\ older'[n].pc = o.pc /\ older'[n].outcome = o.outcome
          /\ older'[n].skills = o.skills /\ older'[n].target = o.target /\ older'[n].moved = o.moved
      BY <1>0, <2>4 DEF Threads, Calls
    <2>6. older' \in [DOMAIN older' -> Threads]
      BY <1>0, <2>1, <2>4, <2>5
    <2>. QED  BY <2>1, <2>2, <2>3, <2>4, <2>5, <2>6
  <1>. QED
    BY <1>1, <1>2, <1>3, <1>4
       DEF OlderStep, OlderLoads, OlderSavesShare, OlderEnds

LEMMA FrontProperties ==
    ASSUME NEW S, NEW seq \in Seq(S), seq # <<>>
    PROVE  Front(seq) \in Seq(S) /\ Len(Front(seq)) = Len(seq) - 1
  <1>1. Len(seq) \in Nat /\ Len(seq) # 0
    OBVIOUS
  <1>. QED  BY <1>1 DEF Front

(* Whoever is left running keeps its type, whatever the present does.      *)
LEMMA NextOthersTyped == TypeOK /\ [Next]_vars => OthersTyped'
  <1>. SUFFICES ASSUME TypeOK, [Next]_vars
                PROVE  OthersTyped'
    OBVIOUS
  <1>0. OthersTyped
    BY TypeOthers
  <1>1. ASSUME UNCHANGED older, foreign' \subseteq Skills, store # NoRows => store' # NoRows
        PROVE  OthersTyped'
    BY <1>0, <1>1 DEF OthersTyped
  <1>2. CASE UNCHANGED <<older, foreign, store>>
    BY <1>0, <1>2 DEF OthersTyped
  <1>3. CASE Start
    <2>1. CASE UNCHANGED older
      BY <1>0, <1>3, <2>1 DEF Start, OthersTyped
    <2>2. CASE running /\ pc \in StoreNodes
      <3>1. Present \in Threads
        <4>1. moved \in SomeRows
          BY TypeOthers
        <4>. QED  BY <2>2, <4>1 DEF Present, Threads, TypeOK
      <3>2. /\ Present.pc # "load_student" =>
                  Present.target \in Skills /\ Present.skills # NoRows /\ store # NoRows
        BY <2>2 DEF Present, TypeOK, StoreNodes
      <3>3. /\ older' = [n \in DOMAIN older \cup {starts} |->
                           IF n = starts THEN Present ELSE older[n]]
            /\ UNCHANGED <<store, foreign>>
        BY <1>3, <2>2 DEF Start, LeaveRunning
      <3>. HIDE DEF Present
      <3>4. older' \in [DOMAIN older' -> Threads]
        BY <1>0, <3>1, <3>3 DEF OthersTyped
      <3>5. \A n \in DOMAIN older' : older'[n].pc # "load_student" =>
               older'[n].target \in Skills /\ older'[n].skills # NoRows /\ store # NoRows
        BY <1>0, <3>2, <3>3 DEF OthersTyped
      <3>6. foreign' \subseteq Skills /\ UNCHANGED store
        BY <1>0, <3>3 DEF OthersTyped
      <3>. QED  BY <3>4, <3>5, <3>6 DEF OthersTyped
    <2>. QED  BY <1>3, <2>1, <2>2 DEF Start, LeaveRunning
  <1>4. CASE RunOlder
    <2>1. PICK n \in DOMAIN older : OlderStep(n)
      BY <1>4 DEF RunOlder
    <2>2. /\ store # NoRows => store' # NoRows
          /\ foreign' \subseteq Skills
      BY <1>0, <2>1, OlderWrites, OverwriteType, NoRowsIsNoStore DEF OthersTyped
    <2>3. ASSUME NEW m \in DOMAIN older', older'[m].pc # "load_student"
          PROVE  older'[m].target \in Skills /\ older'[m].skills # NoRows /\ store' # NoRows
      <3>1. CASE m = n
        <4>1. older[n].pc # "load_student" /\ older'[n].target = older[n].target
              /\ older'[n].skills \in [Skills -> SkillNodes]
          BY <2>1, <2>3, <3>1, OlderThreads
        <4>. QED  BY <1>0, <2>1, <2>2, <3>1, <4>1, NoRowsIsNoStore DEF OthersTyped
      <3>2. CASE m # n
        <4>1. m \in DOMAIN older /\ older'[m] = older[m]
          BY <2>1, <2>3, <3>2, OlderThreads
        <4>. QED  BY <1>0, <2>2, <2>3, <4>1 DEF OthersTyped
      <3>. QED  BY <3>1, <3>2
    <2>4. older' \in [DOMAIN older' -> Threads]
      BY <2>1, OlderThreads
    <2>. QED  BY <2>2, <2>3, <2>4 DEF OthersTyped
  <1>5. CASE LoadStudent
    <2>1. store' # NoRows /\ foreign' = {} /\ UNCHANGED older
      BY <1>5, NodeAssumption, NoRowsIsNoStore DEF LoadStudent, FirstRows
    <2>. QED  BY <1>1, <2>1
  <1>6. CASE AnalyzeMisconception
    <2>1. pc = "analyze_misconception" /\ (RecordMisconception \/ UNCHANGED store)
          /\ UNCHANGED <<older, foreign>>
      BY <1>6 DEF AnalyzeMisconception, AnalyzeNothing, AnalyzeByRule, AnalyzeByModel,
                  AnalyzeFallback, Run
    <2>2. store # NoRows => store' # NoRows
      BY <2>1, RecordType, NoRowsIsNoStore
    <2>. QED  BY <1>0, <1>1, <2>1, <2>2 DEF OthersTyped
  <1>7. CASE SaveTarget \/ SaveShare
    <2>1. /\ pc = "update_mastery" /\ UNCHANGED older
          /\ \E s, C : SaveSkill(s, C)
      BY <1>7 DEF SaveTarget, SaveShare, Run
    <2>2. store \in [Skills -> SkillNodes]
      BY <2>1 DEF TypeOK
    <2>3. DOMAIN store' = Skills /\ foreign' \subseteq foreign
      BY <2>1, <2>2 DEF SaveSkill
    <2>4. store' # NoRows
      BY <2>3, SkillsAssumption DEF NoRows
    <2>. QED  BY <1>0, <1>1, <2>1, <2>3, <2>4 DEF OthersTyped
  <1>8. CASE Breakdown
    BY <1>0, <1>1, <1>8, LeaveBehindType DEF Breakdown, OthersTyped
  <1>. QED
    BY <1>2, <1>3, <1>4, <1>5, <1>6, <1>7, <1>8
       DEF Next, RunNode, Diagnose, DiagnoseUnknown, PlanAction, Retrieve, GenerateProblem,
           ExecuteAndGrade, UpdateMastery, LogTarget, LogShare, ReturnFromUpdate, Adapt, Recover,
           Finalize, SubmitAnswer, Continue

LEMMA InitTypeOK == Init => TypeOK
  <1>. SUFFICES ASSUME Init
                PROVE  TypeOK
    OBVIOUS
  <1>1. running \in BOOLEAN /\ problem \in BOOLEAN
    BY DEF Init
  <1>2. store \in [Skills -> SkillNodes] \cup {NoRows}
    BY NodeAssumption DEF Init
  <1>3. seeded \in [Skills -> Nat]
    BY <1>2, NodeAssumption DEF Init, SkillNodes
  <1>4. OthersOK
    BY DEF Init, OthersOK
  <1>5. AreRows(moved)
    BY NoRowsType, SomeRowsAre DEF Init
  <1>. QED
    BY <1>1, <1>2, <1>3, <1>4, <1>5
       DEF Init, TypeOK, NoDiagnosis, Names, AdaptationActions, Calls, Outcomes

LEMMA NextTypeOK == TypeOK /\ [Next]_vars => TypeOK'
  <1>. SUFFICES ASSUME TypeOK, [Next]_vars
                PROVE  TypeOK'
    OBVIOUS
  <1>0. OthersOK'
    BY NextOthersTyped, OthersAre DEF OthersTyped, OthersOK
  <1>r. AreRows(moved) /\ (UNCHANGED moved => AreRows(moved')) /\ (moved' \in SomeRows => AreRows(moved'))
    BY SomeRowsAre DEF TypeOK
  <1>. USE <1>0, <1>r DEF TypeOK, Run, GoTo, Nodes, Calls, Outcomes
  <1>1. CASE LoadStudent
    BY <1>1, NodeAssumption, NoRowsIsNoStore DEF LoadStudent, FirstRows
  <1>2. CASE Diagnose
    BY <1>2 DEF Diagnose, Names
  <1>3. CASE DiagnoseUnknown
    <2>1. running' \in BOOLEAN /\ problem' \in BOOLEAN
      BY <1>3 DEF DiagnoseUnknown
    <2>. QED  BY <2>1, <1>3 DEF DiagnoseUnknown
  <1>4. CASE PlanAction
    <2>1. running' \in BOOLEAN /\ problem' \in BOOLEAN
      BY <1>4 DEF PlanAction, DifficultyFor
    <2>2. pc' \in {"retrieve", "generate_problem"} /\ UNCHANGED <<running, call>>
      BY <1>4 DEF PlanAction
    <2>. QED  BY <2>1, <2>2, <1>4 DEF PlanAction, DifficultyFor
  <1>5. CASE Retrieve
    BY <1>5 DEF Retrieve
  <1>6. CASE GenerateProblem
    BY <1>6 DEF GenerateProblem, Author, Suspend
  <1>7. CASE ExecuteAndGrade
    BY <1>7 DEF ExecuteAndGrade, RouteEvidence
  <1>8. CASE AnalyzeMisconception
    <2>1. CASE AnalyzeNothing
      BY <2>1 DEF AnalyzeNothing
    <2>2. CASE AnalyzeByRule
      <3>1. hint' \in Names /\ detected' \in [Skills -> Names]
        BY <2>2, InputAssumption DEF AnalyzeByRule, Detect
      <3>. QED  BY <2>2, <3>1, RecordType, NoRowsIsNoStore DEF AnalyzeByRule
    <2>3. CASE AnalyzeByModel
      <3>1. hint' \in Names /\ detected' \in [Skills -> Names]
        BY <2>3, InputAssumption DEF AnalyzeByModel, Detect, Names
      <3>. QED  BY <2>3, <3>1, RecordType, NoRowsIsNoStore DEF AnalyzeByModel
    <2>4. CASE AnalyzeFallback
      BY <2>4 DEF AnalyzeFallback, Names
    <2>. QED  BY <1>8, <2>1, <2>2, <2>3, <2>4 DEF AnalyzeMisconception
  <1>9. CASE UpdateMastery
    <2>. USE DEF UpdateMastery, SaveTarget, LogTarget, SaveShare, LogShare, ReturnFromUpdate
    <2>0. store \in [Skills -> SkillNodes] /\ skills \in [Skills -> SkillNodes] /\ target \in Skills
      BY <1>9
    <2>b. running' \in BOOLEAN /\ problem' \in BOOLEAN
      BY <1>9
    <2>1. CASE SaveTarget
      <3>. DEFINE C == {Resolved(n) : n \in Observed(skills[target], outcome)}
      <3>1. C \subseteq SkillNodes
        BY <2>0, ObservedType
      <3>2. SaveSkill(target, C)
        BY <2>1 DEF SaveTarget
      <3>. HIDE DEF C
      <3>. QED  BY <2>0, <2>b, <2>1, <3>1, <3>2, SaveSkillType, NoRowsIsNoStore DEF SaveTarget
    <2>2. CASE LogTarget
      BY <2>0, <2>b, <2>2
    <2>3. CASE SaveShare
      <3>1. PICK p \in Payers : SaveSkill(p, Observed(skills[p], outcome))
        BY <2>3 DEF SaveShare
      <3>2. p \in Skills
        BY <2>0, <3>1, GraphAssumption DEF Payers, SharedWith
      <3>3. Observed(skills[p], outcome) \subseteq SkillNodes
        BY <2>0, <3>2, ObservedType
      <3>. QED  BY <2>0, <2>b, <2>3, <3>1, <3>2, <3>3, SaveSkillType, NoRowsIsNoStore, ZenonT(60) DEF SaveShare
    <2>4. CASE LogShare
      BY <2>0, <2>b, <2>4
    <2>5. CASE ReturnFromUpdate
      <3>1. pc' = "adapt" /\ call' = "save"
        BY <2>5
      <3>. QED  BY <2>0, <2>b, <2>5, <3>1, ReturnType, NoRowsIsNoStore
    <2>. QED  BY <1>9, <2>1, <2>2, <2>3, <2>4, <2>5
  <1>10. CASE Adapt
    <2>1. running' \in BOOLEAN /\ problem' \in BOOLEAN
      BY <1>10 DEF Adapt
    <2>2. PICK d : /\ ApplyDecision(Validate(d, Context))
                   /\ d.action \in AdaptationActions
      BY <1>10, DecideAction, InputAssumption DEF Adapt, Decisions
    <2>3. target \in Skills /\ Context.target = target
      BY <1>10 DEF Adapt, Context
    <2>4. /\ Validate(d, Context).action \in AdaptationActions
          /\ Validate(d, Context).target \in Skills \cup {NoSkill}
      BY <2>2, <2>3, ValidateType
    <2>5. action' \in AdaptationActions /\ target' \in Skills /\ failures' \in Nat
      BY <2>2, <2>3, <2>4 DEF ApplyDecision
    <2>6. stack' \in Seq(Skills) /\ depth' \in Nat
      <3>1. CASE Return /\ stack # <<>>
        BY <3>1, FrontProperties DEF Return
      <3>2. CASE Redirect
        BY <2>3, <3>2 DEF Redirect
      <3>3. CASE UNCHANGED detour
        BY <3>3
      <3>. QED  BY <2>2, <3>1, <3>2, <3>3 DEF ApplyDecision
    <2>7. pc' \in {"finalize", "plan_action"}
      BY <1>10 DEF Adapt, RouteNext
    <2>. QED  BY <2>1, <2>3, <2>5, <2>6, <2>7, <1>10, SMTT(30) DEF Adapt, Names
  <1>11. CASE Recover
    BY <1>11, InputAssumption DEF Recover, RouteNext, AdaptationActions
  <1>12. CASE Finalize
    <2>1. running' \in BOOLEAN /\ problem' \in BOOLEAN
      BY <1>12 DEF Finalize
    <2>2. recommended' \in Skills \cup {NoSkill}
      BY <1>12 DEF Finalize, NextSkills, Readiest
    <2>3. status' \in {"ACTIVE", "COMPLETED", "HALTED_LIMIT", "HALTED_ERROR"}
      BY <1>12 DEF Finalize
    <2>. QED  BY <2>1, <2>2, <2>3, <1>12 DEF Finalize
  <1>13. CASE Start
    <2>1. running' \in BOOLEAN /\ problem' \in BOOLEAN
      BY <1>13 DEF Start, NoDiagnosis, NoRows, Names
    <2>2. recommended' \in Skills \cup {NoSkill}
      BY <1>13 DEF Start
    <2>. QED  BY <2>1, <2>2, <1>13, InputAssumption, NoRowsType DEF Start, NoDiagnosis, Names
  <1>14. CASE SubmitAnswer
    BY <1>14 DEF SubmitAnswer
  <1>15. CASE Breakdown
    <2>1. running' \in BOOLEAN /\ problem' \in BOOLEAN
      BY <1>15 DEF Breakdown
    <2>. QED  BY <2>1, <1>15, LeaveBehindType DEF Breakdown
  <1>16. CASE Continue
    BY <1>16 DEF Continue
  <1>17. CASE UNCHANGED vars
    BY <1>17
  <1>18. CASE RunOlder
    <2>1. PICK n \in DOMAIN older : OlderStep(n)
      BY <1>18 DEF RunOlder
    <2>2. /\ store' \in [Skills -> SkillNodes] \cup {NoRows}
          /\ store # NoRows => store' # NoRows
      BY <2>1, OlderWrites, OverwriteType, NodeAssumption, NoRowsIsNoStore DEF FirstRows
    <2>3. rows' \in Nat /\ submissions' \in Nat
      BY <2>1, OlderThreads
    <2>4. running' \in BOOLEAN /\ problem' \in BOOLEAN
      BY <1>18 DEF RunOlder
    <2>. QED  BY <1>18, <2>2, <2>3, <2>4 DEF RunOlder
  <1>. QED
    BY <1>1, <1>2, <1>3, <1>4, <1>5, <1>6, <1>7, <1>8, <1>9, <1>10, <1>11, <1>12, <1>13,
       <1>14, <1>15, <1>16, <1>17, <1>18 DEF Next, RunNode

(* Every reachable state is well typed, for every instance.                *)
THEOREM TypeCorrect == Spec => []TypeOK
  BY InitTypeOK, NextTypeOK, PTL DEF Spec

-----------------------------------------------------------------------------
(* The inductive invariants.                                               *)

(* The depth needs no strengthening.  A ceiling is what remains of a       *)
(* strict bound after the one node that may reach it: plan_action poses    *)
(* below the loop limit, only the skill just practised may be at its       *)
(* limit and only in adapt, and too many faults lead to finalize.          *)
CeilingInv ==
    /\ loops <= MAX_LOOPS
    /\ pc \in {"load_student", "diagnose", "plan_action"} => loops < MAX_LOOPS
    /\ \A s \in Skills : topic[s] <= MAX_ATTEMPTS_PER_SKILL
    /\ \A s \in Skills :
          topic[s] = MAX_ATTEMPTS_PER_SKILL =>
              pc \in {"finalize", "end"} \/ (pc = "adapt" /\ s = target)
    /\ errors <= MAX_ERRORS + 1
    /\ errors = MAX_ERRORS + 1 => pc \in {"finalize", "end"}

(* Which rows update_mastery has written, by the call it makes next.       *)
Written == {s \in {target} : call # "save"}
           \cup {s \in Payers : call \in {"log_share", "return"}}

(* Outside update_mastery nothing is computed and mirror and store agree,  *)
(* but for a misconception that a broken-off analysis left in the store;   *)
(* inside, the rows it may move are those of the target and of whoever     *)
(* shares the failure, and those already written hold what was computed.   *)
(* None of this is said of a row that a replaced session has overwritten.  *)
MirrorInv ==
    /\ pc = "idle" => skills = NoRows
    /\ pc # "update_mastery" => moved = NoRows /\ call = "save"
    /\ MirrorAgreesWithStore
    /\ pc = "analyze_misconception" =>
          /\ \A s \in Skills \ foreign : s # target => store[s] = skills[s]
          /\ target \in foreign \/ store[target] \in {skills[target], Misconceived(skills[target])}
    /\ pc = "update_mastery" =>
          /\ DOMAIN moved \subseteq {target} \cup Payers
          /\ Written \subseteq DOMAIN moved
          /\ \A s \in Written \ foreign : store[s] = moved[s]
          /\ \A s \in Skills \ foreign : s \notin {target} \cup Payers => store[s] = skills[s]
          /\ call \in {"save_share", "log_share"} => Payers # {}

(* Between the grade and its update the mirror is one attempt behind the   *)
(* submissions; everything computed or written is at most level with them. *)
EvidenceInv ==
    /\ store = NoRows => \A s \in Skills : seeded[s] = PriorNode.attempts
    /\ store # NoRows => \A s \in Skills : store[s].attempts <= seeded[s] + submissions
    /\ skills # NoRows => \A s \in Skills : skills[s].attempts <= seeded[s] + submissions
    /\ pc \in {"analyze_misconception", "update_mastery"} =>
          /\ outcome \in StudentOutcomes
          /\ \A s \in Skills : skills[s].attempts + 1 <= seeded[s] + submissions
    /\ \A s \in DOMAIN moved : moved[s].attempts <= seeded[s] + submissions

(* The same of every replaced session still running: each submission made  *)
(* room for the one attempt its session may add, whoever writes first.     *)
ThreadEvidence(o, seed, count) ==
    /\ o.pc # "load_student" =>
          \A s \in Skills : o.skills[s].attempts <= seed[s] + count
    /\ o.pc \in {"analyze_misconception", "update_mastery"} =>
          /\ o.outcome \in StudentOutcomes
          /\ \A s \in Skills : o.skills[s].attempts + 1 <= seed[s] + count
    /\ \A s \in DOMAIN o.moved : o.moved[s].attempts <= seed[s] + count

OthersInv == \A n \in DOMAIN older : ThreadEvidence(older[n], seeded, submissions)

-----------------------------------------------------------------------------
(* Bounded remediation.                                                    *)

LEMMA NextDepth == TypeOK /\ DepthMatchesStack /\ [Next]_vars => DepthMatchesStack'
  <1>. SUFFICES ASSUME TypeOK, DepthMatchesStack, [Next]_vars
                PROVE  DepthMatchesStack'
    OBVIOUS
  <1>1. CASE Start
    BY <1>1, LimitsAssumption DEF Start, DepthMatchesStack
  <1>2. CASE Adapt
    <2>1. PICK d : ApplyDecision(Validate(d, Context))
      BY <1>2 DEF Adapt
    <2>2. stack \in Seq(Skills) /\ depth \in Nat /\ target \in Skills
      BY <1>2 DEF TypeOK, Adapt, Run
    <2>3. CASE Return /\ stack # <<>>
      BY <2>2, <2>3, FrontProperties, LimitsAssumption DEF Return, DepthMatchesStack
    <2>4. CASE Redirect /\ Validate(d, Context).action = "REVISIT_PREREQUISITE"
      <3>1. ~(Context.depth >= MAX_PREREQ_DEPTH)
        BY <2>4, RedirectBelowLimit
      <3>2. Context.depth = depth
        BY DEF Context
      <3>. QED  BY <2>2, <2>4, <3>1, <3>2, LimitsAssumption DEF Redirect, DepthMatchesStack
    <2>5. CASE UNCHANGED detour
      BY <2>5 DEF DepthMatchesStack
    <2>. QED  BY <2>1, <2>3, <2>4, <2>5 DEF ApplyDecision
  <1>3. CASE UNCHANGED detour
    BY <1>3 DEF DepthMatchesStack
  <1>. QED
    BY <1>1, <1>2, <1>3
       DEF Next, RunNode, LoadStudent, Diagnose, DiagnoseUnknown, PlanAction, Retrieve,
           GenerateProblem, ExecuteAndGrade, AnalyzeMisconception, AnalyzeNothing, AnalyzeByRule,
           AnalyzeByModel, AnalyzeFallback, UpdateMastery, SaveTarget, LogTarget, SaveShare,
           LogShare, ReturnFromUpdate, Recover, Finalize, SubmitAnswer, Breakdown, Continue, RunOlder

(* Remediation is bounded on every skill graph, whatever a model proposes: *)
(* adapt never nests a detour deeper than MAX_PREREQ_DEPTH, and the depth  *)
(* the guard compares with the limit is the length of the return stack.    *)
THEOREM RemediationBounded == Spec => []DepthMatchesStack
  <1>1. Init => DepthMatchesStack
    BY LimitsAssumption DEF Init, DepthMatchesStack
  <1>. QED  BY <1>1, NextDepth, TypeCorrect, PTL DEF Spec

-----------------------------------------------------------------------------
(* The obligation to return.                                               *)

LEMMA AdaptOwesReturn ==
    ASSUME Adapt, stack # <<>>
    PROVE  action' \notin {"ADVANCE", "ESCALATE_DIFFICULTY"}
  <1>1. PICK d : ApplyDecision(Validate(d, Context))
    BY DEF Adapt
  <1>2. Context.stack = stack
    BY DEF Context
  <1>. QED  BY <1>1, <1>2, NoLeavingDetour DEF ApplyDecision

(* Leaving adapt with a return pending is an Adapt step, or a new session. *)
LEMMA LeavingAdapt ==
    ASSUME [Next]_vars, pc = "adapt", pc' # "adapt"
    PROVE  Adapt \/ Start
  BY DEF Next, RunNode, LoadStudent, Diagnose, DiagnoseUnknown, PlanAction, Retrieve,
         GenerateProblem, ExecuteAndGrade, AnalyzeMisconception, AnalyzeNothing, AnalyzeByRule,
         AnalyzeByModel, AnalyzeFallback, UpdateMastery, SaveTarget, LogTarget, SaveShare,
         LogShare, ReturnFromUpdate, Recover, Finalize, SubmitAnswer, Breakdown, Continue, RunOlder, Run

(* No proposal, and no rule of the policy either, advances or escalates    *)
(* past the skill a detour was entered from (guard.py,                     *)
(* must_return_to_original_objective), on any graph and for any proposal.  *)
THEOREM ReturnIsOwed == Spec => OwedReturn
  <1>1. [Next]_vars =>
            [pc = "adapt" /\ pc' # "adapt" /\ stack # <<>>
                => action' \notin {"ADVANCE", "ESCALATE_DIFFICULTY"}]_vars
    BY AdaptOwesReturn, LeavingAdapt DEF Start
  <1>. QED  BY <1>1, PTL DEF Spec, OwedReturn

-----------------------------------------------------------------------------
(* The ceilings of a session.                                              *)

LEMMA InitCeiling == Init => CeilingInv
  BY LimitsAssumption, InputAssumption DEF Init, CeilingInv

LEMMA ReturnCeiling ==
    ASSUME TypeOK, CeilingInv, ReturnFromUpdate
    PROVE  CeilingInv'
  <1>1. pc = "update_mastery" /\ target \in Skills /\ topic \in [Skills -> Nat]
    BY DEF TypeOK, ReturnFromUpdate, Run
  <1>2. /\ \A s \in Skills : topic[s] <= MAX_ATTEMPTS_PER_SKILL
        /\ \A s \in Skills : topic[s] # MAX_ATTEMPTS_PER_SKILL
    BY <1>1 DEF CeilingInv
  <1>3. \A s \in Skills : topic'[s] = IF s = target THEN topic[s] + 1 ELSE topic[s]
    BY <1>1 DEF ReturnFromUpdate
  <1>4. \A s \in Skills : /\ topic'[s] <= MAX_ATTEMPTS_PER_SKILL
                          /\ s # target => topic'[s] # MAX_ATTEMPTS_PER_SKILL
    BY <1>1, <1>2, <1>3, LimitsAssumption
  <1>. QED  BY <1>1, <1>4 DEF ReturnFromUpdate, CeilingInv

(* Leaving adapt for another exercise, no limit is reached: at a limit the *)
(* guard lets nothing but COMPLETE through, and that leads to finalize.    *)
LEMMA AdaptCeiling == TypeOK /\ CeilingInv /\ Adapt => CeilingInv'
  <1>. SUFFICES ASSUME TypeOK, CeilingInv, Adapt
                PROVE  CeilingInv'
    OBVIOUS
  <1>1. PICK d : ApplyDecision(Validate(d, Context))
    BY DEF Adapt
  <1>2. /\ pc = "adapt" /\ pc' \in {"finalize", "plan_action"}
        /\ target \in Skills /\ topic \in [Skills -> Nat] /\ loops \in Nat /\ errors \in Nat
        /\ UNCHANGED <<loops, topic, errors>>
    BY DEF Adapt, Run, GoTo, RouteNext, TypeOK
  <1>3. CASE pc' = "finalize"
    BY <1>2, <1>3 DEF CeilingInv
  <1>4. CASE pc' = "plan_action"
    <2>1. action' # "COMPLETE" /\ ~(loops >= MAX_LOOPS)
      BY <1>4 DEF Adapt, GoTo, RouteNext
    <2>2. ~LimitsBreached(Context)
      BY <1>1, <2>1, LimitsComplete DEF ApplyDecision
    <2>3. ~(topic[target] >= MAX_ATTEMPTS_PER_SKILL)
      BY <2>2 DEF LimitsBreached, Context
    <2>. QED  BY <1>2, <1>4, <2>1, <2>3, LimitsAssumption DEF CeilingInv
  <1>. QED  BY <1>2, <1>3, <1>4

LEMMA NextCeiling == TypeOK /\ CeilingInv /\ [Next]_vars => CeilingInv'
  <1>. SUFFICES ASSUME TypeOK, CeilingInv, [Next]_vars
                PROVE  CeilingInv'
    OBVIOUS
  <1>. USE LimitsAssumption, InputAssumption DEF CeilingInv, Run, GoTo
  <1>1. CASE LoadStudent
    BY <1>1 DEF LoadStudent
  <1>2. CASE Diagnose \/ DiagnoseUnknown
    BY <1>2 DEF Diagnose, DiagnoseUnknown
  <1>3. CASE PlanAction
    <2>1. loops \in Nat /\ loops < MAX_LOOPS /\ loops' = loops + 1 /\ UNCHANGED <<topic, errors>>
      BY <1>3 DEF PlanAction, TypeOK
    <2>2. pc = "plan_action" /\ pc' \in {"retrieve", "generate_problem"}
      BY <1>3 DEF PlanAction
    <2>. QED  BY <2>1, <2>2
  <1>4. CASE Retrieve \/ GenerateProblem \/ SubmitAnswer
    BY <1>4 DEF Retrieve, GenerateProblem, Suspend, SubmitAnswer
  <1>5. CASE ExecuteAndGrade
    BY <1>5 DEF ExecuteAndGrade, RouteEvidence
  <1>6. CASE AnalyzeMisconception
    BY <1>6 DEF AnalyzeMisconception, AnalyzeNothing, AnalyzeByRule, AnalyzeByModel, AnalyzeFallback
  <1>7. CASE UpdateMastery
    <2>1. CASE ReturnFromUpdate
      BY <2>1, ReturnCeiling
    <2>2. CASE pc' = pc /\ UNCHANGED <<target, counters>>
      BY <2>2
    <2>. QED  BY <1>7, <2>1, <2>2 DEF UpdateMastery, SaveTarget, LogTarget, SaveShare, LogShare
  <1>8. CASE Adapt
    BY <1>8, AdaptCeiling
  <1>9. CASE Recover
    <2>1. loops \in Nat /\ errors \in Nat /\ errors # MAX_ERRORS + 1 /\ errors' = errors + 1
      BY <1>9 DEF Recover, TypeOK
    <2>2. errors' <= MAX_ERRORS + 1 /\ loops' = loops /\ topic' = topic
      BY <1>9, <2>1 DEF Recover
    <2>3. \A s \in Skills : topic[s] # MAX_ATTEMPTS_PER_SKILL
      BY <1>9 DEF Recover
    <2>4. pc' = "finalize" \/ (pc' = "plan_action" /\ loops < MAX_LOOPS /\ errors' <= MAX_ERRORS)
      BY <1>9, <2>1 DEF Recover, RouteNext
    <2>. QED  BY <2>1, <2>2, <2>3, <2>4
  <1>10. CASE Finalize
    BY <1>10 DEF Finalize
  <1>11. CASE Start
    BY <1>11 DEF Start
  <1>12. CASE Breakdown \/ Continue
    BY <1>12 DEF Breakdown, Continue
  <1>13. CASE UNCHANGED vars \/ RunOlder
    BY <1>13 DEF RunOlder
  <1>. QED
    BY <1>1, <1>2, <1>3, <1>4, <1>5, <1>6, <1>7, <1>8, <1>9, <1>10, <1>11, <1>12, <1>13
       DEF Next, RunNode

(* The ceilings hold for every limit, every graph and every model: however *)
(* often nodes are run again, a session stops at MAX_LOOPS exercises, at   *)
(* MAX_ATTEMPTS_PER_SKILL on one skill and at the fault after MAX_ERRORS.  *)
THEOREM CeilingsHold == Spec => []SessionCeilings
  <1>1. CeilingInv => SessionCeilings
    BY DEF CeilingInv, SessionCeilings
  <1>. QED  BY <1>1, InitCeiling, NextCeiling, TypeCorrect, PTL DEF Spec

-----------------------------------------------------------------------------
(* The mirror and the store.                                               *)

LEMMA InitMirror == Init => MirrorInv
  BY DEF Init, MirrorInv, MirrorAgreesWithStore

(* When update_mastery returns every row it moved has been written, so the *)
(* patched mirror is the store, but for foreign rows.                      *)
LEMMA ReturnMirror ==
    ASSUME TypeOK, MirrorInv, ReturnFromUpdate
    PROVE  MirrorInv'
  <1>1. /\ target \in Skills
        /\ skills' = [s \in Skills |-> IF s \in DOMAIN moved THEN moved[s] ELSE skills[s]]
        /\ pc = "update_mastery" /\ call = "return" /\ UNCHANGED <<store, foreign>>
        /\ pc' = "adapt" /\ call' = "save" /\ moved' = NoRows
    BY DEF TypeOK, ReturnFromUpdate, Patched, Run
  <1>2. Written = {target} \cup Payers
    BY <1>1 DEF Written
  <1>3. DOMAIN moved = {target} \cup Payers
    BY <1>1, <1>2 DEF MirrorInv
  <1>4. \A s \in Skills \ foreign :
            store[s] = IF s \in DOMAIN moved THEN moved[s] ELSE skills[s]
    BY <1>1, <1>2, <1>3 DEF MirrorInv
  <1>5. \A s \in Skills \ foreign' : store'[s] = skills'[s]
    BY <1>1, <1>4
  <1>. QED  BY <1>1, <1>5 DEF MirrorInv, MirrorAgreesWithStore

LEMMA UpdateMirror == TypeOK /\ MirrorInv /\ UpdateMastery => MirrorInv'
  <1>. SUFFICES ASSUME TypeOK, MirrorInv, UpdateMastery
                PROVE  MirrorInv'
    OBVIOUS
  <1>0. /\ pc = "update_mastery" /\ target \in Skills
        /\ store \in [Skills -> SkillNodes] /\ skills \in [Skills -> SkillNodes]
    BY DEF UpdateMastery, SaveTarget, LogTarget, SaveShare, LogShare, ReturnFromUpdate, Run, TypeOK
  <1>1. CASE SaveTarget
    <2>. DEFINE C == {Resolved(n) : n \in Observed(skills[target], outcome)}
    <2>1. C \subseteq SkillNodes
      BY <1>0, ObservedType
    <2>2. SaveSkill(target, C)
      BY <1>1 DEF SaveTarget
    <2>. HIDE DEF C
    <2>3. /\ DOMAIN moved' = DOMAIN moved \cup {target}
          /\ store'[target] = moved'[target]
          /\ \A x \in Skills \ {target} : store'[x] = store[x]
          /\ foreign' = foreign \ {target}
      BY <1>0, <2>1, <2>2, SaveSkillType
    <2>4. pc' = pc /\ call' = "log" /\ UNCHANGED <<target, outcome, hint, skills>>
      BY <1>1 DEF SaveTarget
    <2>5. Payers' = Payers /\ Written' = {target}
      BY <2>4 DEF Payers, Written
    <2>. QED  BY <1>0, <2>3, <2>4, <2>5 DEF MirrorInv, MirrorAgreesWithStore
  <1>2. CASE LogTarget
    <2>1. /\ pc' = pc /\ call = "log" /\ UNCHANGED <<target, outcome, hint, skills, store, moved, foreign>>
          /\ call' = IF Payers = {} THEN "return" ELSE "save_share"
      BY <1>2 DEF LogTarget
    <2>2. Payers' = Payers /\ Written' = {target} /\ Written = {target}
      BY <2>1 DEF Payers, Written
    <2>. QED  BY <1>0, <2>1, <2>2 DEF MirrorInv, MirrorAgreesWithStore
  <1>3. CASE SaveShare
    <2>1. PICK p \in Payers : SaveSkill(p, Observed(skills[p], outcome))
      BY <1>3 DEF SaveShare
    <2>2. p \in Skills /\ Payers = {p} /\ p # target
      <3>1. p \in Prereqs[target] /\ Payers \subseteq {hint}
        BY <2>1 DEF Payers, SharedWith
      <3>2. p \in Skills /\ Rank[p] < Rank[target] /\ Rank[p] \in Nat
        BY <1>0, <3>1, GraphAssumption
      <3>. QED  BY <2>1, <3>1, <3>2
    <2>3. Observed(skills[p], outcome) \subseteq SkillNodes
      BY <1>0, <2>2, ObservedType
    <2>4. /\ DOMAIN moved' = DOMAIN moved \cup {p}
          /\ store'[p] = moved'[p]
          /\ \A x \in DOMAIN moved : moved'[x] = moved[x]
          /\ \A x \in Skills \ {p} : store'[x] = store[x]
          /\ foreign' = foreign \ {p}
      BY <1>0, <2>1, <2>2, <2>3, SaveSkillType
    <2>5. pc' = pc /\ call' = "log_share" /\ UNCHANGED <<target, outcome, hint, skills>>
      BY <1>3 DEF SaveShare
    <2>6. Payers' = Payers /\ Written = {target} /\ Written' = {target, p}
      BY <1>3, <2>2, <2>5 DEF SaveShare, Payers, Written
    <2>. QED  BY <1>0, <2>2, <2>4, <2>5, <2>6 DEF MirrorInv, MirrorAgreesWithStore
  <1>4. CASE LogShare
    <2>1. /\ pc' = pc /\ call = "log_share" /\ call' = "return"
          /\ UNCHANGED <<target, outcome, hint, skills, store, moved, foreign>>
      BY <1>4 DEF LogShare
    <2>2. Payers' = Payers /\ Written' = Written
      BY <2>1 DEF Payers, Written
    <2>. QED  BY <1>0, <2>1, <2>2 DEF MirrorInv, MirrorAgreesWithStore
  <1>5. CASE ReturnFromUpdate
    BY <1>5, ReturnMirror
  <1>. QED  BY <1>1, <1>2, <1>3, <1>4, <1>5 DEF UpdateMastery

(* A row a replaced session writes becomes foreign; nothing else changes.  *)
LEMMA OlderMirror == TypeOK /\ MirrorInv /\ RunOlder => MirrorInv'
  <1>. SUFFICES ASSUME TypeOK, MirrorInv, RunOlder
                PROVE  MirrorInv'
    OBVIOUS
  <1>1. /\ UNCHANGED <<pc, call, target, outcome, hint, skills, moved>>
        /\ Payers' = Payers /\ Written' = Written
    BY DEF RunOlder, Payers, Written
  <1>2. PICK n \in DOMAIN older : OlderStep(n)
    BY DEF RunOlder
  <1>3. CASE UNCHANGED <<store, foreign>>
    BY <1>1, <1>3 DEF MirrorInv, MirrorAgreesWithStore
  <1>4. CASE store = NoRows /\ store' = FirstRows /\ UNCHANGED foreign
    <2>1. pc \in {"idle", "load_student"}
      BY <1>4 DEF TypeOK
    <2>. QED  BY <1>1, <1>4, <2>1 DEF MirrorInv, MirrorAgreesWithStore
  <1>5. ASSUME NEW s \in Skills, NEW node \in SkillNodes, Overwrite(s, node),
               store \in [Skills -> SkillNodes]
        PROVE  MirrorInv'
    <2>1. /\ foreign' = foreign \cup {s}
          /\ \A x \in Skills \ foreign' : x \notin foreign /\ store'[x] = store[x]
      BY <1>5, OverwriteType
    <2>2. pc \in {"analyze_misconception", "update_mastery"} => target \in Skills
      BY DEF TypeOK
    <2>3. Written \subseteq Skills \/ pc # "update_mastery"
      BY <2>2, GraphAssumption DEF Written, Payers, SharedWith
    <2>. QED  BY <1>1, <2>1, <2>2, <2>3 DEF MirrorInv, MirrorAgreesWithStore
  <1>. QED  BY <1>2, <1>3, <1>4, <1>5, OlderWrites

LEMMA NextMirror == TypeOK /\ MirrorInv /\ [Next]_vars => MirrorInv'
  <1>. SUFFICES ASSUME TypeOK, MirrorInv, [Next]_vars
                PROVE  MirrorInv'
    OBVIOUS
  <1>. USE DEF MirrorInv, MirrorAgreesWithStore, Run, GoTo
  <1>1. CASE LoadStudent
    BY <1>1 DEF LoadStudent
  <1>2. CASE Diagnose \/ DiagnoseUnknown
    BY <1>2 DEF Diagnose, DiagnoseUnknown
  <1>3. CASE PlanAction
    <2>1. /\ pc = "plan_action" /\ pc' \in {"retrieve", "generate_problem"}
          /\ UNCHANGED <<call, skills, store, moved, foreign>>
      BY <1>3 DEF PlanAction
    <2>. QED  BY <2>1
  <1>4. CASE Retrieve \/ GenerateProblem \/ SubmitAnswer
    BY <1>4 DEF Retrieve, GenerateProblem, Suspend, SubmitAnswer
  <1>5. CASE ExecuteAndGrade
    <2>1. /\ pc = "execute_and_grade" /\ pc' \in {"analyze_misconception", "recover"}
          /\ UNCHANGED <<call, skills, store, moved, target, foreign>>
      BY <1>5 DEF ExecuteAndGrade, RouteEvidence
    <2>2. skills # NoRows /\ target \in Skills
      BY <2>1 DEF TypeOK
    <2>3. \A s \in Skills \ foreign : store[s] = skills[s]
      BY <2>1, <2>2
    <2>4. moved = NoRows /\ call = "save"
      BY <2>1
    <2>. QED  BY <2>1, <2>2, <2>3, <2>4
  <1>6. CASE AnalyzeMisconception
    <2>1. /\ pc = "analyze_misconception" /\ pc' = "update_mastery"
          /\ UNCHANGED <<call, moved, target, foreign>>
          /\ RecordMisconception \/ UNCHANGED <<store, skills>>
      BY <1>6 DEF AnalyzeMisconception, AnalyzeNothing, AnalyzeByRule, AnalyzeByModel, AnalyzeFallback
    <2>2. moved = NoRows /\ call = "save" /\ DOMAIN NoRows = {}
      BY <2>1 DEF NoRows
    <2>3. \A s \in Skills \ foreign : s # target => store'[s] = skills'[s]
      BY <2>1, RecordType
    <2>4. Written' = {}
      BY <2>1, <2>2 DEF Written
    <2>. QED  BY <2>1, <2>2, <2>3, <2>4
  <1>7. CASE UpdateMastery
    BY <1>7, UpdateMirror
  <1>8. CASE Adapt \/ Recover
    BY <1>8 DEF Adapt, Recover, RouteNext
  <1>9. CASE Finalize
    BY <1>9 DEF Finalize
  <1>10. CASE Start
    BY <1>10 DEF Start
  <1>11. CASE Breakdown
    <2>1. /\ UNCHANGED <<pc, target, outcome, hint, skills, moved, foreign>> /\ call' = "save"
          /\ LeaveBehind
      BY <1>11 DEF Breakdown
    <2>2. Payers' = Payers /\ Written' = {}
      BY <2>1 DEF Payers, Written
    <2>3. CASE pc = "analyze_misconception"
      <3>1. store \in [Skills -> SkillNodes] /\ target \in Skills
        BY <2>3 DEF TypeOK
      <3>2. \/ store' = store
            \/ store' = [store EXCEPT ![target] = Misconceived(skills[target])]
        BY <2>1, <2>3 DEF LeaveBehind
      <3>. QED  BY <2>1, <2>2, <2>3, <3>1, <3>2
    <2>4. CASE pc # "analyze_misconception" /\ pc # "load_student"
      BY <2>1, <2>2, <2>4 DEF LeaveBehind
    <2>5. CASE pc = "load_student"
      BY <2>1, <2>2, <2>5
    <2>. QED  BY <2>3, <2>4, <2>5
  <1>12. CASE Continue
    BY <1>12 DEF Continue, Written, Payers
  <1>13. CASE UNCHANGED vars
    BY <1>13 DEF Written, Payers
  <1>14. CASE RunOlder
    BY <1>14, OlderMirror
  <1>. QED
    BY <1>1, <1>2, <1>3, <1>4, <1>5, <1>6, <1>7, <1>8, <1>9, <1>10, <1>11, <1>12, <1>13, <1>14
       DEF Next, RunNode

(* Whatever is broken off, continued or started anew, the records that     *)
(* decisions are made from are the durable ones once update_mastery is     *)
(* through, but for the rows that a replaced session, still running, has   *)
(* written since.                                                          *)
THEOREM MirrorFaithful == Spec => []MirrorAgreesWithStore
  <1>1. MirrorInv => MirrorAgreesWithStore
    BY DEF MirrorInv
  <1>. QED  BY <1>1, InitMirror, NextMirror, TypeCorrect, PTL DEF Spec

-----------------------------------------------------------------------------
(* One submission, one observation.                                        *)

LEMMA InitEvidence == Init => EvidenceInv
  <1>. SUFFICES ASSUME Init
                PROVE  EvidenceInv
    OBVIOUS
  <1>1. store \in [Skills -> SkillNodes] \cup {NoRows} /\ PriorNode.attempts \in Nat
    BY NodeAssumption DEF Init, SkillNodes
  <1>2. store # NoRows => \A s \in Skills : store[s].attempts \in Nat
    BY <1>1 DEF SkillNodes
  <1>3. DOMAIN NoRows = {}
    BY DEF NoRows
  <1>. QED  BY <1>1, <1>2, <1>3 DEF Init, EvidenceInv

(* A row update_mastery computes is one attempt past the mirror's.         *)
LEMMA SaveEvidence ==
    ASSUME TypeOK, EvidenceInv, pc = "update_mastery", pc' = pc, NEW s \in Skills,
           NEW candidates \in SUBSET SkillNodes, SaveSkill(s, candidates),
           \A n \in candidates : n.attempts = skills[s].attempts + 1,
           UNCHANGED <<outcome, skills, seeded, submissions>>
    PROVE  EvidenceInv'
  <1>1. store \in [Skills -> SkillNodes] /\ skills \in [Skills -> SkillNodes]
    BY DEF TypeOK
  <1>2. /\ store' \in [Skills -> SkillNodes]
        /\ DOMAIN moved' = DOMAIN moved \cup {s}
        /\ \A x \in DOMAIN moved : moved'[x] = moved[x]
        /\ store'[s] = moved'[s]
        /\ \A x \in Skills \ {s} : store'[x] = store[x]
        /\ s \notin DOMAIN moved => moved'[s] \in candidates
    BY <1>1, SaveSkillType
  <1>3. store # NoRows /\ store' # NoRows /\ skills # NoRows
    BY <1>1, <1>2, NoRowsIsNoStore
  <1>4. \A x \in DOMAIN moved' : moved'[x].attempts <= seeded[x] + submissions
    BY <1>2 DEF EvidenceInv
  <1>5. \A x \in Skills : store'[x].attempts <= seeded[x] + submissions
    BY <1>2, <1>3, <1>4 DEF EvidenceInv
  <1>. QED  BY <1>2, <1>3, <1>4, <1>5 DEF EvidenceInv

LEMMA ReturnEvidence ==
    ASSUME TypeOK, EvidenceInv, ReturnFromUpdate
    PROVE  EvidenceInv'
  <1>1. store # NoRows /\ skills # NoRows /\ UNCHANGED <<store, seeded, submissions>>
    BY DEF TypeOK, ReturnFromUpdate, Run
  <1>2. /\ skills' = [s \in Skills |-> IF s \in DOMAIN moved THEN moved[s] ELSE skills[s]]
        /\ pc' = "adapt" /\ moved' = NoRows /\ DOMAIN moved' = {}
    BY DEF ReturnFromUpdate, Patched, NoRows
  <1>3. \A s \in Skills : skills'[s].attempts <= seeded[s] + submissions
    BY <1>1, <1>2 DEF EvidenceInv
  <1>. QED  BY <1>1, <1>2, <1>3 DEF EvidenceInv

LEMMA UpdateEvidence == TypeOK /\ EvidenceInv /\ UpdateMastery => EvidenceInv'
  <1>. SUFFICES ASSUME TypeOK, EvidenceInv, UpdateMastery
                PROVE  EvidenceInv'
    OBVIOUS
  <1>0. /\ pc = "update_mastery" /\ target \in Skills /\ skills \in [Skills -> SkillNodes]
        /\ UNCHANGED <<outcome, seeded, submissions>>
    BY DEF UpdateMastery, SaveTarget, LogTarget, SaveShare, LogShare, ReturnFromUpdate, Run, TypeOK
  <1>1. CASE SaveTarget
    <2>. DEFINE C == {Resolved(n) : n \in Observed(skills[target], outcome)}
    <2>1. C \subseteq SkillNodes /\ \A n \in C : n.attempts = skills[target].attempts + 1
      BY <1>0, ObservedType
    <2>2. SaveSkill(target, C) /\ pc' = pc /\ UNCHANGED skills
      BY <1>1 DEF SaveTarget
    <2>. HIDE DEF C
    <2>. QED  BY <1>0, <2>1, <2>2, SaveEvidence
  <1>2. CASE LogTarget \/ LogShare
    BY <1>0, <1>2 DEF LogTarget, LogShare, EvidenceInv
  <1>3. CASE SaveShare
    <2>1. PICK p \in Payers : SaveSkill(p, Observed(skills[p], outcome))
      BY <1>3 DEF SaveShare
    <2>2. p \in Skills
      BY <1>0, <2>1, GraphAssumption DEF Payers, SharedWith
    <2>3. /\ Observed(skills[p], outcome) \subseteq SkillNodes
          /\ \A n \in Observed(skills[p], outcome) : n.attempts = skills[p].attempts + 1
      BY <1>0, <2>2, ObservedType
    <2>. QED  BY <1>0, <1>3, <2>1, <2>2, <2>3, SaveEvidence DEF SaveShare
  <1>4. CASE ReturnFromUpdate
    BY <1>4, ReturnEvidence
  <1>. QED  BY <1>1, <1>2, <1>3, <1>4 DEF UpdateMastery

(* What a replaced session writes is within what was submitted.            *)
LEMMA OlderEvidence == TypeOK /\ EvidenceInv /\ OthersInv /\ RunOlder => EvidenceInv'
  <1>. SUFFICES ASSUME TypeOK, EvidenceInv, OthersInv, RunOlder
                PROVE  EvidenceInv'
    OBVIOUS
  <1>1. /\ UNCHANGED <<pc, outcome, skills, moved, seeded>>
        /\ submissions \in Nat /\ seeded \in [Skills -> Nat]
        /\ PriorNode \in SkillNodes /\ PriorNode.attempts \in Nat
    BY NodeAssumption DEF RunOlder, TypeOK, SkillNodes
  <1>2. PICK n \in DOMAIN older : OlderStep(n)
    BY DEF RunOlder
  <1>3. submissions' \in {submissions, submissions + 1}
    BY <1>2, OlderThreads
  <1>4. /\ skills # NoRows => \A s \in Skills : skills[s].attempts \in Nat
        /\ store # NoRows => \A s \in Skills : store[s].attempts \in Nat
        /\ \A s \in DOMAIN moved : s \in Skills /\ moved[s].attempts \in Nat
    BY SomeRowsType, TypeOthers DEF TypeOK, SkillNodes
  <1>5. pc \in {"analyze_misconception", "update_mastery"} => skills # NoRows
    BY DEF TypeOK
  <1>6. /\ skills # NoRows => \A s \in Skills : skills[s].attempts <= seeded[s] + submissions'
        /\ pc \in {"analyze_misconception", "update_mastery"} =>
              /\ outcome \in StudentOutcomes
              /\ \A s \in Skills : skills[s].attempts + 1 <= seeded[s] + submissions'
        /\ \A s \in DOMAIN moved : moved[s].attempts <= seeded[s] + submissions'
    BY <1>1, <1>3, <1>4, <1>5 DEF EvidenceInv
  <1>7. store # NoRows => \A s \in Skills : store[s].attempts <= seeded[s] + submissions'
    BY <1>1, <1>3, <1>4 DEF EvidenceInv
  <1>8. CASE store' = store
    BY <1>1, <1>6, <1>7, <1>8 DEF EvidenceInv
  <1>9. CASE store = NoRows /\ store' = FirstRows
    <2>1. store' # NoRows /\ \A s \in Skills : store'[s].attempts <= seeded[s] + submissions'
      BY <1>1, <1>3, <1>9, NoRowsIsNoStore DEF FirstRows, EvidenceInv
    <2>. QED  BY <1>1, <1>6, <2>1 DEF EvidenceInv
  <1>10. ASSUME NEW s \in Skills, NEW node \in SkillNodes, Overwrite(s, node),
                MayWrite(older[n], s, node), store \in [Skills -> SkillNodes]
         PROVE  EvidenceInv'
    <2>1. /\ store' \in [Skills -> SkillNodes] /\ store'[s] = node
          /\ \A x \in Skills \ {s} : store'[x] = store[x]
      BY <1>10, OverwriteType
    <2>2. store # NoRows /\ store' # NoRows
      BY <1>10, <2>1, NoRowsIsNoStore
    <2>3. ThreadEvidence(older[n], seeded, submissions)
      BY <1>2 DEF OthersInv
    <2>4. older[n].pc \in {"analyze_misconception", "update_mastery"}
      BY <1>10 DEF MayWrite
    <2>5. older[n].skills[s].attempts \in Nat /\ node.attempts \in Nat
      BY <1>2, <1>10, <2>4, OlderKnows DEF SkillNodes
    <2>6. node.attempts <= seeded[s] + submissions
      BY <1>1, <1>10, <2>3, <2>4, <2>5 DEF MayWrite, ThreadEvidence
    <2>7. \A x \in Skills : store'[x].attempts <= seeded[x] + submissions'
      BY <1>1, <1>3, <1>7, <2>1, <2>2, <2>5, <2>6
    <2>. QED  BY <1>1, <1>6, <2>2, <2>7 DEF EvidenceInv
  <1>. QED  BY <1>2, <1>8, <1>9, <1>10, OlderWrites

(* More submissions leave more room.                                       *)
LEMMA MoreRoom ==
    ASSUME NEW o \in Threads, NEW seed \in [Skills -> Nat], NEW count \in Nat,
           NEW more \in {count, count + 1},
           o.pc # "load_student" => o.skills \in [Skills -> SkillNodes],
           ThreadEvidence(o, seed, count)
    PROVE  ThreadEvidence(o, seed, more)
  <1>1. o.moved \in SomeRows
    BY DEF Threads
  <1>2. \A s \in DOMAIN o.moved : s \in Skills /\ o.moved[s].attempts \in Nat
    BY <1>1, SomeRowsType DEF SkillNodes
  <1>3. o.pc # "load_student" => \A s \in Skills : o.skills[s].attempts \in Nat
    BY DEF SkillNodes
  <1>. QED  BY <1>2, <1>3 DEF ThreadEvidence

LEMMA NextOthers == TypeOK /\ EvidenceInv /\ OthersInv /\ [Next]_vars => OthersInv'
  <1>. SUFFICES ASSUME TypeOK, EvidenceInv, OthersInv, [Next]_vars
                PROVE  OthersInv'
    OBVIOUS
  <1>0. /\ submissions \in Nat /\ seeded \in [Skills -> Nat]
        /\ older \in [DOMAIN older -> Threads]
    BY TypeOthers DEF TypeOK, OthersTyped
  <1>1. ASSUME UNCHANGED <<older, seeded>>, submissions' \in {submissions, submissions + 1}
        PROVE  OthersInv'
    <2>. SUFFICES ASSUME NEW n \in DOMAIN older
                  PROVE  ThreadEvidence(older[n], seeded, submissions')
      BY <1>1 DEF OthersInv
    <2>1. older[n] \in Threads /\ ThreadEvidence(older[n], seeded, submissions)
      BY <1>0 DEF OthersInv
    <2>2. older[n].pc # "load_student" => older[n].skills \in [Skills -> SkillNodes]
      BY OlderKnows
    <2>. QED  BY <1>0, <1>1, <2>1, <2>2, MoreRoom
  <1>2. CASE Start
    <2>1. CASE UNCHANGED older
      BY <1>1, <1>2, <2>1 DEF Start
    <2>2. CASE running /\ pc \in StoreNodes
      <3>1. pc # "load_student" => skills # NoRows
        BY <2>2 DEF TypeOK, StoreNodes
      <3>2. ThreadEvidence(Present, seeded, submissions)
        BY <3>1 DEF Present, ThreadEvidence, EvidenceInv
      <3>3. /\ older' = [n \in DOMAIN older \cup {starts} |->
                           IF n = starts THEN Present ELSE older[n]]
            /\ UNCHANGED <<seeded, submissions>>
        BY <1>2, <2>2 DEF Start, LeaveRunning
      <3>. HIDE DEF Present
      <3>. QED  BY <3>2, <3>3 DEF OthersInv
    <2>. QED  BY <1>2, <2>1, <2>2 DEF Start, LeaveRunning
  <1>3. CASE RunOlder
    <2>1. PICK n \in DOMAIN older : OlderStep(n)
      BY <1>3 DEF RunOlder
    <2>2. /\ seeded' = seeded /\ submissions' \in {submissions, submissions + 1}
          /\ DOMAIN older' \subseteq DOMAIN older
      BY <1>3, <2>1, OlderThreads DEF RunOlder
    <2>. SUFFICES ASSUME NEW m \in DOMAIN older'
                  PROVE  ThreadEvidence(older'[m], seeded, submissions')
      BY <2>2 DEF OthersInv
    <2>3. m \in DOMAIN older /\ older[m] \in Threads /\ ThreadEvidence(older[m], seeded, submissions)
      BY <1>0, <2>2 DEF OthersInv
    <2>4. older[m].pc # "load_student" => older[m].skills \in [Skills -> SkillNodes]
      BY <2>3, OlderKnows
    <2>5. ThreadEvidence(older[m], seeded, submissions')
      BY <1>0, <2>2, <2>3, <2>4, MoreRoom
    <2>6. CASE m # n
      BY <2>1, <2>3, <2>5, <2>6, OlderThreads
    <2>7. CASE m = n
      <3>. DEFINE o == older[n]
                  p == older'[n]
      <3>1. /\ o.pc # "load_student" /\ p.moved = o.moved
            /\ \A s \in Skills : p.skills[s].attempts = o.skills[s].attempts
            /\ \/ p.outcome \in StudentOutcomes /\ submissions' = submissions + 1
               \/ /\ p.outcome = o.outcome
                  /\ o.pc \in {"analyze_misconception", "update_mastery"}
                  /\ submissions' = submissions
        BY <2>1, <2>7, OlderThreads
      <3>2. /\ \A s \in Skills : o.skills[s].attempts \in Nat
            /\ \A s \in Skills : seeded[s] \in Nat
        BY <1>0, <2>4, <2>7, <3>1 DEF SkillNodes
      <3>3. \A s \in Skills : o.skills[s].attempts <= seeded[s] + submissions
        BY <2>3, <2>7, <3>1 DEF ThreadEvidence
      <3>4. \A s \in DOMAIN o.moved : o.moved[s].attempts <= seeded[s] + submissions'
        BY <2>5, <2>7 DEF ThreadEvidence
      <3>5. /\ p.outcome \in StudentOutcomes
            /\ \A s \in Skills : o.skills[s].attempts + 1 <= seeded[s] + submissions'
        BY <1>0, <2>3, <2>7, <3>1, <3>2, <3>3 DEF ThreadEvidence
      <3>6. \A s \in Skills : o.skills[s].attempts <= seeded[s] + submissions'
        BY <2>5, <2>7, <3>1 DEF ThreadEvidence
      <3>. HIDE DEF o, p
      <3>7. ThreadEvidence(p, seeded, submissions')
        BY <3>1, <3>4, <3>5, <3>6 DEF ThreadEvidence
      <3>. QED  BY <2>7, <3>7 DEF p
    <2>. QED  BY <2>6, <2>7
  <1>4. CASE ExecuteAndGrade
    BY <1>1, <1>4 DEF ExecuteAndGrade
  <1>5. CASE UNCHANGED <<older, seeded, submissions>>
    BY <1>1, <1>5
  <1>. QED
    BY <1>2, <1>3, <1>4, <1>5
       DEF Next, RunNode, LoadStudent, Diagnose, DiagnoseUnknown, PlanAction, Retrieve,
           GenerateProblem, AnalyzeMisconception, AnalyzeNothing, AnalyzeByRule, AnalyzeByModel,
           AnalyzeFallback, UpdateMastery, SaveTarget, LogTarget, SaveShare, LogShare,
           ReturnFromUpdate, Adapt, Recover, Finalize, SubmitAnswer, Breakdown, Continue

LEMMA NextEvidence == TypeOK /\ EvidenceInv /\ OthersInv /\ [Next]_vars => EvidenceInv'
  <1>. SUFFICES ASSUME TypeOK, EvidenceInv, OthersInv, [Next]_vars
                PROVE  EvidenceInv'
    OBVIOUS
  <1>. USE DEF EvidenceInv, Run, GoTo
  <1>1. CASE LoadStudent
    <2>1. /\ PriorNode \in SkillNodes /\ PriorNode.attempts \in Nat /\ submissions \in Nat
          /\ seeded \in [Skills -> Nat] /\ seeded' = seeded /\ submissions' = submissions
      BY <1>1, NodeAssumption DEF LoadStudent, TypeOK, SkillNodes
    <2>2. store' # NoRows /\ \A s \in Skills : store'[s].attempts <= seeded[s] + submissions
      BY <1>1, <2>1, NoRowsIsNoStore DEF LoadStudent, FirstRows
    <2>. QED  BY <1>1, <2>1, <2>2 DEF LoadStudent
  <1>2. CASE Diagnose \/ DiagnoseUnknown
    BY <1>2 DEF Diagnose, DiagnoseUnknown
  <1>3. CASE PlanAction
    <2>1. /\ pc' \in {"retrieve", "generate_problem"}
          /\ UNCHANGED <<skills, store, moved, seeded, submissions>>
      BY <1>3 DEF PlanAction
    <2>. QED  BY <2>1
  <1>4. CASE Retrieve \/ GenerateProblem \/ SubmitAnswer
    BY <1>4 DEF Retrieve, GenerateProblem, Suspend, SubmitAnswer
  <1>5. CASE ExecuteAndGrade
    <2>1. skills \in [Skills -> SkillNodes] /\ skills # NoRows /\ store # NoRows
      BY <1>5 DEF ExecuteAndGrade, TypeOK
    <2>2. /\ UNCHANGED <<skills, store, moved, seeded>>
          /\ submissions \in Nat /\ seeded \in [Skills -> Nat]
          /\ \/ outcome' \in StudentOutcomes /\ submissions' = submissions + 1
             \/ outcome' \notin StudentOutcomes /\ pc' = "recover" /\ submissions' = submissions
      BY <1>5 DEF ExecuteAndGrade, TypeOK, RouteEvidence
    <2>3. /\ \A s \in Skills : skills[s].attempts \in Nat
          /\ \A s \in Skills : store[s].attempts \in Nat
      BY <1>5, <2>1 DEF ExecuteAndGrade, TypeOK, SkillNodes
    <2>4. \A s \in DOMAIN moved : s \in Skills /\ moved[s].attempts \in Nat
      BY SomeRowsType, TypeOthers DEF TypeOK, SkillNodes
    <2>5. CASE outcome' \in StudentOutcomes /\ submissions' = submissions + 1
      <3>1. \A s \in Skills : seeded[s] \in Nat
        BY <2>2
      <3>2. /\ \A s \in Skills : skills[s].attempts + 1 <= seeded[s] + submissions'
            /\ \A s \in Skills : skills[s].attempts <= seeded[s] + submissions'
            /\ \A s \in Skills : store[s].attempts <= seeded[s] + submissions'
            /\ \A s \in DOMAIN moved : moved[s].attempts <= seeded[s] + submissions'
        BY <2>1, <2>2, <2>3, <2>4, <2>5, <3>1
      <3>. QED  BY <2>1, <2>2, <2>5, <3>2
    <2>6. CASE pc' = "recover" /\ submissions' = submissions
      BY <2>2, <2>6
    <2>. QED  BY <2>2, <2>5, <2>6
  <1>6. CASE AnalyzeMisconception
    <2>1. /\ pc = "analyze_misconception" /\ pc' = "update_mastery"
          /\ UNCHANGED <<outcome, moved, seeded, submissions>>
          /\ RecordMisconception \/ UNCHANGED <<store, skills>>
      BY <1>6 DEF AnalyzeMisconception, AnalyzeNothing, AnalyzeByRule, AnalyzeByModel, AnalyzeFallback
    <2>2. CASE UNCHANGED <<store, skills>>
      BY <2>1, <2>2
    <2>3. CASE RecordMisconception
      <3>1. /\ store' \in [Skills -> SkillNodes] /\ skills' \in [Skills -> SkillNodes]
            /\ \A s \in Skills : /\ skills'[s].attempts = skills[s].attempts
                                /\ store'[s] \in {store[s], skills'[s]}
        BY <2>1, <2>3, RecordType DEF Estimate
      <3>2. skills # NoRows /\ store # NoRows
        BY <2>1 DEF TypeOK
      <3>3. \A s \in Skills : store'[s].attempts \in {store[s].attempts, skills[s].attempts}
        BY <3>1
      <3>. QED  BY <2>1, <3>1, <3>2, <3>3, NoRowsIsNoStore
    <2>. QED  BY <2>1, <2>2, <2>3
  <1>7. CASE UpdateMastery
    BY <1>7, UpdateEvidence
  <1>8. CASE Adapt \/ Recover
    BY <1>8 DEF Adapt, Recover, RouteNext
  <1>9. CASE Finalize
    BY <1>9 DEF Finalize
  <1>10. CASE Start
    BY <1>10 DEF Start, NoRows
  <1>11. CASE Breakdown
    <2>1. /\ UNCHANGED <<pc, target, outcome, skills, moved, seeded, submissions>>
          /\ LeaveBehind
      BY <1>11 DEF Breakdown
    <2>2. CASE store' = store
      BY <2>1, <2>2
    <2>3. CASE pc = "load_student" /\ store = NoRows /\ store' = FirstRows
      <3>1. /\ PriorNode \in SkillNodes /\ PriorNode.attempts \in Nat /\ submissions \in Nat
            /\ seeded \in [Skills -> Nat]
        BY NodeAssumption DEF TypeOK, SkillNodes
      <3>2. store' # NoRows /\ \A s \in Skills : store'[s].attempts <= seeded[s] + submissions
        BY <2>3, <3>1, NoRowsIsNoStore DEF FirstRows
      <3>. QED  BY <2>1, <2>3, <3>2
    <2>4. CASE /\ pc = "analyze_misconception"
               /\ store' = [store EXCEPT ![target] = Misconceived(skills[target])]
      <3>1. store # NoRows /\ skills # NoRows /\ store' # NoRows
        BY <2>1, <2>4, LeaveBehindType DEF TypeOK
      <3>2. \A s \in Skills : store'[s].attempts \in {store[s].attempts, skills[s].attempts}
        BY <2>4 DEF TypeOK, Misconceived, SkillNodes
      <3>. QED  BY <2>1, <2>4, <3>1, <3>2
    <2>. QED  BY <2>1, <2>2, <2>3, <2>4 DEF LeaveBehind
  <1>12. CASE Continue
    BY <1>12 DEF Continue
  <1>13. CASE UNCHANGED vars
    BY <1>13
  <1>14. CASE RunOlder
    BY <1>14, OlderEvidence
  <1>. QED
    BY <1>1, <1>2, <1>3, <1>4, <1>5, <1>6, <1>7, <1>8, <1>9, <1>10, <1>11, <1>12, <1>13, <1>14
       DEF Next, RunNode

LEMMA InitOthers == Init => OthersInv
  BY DEF Init, OthersInv

LEMMA EvidenceAlways == Spec => [](TypeOK /\ EvidenceInv /\ OthersInv)
  <1>1. Init => EvidenceInv /\ OthersInv
    BY InitEvidence, InitOthers
  <1>2. TypeOK /\ EvidenceInv /\ OthersInv /\ [Next]_vars => EvidenceInv' /\ OthersInv'
    BY NextEvidence, NextOthers
  <1>. QED  BY <1>1, <1>2, TypeCorrect, PTL DEF Spec

(* No submission is counted twice, for any number of breakdowns, continued *)
(* turns and new sessions, those that overtake a running one included.     *)
THEOREM CountedOnce == Spec => []EvidenceCountedOnce
  <1>1. EvidenceInv => EvidenceCountedOnce
    BY DEF EvidenceInv, EvidenceCountedOnce
  <1>. QED  BY <1>1, EvidenceAlways, PTL

-----------------------------------------------------------------------------
(* What a step may do: redirects and scores.                               *)

LEMMA AdaptRedirects ==
    ASSUME TypeOK, Adapt, stack = <<>>, stack' # <<>>
    PROVE  /\ target' \in Unmastered(skills, target)
           /\ \/ detected[target] = target'
              \/ failures >= 2 /\ HasRedirectEvidence(skills, target')
  <1>1. PICK d : ApplyDecision(Validate(d, Context))
    BY DEF Adapt
  <1>2. /\ Validate(d, Context).action = "REVISIT_PREREQUISITE"
        /\ target' = Validate(d, Context).target
    BY <1>1 DEF ApplyDecision
  <1>3. /\ Context.stack = <<>> /\ Context.failures = failures /\ failures \in Nat
        /\ Context.nodes = skills /\ Context.target = target /\ Context.hint = detected[target]
    BY DEF Context, TypeOK
  <1>. QED  BY <1>2, <1>3, RedirectSound

(* Only adapt puts a skill on the return stack.                            *)
LEMMA StackGrowsInAdapt ==
    ASSUME [Next]_vars, stack = <<>>, stack' # <<>>
    PROVE  Adapt
  BY DEF Next, RunNode, LoadStudent, Diagnose, DiagnoseUnknown, PlanAction, Retrieve,
         GenerateProblem, ExecuteAndGrade, AnalyzeMisconception, AnalyzeNothing, AnalyzeByRule,
         AnalyzeByModel, AnalyzeFallback, UpdateMastery, SaveTarget, LogTarget, SaveShare,
         LogShare, ReturnFromUpdate, Recover, Finalize, Start, SubmitAnswer, Breakdown, Continue,
         RunOlder

(* The first detour rests on evidence whatever the model proposes, on any  *)
(* graph (guard.py, its four redirect rules).                              *)
THEOREM DetoursJustified == Spec => RedirectJustified
  <1>1. TypeOK /\ [Next]_vars =>
            [stack = <<>> /\ stack' # <<>> =>
               /\ target' \in Unmastered(skills, target)
               /\ \/ detected[target] = target'
                  \/ failures >= 2 /\ HasRedirectEvidence(skills, target')]_vars
    BY AdaptRedirects, StackGrowsInAdapt
  <1>. QED  BY <1>1, TypeCorrect, PTL DEF Spec, RedirectJustified

(* Whose thread takes a step: a thread that goes on or ends changes, and   *)
(* no other one does.                                                      *)
LEMMA PresentMoves ==
    ASSUME UNCHANGED older
    PROVE  /\ Mover.outcome = outcome
           /\ Mover.target = target
  BY DEF Mover, Present

LEMMA OlderMoves ==
    ASSUME TypeOK, NEW n \in DOMAIN older, OlderStep(n)
    PROVE  Mover = older[n]
  <1>. DEFINE moving == {m \in DOMAIN older : m \in DOMAIN older' => older'[m] # older[m]}
  <1>1. n \in moving /\ \A m \in moving : m = n
    BY OlderThreads
  <1>2. Mover = IF moving = {} THEN Present ELSE older[CHOOSE m \in moving : TRUE]
    BY DEF Mover
  <1>. HIDE DEF moving
  <1>3. moving # {} /\ (CHOOSE m \in moving : TRUE) = n
    BY <1>1
  <1>. QED  BY <1>2, <1>3

(* The steps of the present session that move a score, and whose: the two  *)
(* writes of update_mastery, and the write of a misconception, which takes *)
(* the mirror's estimate along over a row a replaced session has written.  *)
LEMMA PresentScoreMoves ==
    ASSUME TypeOK, EvidenceInv, [Next]_vars, UNCHANGED older, NEW s \in MovedEstimates
    PROVE  /\ outcome \in StudentOutcomes
           /\ s = target \/ (outcome = "INCORRECT" /\ s \in Prereqs[target])
  <1>0. s \in DOMAIN store /\ store \in [Skills -> SkillNodes] /\ store # NoRows
    BY DEF MovedEstimates, TypeOK, NoRows
  <1>1. store'[s] # store[s] /\ s \in Skills
    BY <1>0 DEF MovedEstimates
  <1>2. CASE SaveTarget
    <2>1. pc = "update_mastery" /\ target \in Skills
      BY <1>2 DEF SaveTarget, Run, TypeOK
    <2>2. SaveSkill(target, {Resolved(n) : n \in Observed(skills[target], outcome)})
      BY <1>2 DEF SaveTarget
    <2>3. s = target
      BY <1>0, <1>1, <2>1, <2>2 DEF SaveSkill
    <2>. QED  BY <2>1, <2>3 DEF EvidenceInv
  <1>3. CASE SaveShare
    <2>1. PICK p \in Payers : SaveSkill(p, Observed(skills[p], outcome))
      BY <1>3 DEF SaveShare
    <2>2. s = p
      BY <1>0, <1>1, <2>1 DEF SaveSkill
    <2>3. outcome \in StudentOutcomes
      BY <1>3 DEF SaveShare, Run, EvidenceInv
    <2>. QED  BY <2>1, <2>2, <2>3 DEF Payers, SharedWith, StudentOutcomes
  <1>4. CASE AnalyzeMisconception
    <2>1. pc = "analyze_misconception" /\ (RecordMisconception \/ UNCHANGED store)
      BY <1>4 DEF AnalyzeMisconception, AnalyzeNothing, AnalyzeByRule, AnalyzeByModel,
                  AnalyzeFallback, Run
    <2>2. s = target
      BY <1>1, <2>1, RecordType
    <2>. QED  BY <2>1, <2>2 DEF EvidenceInv
  <1>5. CASE UNCHANGED store
    BY <1>1, <1>5
  <1>6. CASE Breakdown
    <2>1. /\ pc = "analyze_misconception"
          /\ store' = [store EXCEPT ![target] = Misconceived(skills[target])]
      BY <1>0, <1>1, <1>6 DEF Breakdown, LeaveBehind
    <2>2. s = target
      BY <1>0, <1>1, <2>1
    <2>. QED  BY <2>1, <2>2 DEF EvidenceInv
  <1>7. CASE RunOlder
    <2>1. PICK n \in DOMAIN older : OlderStep(n)
      BY <1>7 DEF RunOlder
    <2>. QED  BY <2>1, OlderThreads
  <1>. QED
    BY <1>0, <1>2, <1>3, <1>4, <1>5, <1>6, <1>7
       DEF Next, RunNode, LoadStudent, Diagnose, DiagnoseUnknown, PlanAction, Retrieve,
           GenerateProblem, ExecuteAndGrade, UpdateMastery, LogTarget, LogShare, ReturnFromUpdate,
           Adapt, Recover, Finalize, Start, SubmitAnswer, Continue, vars, records

(* Those of a replaced session move the scores it may write.               *)
LEMMA OlderScoreMoves ==
    ASSUME TypeOK, OthersInv, NEW n \in DOMAIN older, OlderStep(n), NEW s \in MovedEstimates
    PROVE  /\ older[n].outcome \in StudentOutcomes
           /\ \/ s = older[n].target
              \/ older[n].outcome = "INCORRECT" /\ s \in Prereqs[older[n].target]
  <1>0. s \in DOMAIN store /\ store \in [Skills -> SkillNodes] /\ store # NoRows
    BY DEF MovedEstimates, TypeOK, NoRows
  <1>1. store'[s] # store[s] /\ s \in Skills
    BY <1>0 DEF MovedEstimates
  <1>2. PICK x \in Skills, node \in SkillNodes : MayWrite(older[n], x, node) /\ Overwrite(x, node)
    BY <1>0, <1>1, OlderWrites
  <1>3. s = x
    BY <1>0, <1>1, <1>2 DEF Overwrite
  <1>4. older[n].outcome \in StudentOutcomes
    BY <1>2 DEF MayWrite, OthersInv, ThreadEvidence
  <1>. QED  BY <1>2, <1>3, <1>4 DEF MayWrite, StudentOutcomes

LEMMA WhoseScoreMoves ==
    ASSUME TypeOK, EvidenceInv, OthersInv, [Next]_vars, NEW s \in MovedEstimates
    PROVE  /\ Mover.outcome \in StudentOutcomes
           /\ s = Mover.target \/ (Mover.outcome = "INCORRECT" /\ s \in Prereqs[Mover.target])
  <1>1. CASE RunOlder
    <2>1. PICK n \in DOMAIN older : OlderStep(n)
      BY <1>1 DEF RunOlder
    <2>. QED  BY <2>1, OlderMoves, OlderScoreMoves
  <1>2. CASE Start
    BY <1>2 DEF Start, MovedEstimates
  <1>3. CASE UNCHANGED older
    BY <1>3, PresentMoves, PresentScoreMoves
  <1>. QED
    BY <1>1, <1>2, <1>3
       DEF Next, RunNode, LoadStudent, Diagnose, DiagnoseUnknown, PlanAction, Retrieve,
           GenerateProblem, ExecuteAndGrade, AnalyzeMisconception, AnalyzeNothing, AnalyzeByRule,
           AnalyzeByModel, AnalyzeFallback, UpdateMastery, SaveTarget, LogTarget, SaveShare,
           LogShare, ReturnFromUpdate, Adapt, Recover, Finalize, SubmitAnswer, Breakdown, Continue,
           vars, others

(* A system fault moves no score (nodes.py, route_evidence and the refusal *)
(* in bkt.py behind it), in this session or in one it replaced, for any    *)
(* number of breakdowns and new sessions.                                  *)
THEOREM FaultsHarmless == Spec => FaultsNeverMoveMastery
  <1>1. TypeOK /\ EvidenceInv /\ OthersInv /\ [Next]_vars =>
            [MovedEstimates # {} => Mover.outcome \notin SystemFaults \cup {"NONE"}]_vars
    BY WhoseScoreMoves DEF StudentOutcomes, SystemFaults
  <1>. QED
    BY <1>1, EvidenceAlways, PTL DEF Spec, FaultsNeverMoveMastery

(* Nobody pays for a failure but the skill practised and its diagnosed     *)
(* direct prerequisite (attribution.py, debits), on any graph, in whichever *)
(* of the sessions the failure occurred.                                   *)
THEOREM OnlyImplicatedPay == Spec => OnlyImplicatedSkillsMove
  <1>1. TypeOK /\ EvidenceInv /\ OthersInv /\ [Next]_vars =>
            [\A s \in MovedEstimates :
                s = Mover.target \/ (Mover.outcome = "INCORRECT" /\ s \in Prereqs[Mover.target])]_vars
    BY WhoseScoreMoves
  <1>. QED
    BY <1>1, EvidenceAlways, PTL DEF Spec, OnlyImplicatedSkillsMove

-----------------------------------------------------------------------------
(* The chain of a detour.                                                  *)

(* The policy sends a student to a direct prerequisite, or back to where   *)
(* they came from: a hint counts only when it is an unmastered             *)
(* prerequisite, and the weakest one is one.                               *)
LEMMA DecideDescends ==
    ASSUME NEW ctx, ctx.target \in Skills, \A p \in Skills : Strength(ctx.nodes[p]) \in Nat,
           Decide(ctx).action = "REVISIT_PREREQUISITE"
    PROVE  \/ Decide(ctx).target \in Prereqs[ctx.target]
           \/ ctx.stack # <<>> /\ Decide(ctx).target = Last(ctx.stack)
  <1>1. Unmastered(ctx.nodes, ctx.target) \subseteq Prereqs[ctx.target]
    BY DEF Unmastered
  <1>2. Suspect(ctx) \in Prereqs[ctx.target] \cup {NoSkill}
    <2>1. CASE Implicates(ctx, ctx.hint)
      BY <1>1, <2>1 DEF Suspect, Implicates
    <2>2. CASE ~ Implicates(ctx, ctx.hint)
      BY <1>1, <2>2, WeakestIsUnmastered DEF Suspect
    <2>. QED  BY <2>1, <2>2
  <1>3. Remediate(ctx).action = "REVISIT_PREREQUISITE" =>
            Remediate(ctx).target \in Prereqs[ctx.target]
    BY <1>2 DEF Remediate, Decision
  <1>4. \/ Decide(ctx) = Remediate(ctx)
        \/ ctx.stack # <<>> /\ Decide(ctx) = Decision("REVISIT_PREREQUISITE", Last(ctx.stack))
    BY DEF Decide, Decision
  <1>. QED  BY <1>3, <1>4 DEF Decision

(* Without a model the decision applied is the policy's, or to complete.   *)
LEMMA AdaptDescends ==
    ASSUME TypeOK, Proposals = {}, Adapt, detour' # detour
    PROVE  \/ Return /\ stack # <<>> /\ target' = Last(stack)
           \/ Redirect /\ target' \in Prereqs[target]
  <1> DEFINE d == Validate(Decide(Context), Context)
  <1>1. ApplyDecision(d)
    BY DEF Adapt
  <1>2. d.action = "REVISIT_PREREQUISITE" /\ d.target # NoSkill /\ target' = d.target
    BY <1>1 DEF ApplyDecision
  <1>3. d = Decide(Context)
    BY <1>2 DEF Validate, Decision
  <1>4. /\ Context.target = target /\ Context.stack = stack /\ Context.nodes = skills
        /\ target \in Skills /\ skills \in [Skills -> SkillNodes]
    BY DEF Adapt, Run, TypeOK, Context
  <1>5. \A p \in Skills : Strength(Context.nodes[p]) \in Nat
    <2>1. ASSUME NEW a \in Nat, NEW b \in Nat
          PROVE  a * b \in Nat
      OBVIOUS
    <2>2. \A p \in Skills : skills[p].mastery \in Nat /\ skills[p].confidence \in Nat
      <3>. SUFFICES ASSUME NEW p \in Skills
                    PROVE  skills[p].mastery \in Nat /\ skills[p].confidence \in Nat
        OBVIOUS
      <3>1. skills[p] \in SkillNodes
        BY <1>4
      <3>2. skills[p].mastery \in Levels /\ skills[p].confidence \in Confidences
        BY <3>1 DEF SkillNodes
      <3>3. Levels \subseteq 0 .. 100 /\ Confidences \subseteq 0 .. 100
        BY NodeAssumption
      <3>4. 0 .. 100 \subseteq Nat
        OBVIOUS
      <3>. QED  BY <3>2, <3>3, <3>4, Zenon
    <2>3. \A p \in Skills : skills[p].mastery * skills[p].confidence \in Nat
      BY <2>1, <2>2
    <2>. QED  BY <1>4, <2>3 DEF Strength
  <1>6. \/ d.target \in Prereqs[target]
        \/ stack # <<>> /\ d.target = Last(stack)
    BY <1>2, <1>3, <1>4, <1>5, DecideDescends
  <1> HIDE DEF d
  <1>. QED  BY <1>1, <1>2, <1>6 DEF ApplyDecision

(* A session that has not chosen its skill is on no detour.                *)
ChainInv ==
    /\ StackIsPrereqChain
    /\ pc \in {"load_student", "diagnose"} => stack = <<>>

LEMMA DetourKeepsChain ==
    ASSUME TypeOK, Proposals = {}, StackIsPrereqChain, Adapt
    PROVE  StackIsPrereqChain'
  <1>1. target \in Skills /\ stack \in Seq(Skills)
    BY DEF TypeOK, Adapt, Run
  <1>2. CASE detour' = detour
    <2>1. Len(stack) \in Nat /\ stack' = stack
      BY <1>1, <1>2
    <2>2. ~ (stack # <<>> /\ Return)
      BY <1>1, <2>1, FrontProperties DEF Return
    <2>3. Len(Append(stack, target)) = Len(stack) + 1
      BY <1>1
    <2>4. ~ Redirect
      BY <2>1, <2>3 DEF Redirect
    <2>5. target' = target
      BY <2>2, <2>4 DEF Adapt, ApplyDecision
    <2>. QED  BY <1>2, <2>5 DEF StackIsPrereqChain
  <1>3. CASE Return /\ stack # <<>> /\ target' = Last(stack)
    <2>1. Len(stack) \in Nat \ {0} /\ Last(stack) = stack[Len(stack)]
      BY <1>1, <1>3 DEF Last
    <2>2. /\ Len(stack') = Len(stack) - 1
          /\ \A i \in 1 .. Len(stack) - 1 : stack'[i] = stack[i]
      <3>1. PICK n \in Nat : n = Len(stack) - 1
        BY <2>1
      <3>2. /\ Len(SubSeq(stack, 1, n)) = n
            /\ \A i \in 1 .. n : SubSeq(stack, 1, n)[i] = stack[i]
        BY <1>1, <2>1, <3>1
      <3>3. stack' = SubSeq(stack, 1, n)
        BY <3>1, <1>3 DEF Return, Front
      <3>. QED  BY <3>1, <3>2, <3>3
    <2>3. ASSUME NEW i \in 1 .. Len(stack')
          PROVE  IF i = Len(stack') THEN target' \in Prereqs[stack'[i]]
                                    ELSE stack'[i + 1] \in Prereqs[stack'[i]]
      <3>1. i \in 1 .. Len(stack) - 1 /\ stack'[i] = stack[i] /\ i # Len(stack)
        BY <2>1, <2>2
      <3>2. stack[i + 1] \in Prereqs[stack[i]]
        BY <2>1, <3>1 DEF StackIsPrereqChain
      <3>3. CASE i = Len(stack')
        BY <1>3, <2>1, <2>2, <3>1, <3>2, <3>3
      <3>4. CASE i # Len(stack')
        <4>1. i + 1 \in 1 .. Len(stack) - 1
          BY <2>1, <2>2, <3>1, <3>4
        <4>. QED  BY <2>2, <3>1, <3>2, <3>4, <4>1
      <3>. QED  BY <3>3, <3>4
    <2>. QED  BY <2>3 DEF StackIsPrereqChain
  <1>4. CASE Redirect /\ target' \in Prereqs[target]
    <2>1. Len(stack) \in Nat /\ Len(stack') = Len(stack) + 1
      BY <1>1, <1>4 DEF Redirect
    <2>2. /\ \A i \in 1 .. Len(stack) : stack'[i] = stack[i]
          /\ stack'[Len(stack) + 1] = target
      BY <1>1, <1>4 DEF Redirect
    <2>. QED  BY <1>4, <2>1, <2>2 DEF StackIsPrereqChain
  <1>. QED  BY <1>2, <1>3, <1>4, AdaptDescends

LEMMA NextChain ==
    ASSUME TypeOK, Proposals = {}, ChainInv, [Next]_vars
    PROVE  ChainInv'
  <1>1. CASE Start
    BY <1>1 DEF Start, ChainInv, StackIsPrereqChain
  <1>2. CASE Adapt
    <2>1. pc' \notin {"load_student", "diagnose"}
      BY <1>2 DEF Adapt, GoTo, RouteNext
    <2>. QED  BY <1>2, <2>1, DetourKeepsChain DEF ChainInv
  <1>3. CASE Diagnose
    BY <1>3 DEF Diagnose, Run, GoTo, ChainInv, StackIsPrereqChain
  <1>4. CASE UNCHANGED <<target, detour>>
            /\ (pc' \in {"load_student", "diagnose"} => pc \in {"load_student", "diagnose"})
    BY <1>4 DEF ChainInv, StackIsPrereqChain
  <1>. QED
    BY <1>1, <1>2, <1>3, <1>4
       DEF Next, RunNode, LoadStudent, DiagnoseUnknown, PlanAction, Retrieve, Run, GoTo, Suspend,
           RouteEvidence, RouteNext,
           GenerateProblem, ExecuteAndGrade, AnalyzeMisconception, AnalyzeNothing, AnalyzeByRule,
           AnalyzeByModel, AnalyzeFallback, UpdateMastery, SaveTarget, LogTarget, SaveShare,
           LogShare, ReturnFromUpdate, Recover, Finalize, SubmitAnswer, Breakdown, Continue, RunOlder

(* Under the rule-based policy every detour descends the skill graph one   *)
(* direct prerequisite at a time, and a return climbs back the same way,   *)
(* for every graph (policy.py, decide; nodes.py, adapt).                   *)
THEOREM DetoursDescend ==
    ASSUME Proposals = {}
    PROVE  Spec => []StackIsPrereqChain
  <1>1. Init => ChainInv
    BY DEF Init, ChainInv, StackIsPrereqChain
  <1>2. TypeOK /\ ChainInv /\ [Next]_vars => ChainInv'
    BY NextChain
  <1>3. ChainInv => StackIsPrereqChain
    BY DEF ChainInv
  <1>. QED  BY <1>1, <1>2, <1>3, TypeCorrect, PTL DEF Spec

=============================================================================

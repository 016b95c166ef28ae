------------------------------- MODULE Policy -------------------------------
(***************************************************************************)
(* The rule-based adaptation policy: app/mastery/policy.py, the queries of *)
(* app/mastery/skill_graph.py it asks, and the evidence attribution of     *)
(* app/mastery/attribution.py.  Everything here is a pure operator of the  *)
(* student's skill records and of a policy context; no state is kept.      *)
(*                                                                         *)
(* Mastery and confidence are percentages, so that every threshold of the  *)
(* code is exact; a configuration picks representatives on each side.      *)
(***************************************************************************)
EXTENDS Integers, FiniteSets, SequencesExt

CONSTANTS
    Skills,                  \* the skills of the graph
    Prereqs,                 \* Prereqs[s]: the direct prerequisites of s
    Rank,                    \* a topological rank, the witness that Prereqs is acyclic
    NameOrder,               \* the alphabetical order of the skill names
    NoSkill,                 \* None where a skill name is optional
    Unknown,                 \* a name that is not in the graph
    MAX_LOOPS,
    MAX_ATTEMPTS_PER_SKILL,
    MAX_PREREQ_DEPTH

ASSUME SkillsAssumption ==
    /\ IsFiniteSet(Skills)
    /\ Skills # {}
    /\ NoSkill \notin Skills
    /\ Unknown \notin Skills
    /\ Unknown # NoSkill

ASSUME GraphAssumption ==
    /\ Prereqs \in [Skills -> SUBSET Skills]
    /\ Rank \in [Skills -> Nat]
    /\ \A s \in Skills : \A p \in Prereqs[s] : Rank[p] < Rank[s]
    /\ NameOrder \in [Skills -> Nat]
    /\ \A s, t \in Skills : NameOrder[s] = NameOrder[t] => s = t

ASSUME LimitsAssumption ==
    /\ MAX_LOOPS \in Nat \ {0}
    /\ MAX_ATTEMPTS_PER_SKILL \in Nat \ {0}
    /\ MAX_PREREQ_DEPTH \in Nat \ {0}

-----------------------------------------------------------------------------
(* Thresholds, in percent.                                                 *)

MASTERY_THRESHOLD          == 60
CONFIDENCE_THRESHOLD       == 50
ESCALATE_THRESHOLD         == 80
PREREQ_EVIDENCE_CONFIDENCE == 50
PREREQ_MIN_ATTEMPTS        == 3
PREREQ_REDIRECT_THRESHOLD  == 45

(* Plausible bug, for mutation: a refusal of ours enumerated as evidence.  *)
StudentOutcomesWithFault == {"CORRECT", "INCORRECT", "FAULT"}

(* StudentOutcome, reduced to CORRECTNESS, and any SystemFault.            *)
StudentOutcomes == {"CORRECT", "INCORRECT"}
SystemFaults    == {"FAULT"}

AdaptationActions ==
    {"ADVANCE", "RETRY_VARIATION", "EXPLAIN_DIFFERENTLY", "STEP_DOWN_DIFFICULTY",
     "REVISIT_PREREQUISITE", "ESCALATE_DIFFICULTY", "REASSESS", "COMPLETE"}

(* A proposal's target may be absent, or a name the model made up.         *)
Names == Skills \cup {NoSkill, Unknown}

Decisions == [action : AdaptationActions, target : Names]

Decision(action, target) == [action |-> action, target |-> target]

-----------------------------------------------------------------------------
(* Skill records and the skill graph.                                      *)

DifficultyFor(mastery) ==
    IF mastery < 40 THEN "EASY" ELSE IF mastery < 75 THEN "MEDIUM" ELSE "HARD"

IsMastered(node) ==
    /\ node.mastery >= MASTERY_THRESHOLD
    /\ node.confidence >= CONFIDENCE_THRESHOLD

(* Mastery alone: what lets a student past a prerequisite.                 *)
Unmastered(nodes, skill) == {p \in Prereqs[skill] : nodes[p].mastery < MASTERY_THRESHOLD}

Strength(node) == node.mastery * node.confidence

(* Strictly weaker, the alphabet breaking ties.                            *)
Weaker(nodes, p, q) ==
    \/ Strength(nodes[p]) < Strength(nodes[q])
    \/ Strength(nodes[p]) = Strength(nodes[q]) /\ NameOrder[p] < NameOrder[q]

WeakestPrerequisite(nodes, skill) ==
    LET candidates == Unmastered(nodes, skill)
    IN  IF candidates = {} THEN NoSkill
        ELSE CHOOSE p \in candidates : \A q \in candidates \ {p} : Weaker(nodes, p, q)

(* The dependents of skill that have become startable.                     *)
NextSkills(nodes, skill) ==
    {s \in Skills : /\ nodes[skill].mastery >= MASTERY_THRESHOLD
                    /\ skill \in Prereqs[s]
                    /\ nodes[s].mastery < MASTERY_THRESHOLD
                    /\ Unmastered(nodes, s) = {}}

(* The readiest of some skills: highest mastery, then alphabetical.        *)
Readiest(nodes, candidates) ==
    {s \in candidates : \A t \in candidates \ {s} :
        \/ nodes[s].mastery > nodes[t].mastery
        \/ nodes[s].mastery = nodes[t].mastery /\ NameOrder[s] < NameOrder[t]}

(* Plausible bug, for mutation: a hint left from an earlier failure counts *)
(* whatever the grade is now.                                              *)
SharedWithStaleHint(outcome, skill, hint) ==
    {p \in Prereqs[skill] : p = hint}

(* Who pays for a failed exercise besides the skill practised: a diagnosed *)
(* direct prerequisite, and only for a failure.                            *)
SharedWith(outcome, skill, hint) ==
    {p \in Prereqs[skill] : p = hint /\ outcome # "CORRECT"}

-----------------------------------------------------------------------------
(* The policy.  A context is a record with fields target, nodes, outcome,  *)
(* failures, topicAttempts, loopCount, depth, stack, difficulty and hint.  *)

(* Plausible bug, for mutation: only the loop count is a limit.            *)
LimitsBreachedByLoopsOnly(ctx) == ctx.loopCount >= MAX_LOOPS

LimitsBreached(ctx) ==
    \/ ctx.loopCount >= MAX_LOOPS
    \/ ctx.topicAttempts >= MAX_ATTEMPTS_PER_SKILL

(* prerequisite_has_redirect_evidence: measured, and clearly broken.       *)
HasRedirectEvidence(nodes, prerequisite) ==
    /\ prerequisite \in Skills
    /\ \/ nodes[prerequisite].confidence >= PREREQ_EVIDENCE_CONFIDENCE
       \/ nodes[prerequisite].attempts >= PREREQ_MIN_ATTEMPTS
    /\ nodes[prerequisite].mastery < PREREQ_REDIRECT_THRESHOLD

(* misconception_implicates_prerequisite                                   *)
Implicates(ctx, prerequisite) ==
    /\ ctx.hint = prerequisite
    /\ prerequisite \in Unmastered(ctx.nodes, ctx.target)

(* Plausible bug, for mutation: the hint is followed wherever it points.   *)
SuspectTrustingAnyHint(ctx) ==
    LET weakest == WeakestPrerequisite(ctx.nodes, ctx.target)
    IN  IF ctx.hint \in Skills THEN ctx.hint
        ELSE IF HasRedirectEvidence(ctx.nodes, weakest) THEN weakest
        ELSE NoSkill

(* The prerequisite that repeated failures point at: a diagnosed one first, *)
(* else the weakest if there is evidence against it.                       *)
Suspect(ctx) ==
    LET weakest == WeakestPrerequisite(ctx.nodes, ctx.target)
    IN  IF Implicates(ctx, ctx.hint) THEN ctx.hint
        ELSE IF HasRedirectEvidence(ctx.nodes, weakest) THEN weakest
        ELSE NoSkill

(* What two failures in a row call for.                                    *)
Remediate(ctx) ==
    IF Suspect(ctx) # NoSkill /\ ctx.depth < MAX_PREREQ_DEPTH
    THEN Decision("REVISIT_PREREQUISITE", Suspect(ctx))
    ELSE IF ctx.difficulty = "EASY"
    THEN Decision("EXPLAIN_DIFFERENTLY", ctx.target)
    ELSE Decision("STEP_DOWN_DIFFICULTY", ctx.target)

(* decide: the first applicable rule wins.                                 *)
Decide(ctx) ==
    LET node    == ctx.nodes[ctx.target]
        success == ctx.outcome = "CORRECT"
        failure == ctx.outcome = "INCORRECT"
    IN  IF LimitsBreached(ctx)
        THEN Decision("COMPLETE", ctx.target)
        ELSE IF success /\ ctx.stack # <<>> /\ IsMastered(node)
        THEN Decision("REVISIT_PREREQUISITE", Last(ctx.stack))
        ELSE IF success /\ IsMastered(node) /\ node.mastery >= ESCALATE_THRESHOLD
        THEN Decision("ESCALATE_DIFFICULTY", ctx.target)
        ELSE IF success /\ IsMastered(node)
        THEN Decision("ADVANCE", ctx.target)
        ELSE IF failure /\ ctx.failures = 1
        THEN Decision("RETRY_VARIATION", ctx.target)
        ELSE IF failure /\ ctx.failures >= 2
        THEN Remediate(ctx)
        ELSE Decision("REASSESS", ctx.target)

=============================================================================

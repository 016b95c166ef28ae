-------------------------------- MODULE Guard -------------------------------
(***************************************************************************)
(* app/mastery/guard.py: the model proposes a decision, the guard applies  *)
(* it, or the rule-based decision if it breaks a rule, or completes the    *)
(* session if that decision breaks a rule as well.                         *)
(***************************************************************************)
EXTENDS Policy

(* The rules, by the names the code reports: each operator is the set of   *)
(* those that decision d breaks in context ctx.                            *)

MasteryRules(d, ctx) ==
    LET node == ctx.nodes[ctx.target] IN
    {r \in {"advance_requires_mastery"} :
        d.action = "ADVANCE" /\ ~IsMastered(node)}
    \cup
    {r \in {"escalate_requires_mastery"} :
        /\ d.action = "ESCALATE_DIFFICULTY"
        /\ node.mastery < ESCALATE_THRESHOLD \/ node.confidence < CONFIDENCE_THRESHOLD}

(* Plausible bug, for mutation: the must-return rule looks at the depth    *)
(* limit instead of the stack.                                             *)
ReturnRulesAtLimitOnly(d, ctx) ==
    {r \in {"must_return_to_original_objective"} :
        d.action \in {"ADVANCE", "ESCALATE_DIFFICULTY"} /\ ctx.depth >= MAX_PREREQ_DEPTH}

ReturnRules(d, ctx) ==
    {r \in {"must_return_to_original_objective"} :
        d.action \in {"ADVANCE", "ESCALATE_DIFFICULTY"} /\ ctx.stack # <<>>}

(* Plausible bug, for mutation: a redirect needs no evidence.              *)
RedirectRulesWithoutEvidence(d, ctx) ==
    LET redirect == d.action = "REVISIT_PREREQUISITE"
        fresh    == ctx.stack = <<>>
    IN  {r \in {"prereq_must_exist"} :
            redirect /\ fresh /\ d.target \notin Unmastered(ctx.nodes, ctx.target)}
        \cup
        {r \in {"prereq_depth_exceeded"} :
            redirect /\ ctx.depth >= MAX_PREREQ_DEPTH}

RedirectRules(d, ctx) ==
    LET redirect == d.action = "REVISIT_PREREQUISITE"
        fresh    == ctx.stack = <<>>
    IN  {r \in {"premature_redirect_without_evidence"} :
            redirect /\ fresh /\ ctx.failures < 2 /\ ctx.hint # d.target}
        \cup
        {r \in {"redirect_without_sufficient_evidence"} :
            /\ redirect /\ fresh
            /\ d.target \in Prereqs[ctx.target]
            /\ ~Implicates(ctx, d.target)
            /\ ~HasRedirectEvidence(ctx.nodes, d.target)}
        \cup
        {r \in {"prereq_must_exist"} :
            redirect /\ fresh /\ d.target \notin Unmastered(ctx.nodes, ctx.target)}
        \cup
        {r \in {"prereq_depth_exceeded"} :
            redirect /\ ctx.depth >= MAX_PREREQ_DEPTH}

(* Plausible bug, for mutation: names are checked on a redirect from the   *)
(* original objective only.                                                *)
StandingRulesTrustingDetours(d, ctx) ==
    {r \in {"loop_limit"} : LimitsBreached(ctx) /\ d.action # "COMPLETE"}
    \cup
    {r \in {"unknown_skill"} : ctx.stack = <<>> /\ d.target \notin Skills \cup {NoSkill}}

StandingRules(d, ctx) ==
    {r \in {"loop_limit"} : LimitsBreached(ctx) /\ d.action # "COMPLETE"}
    \cup
    {r \in {"unknown_skill"} : d.target \notin Skills \cup {NoSkill}}
    \cup
    {r \in {"repeated_failure_needs_investigation"} :
        /\ d.action = "STEP_DOWN_DIFFICULTY"
        /\ ctx.failures >= 2
        /\ WeakestPrerequisite(ctx.nodes, ctx.target) # NoSkill}

ViolatedRules(d, ctx) ==
    UNION {MasteryRules(d, ctx), ReturnRules(d, ctx), RedirectRules(d, ctx), StandingRules(d, ctx)}

(* validate(...).final, with _safe_complete as the last resort.            *)
Validate(proposed, ctx) ==
    IF ViolatedRules(proposed, ctx) = {} THEN proposed
    ELSE IF ViolatedRules(Decide(ctx), ctx) = {} THEN Decide(ctx)
    ELSE Decision("COMPLETE", ctx.target)

=============================================================================

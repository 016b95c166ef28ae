\* A skill started over the API: failures with a prerequisite nobody measured.
CONSTANTS
    variables = variables
    functions = functions
    recursion = recursion
    recursion_tree = recursion_tree
    NoSkill = NoSkill
    Unknown = Unknown
    Skills <- Pair
    Prereqs <- ChainPrereqs
    Rank <- ChainRank
    NameOrder <- Alphabet
    MAX_LOOPS = 5
    MAX_ATTEMPTS_PER_SKILL = 4
    MAX_PREREQ_DEPTH = 3
    MAX_ERRORS = 1
    Levels = {30, 50, 70, 90}
    Confidences = {0, 80}
    PriorNode <- Prior
    InitialStores <- OnlyNewcomer
    Targets <- OnlyFunctions
    Languages = {"PYTHON"}
    Proposals <- NoProposal
    Diagnoses <- Known
    MaxStarts = 1
    MaxBreakdowns = 0
SPECIFICATION Spec
PROPERTY RuleBasedDecisionApplied
CHECK_DEADLOCK FALSE

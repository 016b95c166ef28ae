\* The rule-based policy alone on a chain of three skills; a breakdown.
CONSTANTS
    variables = variables
    functions = functions
    recursion = recursion
    recursion_tree = recursion_tree
    NoSkill = NoSkill
    Unknown = Unknown
    Skills <- Chain
    Prereqs <- ChainPrereqs
    Rank <- ChainRank
    NameOrder <- Alphabet
    MAX_LOOPS = 5
    MAX_ATTEMPTS_PER_SKILL = 3
    MAX_PREREQ_DEPTH = 2
    MAX_ERRORS = 1
    Levels = {30, 90}
    Confidences = {0, 80}
    PriorNode <- Prior
    InitialStores <- NewcomerOrStruggling
    Targets <- AskRecursion
    Languages = {"PYTHON"}
    Proposals <- NoProposal
    Diagnoses <- Known
    MaxStarts = 1
    MaxBreakdowns = 1
SPECIFICATION FairSpec
INVARIANT StackIsPrereqChain
PROPERTIES
    SessionTerminates
    SubmissionSettles
CHECK_DEADLOCK FALSE

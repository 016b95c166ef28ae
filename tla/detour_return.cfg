\* A mastered detour at the depth limit, with the limits of the code.
CONSTANTS
    variables = variables
    functions = functions
    recursion = recursion
    recursion_tree = recursion_tree
    NoSkill = NoSkill
    Unknown = Unknown
    Skills <- LongChain
    Prereqs <- ChainPrereqs
    Rank <- ChainRank
    NameOrder <- Alphabet
    MAX_LOOPS = 25
    MAX_ATTEMPTS_PER_SKILL = 4
    MAX_PREREQ_DEPTH = 3
    MAX_ERRORS = 5
    Levels = {30, 90}
    Confidences = {0, 80}
    PriorNode <- Prior
    InitialStores <- OnlyStruggling
    Targets <- AskLast
    Languages = {"PYTHON"}
    Proposals <- NoProposal
    Diagnoses <- Undiagnosed
    MaxStarts = 1
    MaxBreakdowns = 0
SPECIFICATION Spec
PROPERTY MasteredDetourReturns
CHECK_DEADLOCK FALSE

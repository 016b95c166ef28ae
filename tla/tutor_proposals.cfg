\* A live model that may propose any decision at all, on a chain of two skills.
CONSTANTS
    variables = variables
    functions = functions
    recursion = recursion
    recursion_tree = recursion_tree
    NoSkill = NoSkill
    Unknown = Unknown
    Skills <- Pair
    Prereqs <- ChainPrereqs
    Rank <- ChainRank
    NameOrder <- Alphabet
    MAX_LOOPS = 4
    MAX_ATTEMPTS_PER_SKILL = 3
    MAX_PREREQ_DEPTH = 2
    MAX_ERRORS = 1
    Levels = {30, 90}
    Confidences = {0, 80}
    PriorNode <- Prior
    InitialStores <- NewcomerOrReturning
    Targets <- Known
    Languages = {"OTHER"}
    Proposals <- AnyProposal
    Diagnoses <- Known
    MaxStarts = 1
    MaxBreakdowns = 0
SPECIFICATION Spec
INVARIANTS
    TypeOK
    DepthMatchesStack
    SessionCeilings
PROPERTIES
    OwedReturn
    RedirectJustified
CHECK_DEADLOCK FALSE

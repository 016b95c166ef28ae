\* An update broken off after its first log row.
CONSTANTS
    variables = variables
    functions = functions
    recursion = recursion
    recursion_tree = recursion_tree
    NoSkill = NoSkill
    Unknown = Unknown
    Skills <- Pair
    Prereqs <- ChainPrereqs
    Rank <- ChainRank
    NameOrder <- Alphabet
    MAX_LOOPS = 2
    MAX_ATTEMPTS_PER_SKILL = 3
    MAX_PREREQ_DEPTH = 2
    MAX_ERRORS = 1
    Levels = {30, 50, 70, 90}
    Confidences = {0, 80}
    PriorNode <- Prior
    InitialStores <- NewcomerOrReturning
    Targets <- AskFunctions
    Languages = {"PYTHON"}
    Proposals <- NoProposal
    Diagnoses <- Known
    MaxStarts = 1
    MaxBreakdowns = 1
SPECIFICATION Spec
INVARIANT OneExerciseRowPerSubmission
CHECK_DEADLOCK FALSE

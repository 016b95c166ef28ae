\* The same page, nothing going wrong but the sandbox.
CONSTANTS
    variables = variables
    functions = functions
    conditionals = conditionals
    recursion = recursion
    h1 = h1
    h2 = h2
    Skills <- TheSkills
    Prereqs <- ThePrereqs
    Rank <- TheRank
    NameOrder <- Alphabet
    NoSkill = NoSkill
    Unknown = Unknown
    MAX_LOOPS = 25
    MAX_ATTEMPTS_PER_SKILL = 4
    MAX_PREREQ_DEPTH = 3
    Handlers <- TwoHandlers
    NoRow = NoRow
    Nobody = Nobody
    MaxTroubles = 0
SPECIFICATION Spec
PROPERTY
    FaultsAreNotRecorded
CHECK_DEADLOCK FALSE

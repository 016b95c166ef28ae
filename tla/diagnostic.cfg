\* One page, two handlers, two things that go wrong.
CONSTANTS
    variables = variables
    functions = functions
    conditionals = conditionals
    recursion = recursion
    h1 = h1
    h2 = h2
    Skills <- TheSkills
    Prereqs <- ThePrereqs
    Rank <- TheRank
    NameOrder <- Alphabet
    NoSkill = NoSkill
    Unknown = Unknown
    MAX_LOOPS = 25
    MAX_ATTEMPTS_PER_SKILL = 4
    MAX_PREREQ_DEPTH = 3
    Handlers <- TwoHandlers
    NoRow = NoRow
    Nobody = Nobody
    MaxTroubles = 2
SPECIFICATION FairSpec
INVARIANTS
    DiagnosticTypeOK
    SkipsAreEarned
    HeadlineAgrees
    PlanHasItsRows
PROPERTIES
    AskedWhenReady
    CheckEnds
CHECK_DEADLOCK FALSE

\* Two providers, drafts of five shapes, three exercises.
CONSTANTS
    Chain = {0, 2}
    Caching = {TRUE, FALSE}
    MAX_RETRIES = 2
    Values <- Drafts
    NoValue = NoValue
    Outputs = {1, 2}
    Absent = Absent
    Blank = Blank
    Spaces = Spaces
    Sandboxes = {"subprocess", "docker"}
    Signs <- ShownSigns
    Variants = {0, 1, 2}
    MaxServed = 3
SPECIFICATION FairSpec
INVARIANTS
    ExerciseTypeOK
    AsksWithinBudget
    FallbackIsDeclared
    FaultsAreNotEvidence
    VerdictIsEarned
PROPERTIES
    NoIdleRepeat
    ExerciseSettles
CHECK_DEADLOCK FALSE

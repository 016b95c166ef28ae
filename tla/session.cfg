\* One page, two handlers, two things that go wrong.
CONSTANTS
    h1 = h1
    h2 = h2
    w1 = w1
    w2 = w2
    Handlers <- TwoHandlers
    Workers <- TwoWorkers
    Free = Free
    Nobody = Nobody
    MaxSessions = 2
    MaxExercises = 2
    MaxTroubles = 2
SPECIFICATION FairSpec
INVARIANTS
    PageTypeOK
    OneRunner
    WorkIsAnnounced
    UnfinishedIsReported
    SavedIsTrue
PROPERTIES
    GradedAsShown
    ImplementsTurn
    TurnEnds
    LocksAreReleased
    AnswerSettles
CHECK_DEADLOCK FALSE

\* One page, two keys, two token loads, two things that go wrong.
CONSTANTS
    WAKE_WINDOW = 2
    TokenLife = 3
    JWT_REFRESH_WINDOW_SECONDS = 1
    CLOCK_LEEWAY_SECONDS = 0
    JWKS_CACHE_SECONDS = 2
    UNKNOWN_KID_REFRESH_SECONDS = 1
    MaxKeys = 2
    Loads <- TwoLoads
    MaxTroubles = 2
SPECIFICATION FairSpec
INVARIANTS
    NeverStranded
    OfflineIsEarned
PROPERTIES
    KeysAreCurrent
    SignInIsNeeded
    StudentArrives
CHECK_DEADLOCK FALSE

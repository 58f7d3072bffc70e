SPECIFICATION FairSpec
CONSTANTS
    i1 = i1
    i2 = i2
    i3 = i3
    Items <- MCItems
    NoItem = NoItem
    Cap = 6
    Ceiling = 5
    MaxEstimate = 3
    MaxAnswer = 2
    ProviderRetries = 1
    MaxSessions = 2
CHECK_DEADLOCK FALSE
INVARIANTS
    FourAnswersPerItem
    OvershootIsOneAnswer
PROPERTIES
    DecidedIsFinal
    SessionsEnd
    ImplementsSynthesisLoop

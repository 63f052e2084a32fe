SPECIFICATION Spec
CONSTANTS
    a1 = a1
    Apps = {a1}
    None = None
    Events <- MCEvents
    FirstSettings <- MCFirstSettings
    SavedSettings <- MCSavedSettings
    MinTimeout = 1
    MaxTimeout = 2
    LegacyTimeout = 3
CHECK_DEADLOCK FALSE
INVARIANTS
    TypeOK
    AnswerTruthful
    NoneSuppressed
    OnlyAsConfigured
    AdvertisedHonoured
    InBudget
PROPERTIES
    EveryRequestEnds

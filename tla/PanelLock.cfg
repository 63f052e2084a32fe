SPECIFICATION Spec
CONSTANTS
    p1 = p1
    p2 = p2
    f1 = f1
    Panels = {p1, p2}
    Profiles = {f1}
    Settings = Settings
    None = None
    Uses <- DialogAndPublish
    MaxVersion = 3
CONSTRAINT Unfinished
INVARIANT TypeOK
PROPERTY NothingUnseenOverwritten
CHECK_DEADLOCK FALSE

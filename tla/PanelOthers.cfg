SPECIFICATION Spec
CONSTANTS
    p1 = p1
    p2 = p2
    f1 = f1
    Panels = {p1, p2}
    Profiles = {f1}
    Settings = Settings
    None = None
    Uses <- PublishBoth
    MaxVersion = 3
PROPERTY OthersWorkKept
CHECK_DEADLOCK FALSE

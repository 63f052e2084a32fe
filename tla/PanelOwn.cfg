SPECIFICATION Spec
CONSTANTS
    p1 = p1
    p2 = p2
    f1 = f1
    Panels = {p1}
    Profiles = {f1}
    Settings = Settings
    None = None
    Uses <- Alone
    MaxVersion = 3
PROPERTY OwnWorkKept
CHECK_DEADLOCK FALSE

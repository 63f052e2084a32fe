SPECIFICATION Spec
CONSTANTS
    MaxVersion = 2
    MaxKills = 2
CHECK_DEADLOCK FALSE
INVARIANTS
    BootstrapWorks

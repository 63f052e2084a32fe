SPECIFICATION Spec
CONSTANTS
    None = None
    IdentityFields <- MCIdentityFields
    EnvAdapter <- Environment
    EnvBase = "https"
    ValidBases = {"https", "other"}
    Publishes <- MCPublishes
    Saves <- MCSaves
INVARIANTS
    TypeOK
    EntriesSubmittable
    EntryCountedApart
    CardsHaveSources
    ScannersTakeSomething
    BackendReplaceable
    RetriesNeverDuplicate
    LaterSavesAccepted
PROPERTIES
    ProfilesKept

SPECIFICATION Spec
CONSTANTS
    a = a
    b = b
    c = c
    Publishers = {a, b, c}
    Readers = {r}
    p1 = p1
    p2 = p2
    k1 = k1
    Profiles = {p1, p2}
    Caps = {k1}
    Absent = Absent
    Earlier <- MCEarlier
    MaxVersion = 4
    MaxCrashes = 1
    Requests <- MCRequests
CHECK_DEADLOCK FALSE
INVARIANTS
    TypeOK
    PointedSnapshotExists
    AnswerTruthful
    ConflictHasCause
    CatalogExecutable
PROPERTIES
    NoLostUpdate
    AtomicRegister
    EveryRequestEnds

\* Two preparations, one of which loses its resource to the other.
SPECIFICATION Spec
CONSTANTS
    Sessions = {s1, s2}
    Preparations = {p1, p2}
    Files = {f1, f2}
    FirstScan = 1
    MaxScan = 2
    MaxConfig = 1
    KvkStart = 2
    NoPreparation = NoPreparation
    NoFile = NoFile
    Nobody = Nobody
SYMMETRY Symmetry
INVARIANTS
    TypeOK
    OutcomeInvariant
PROPERTIES
    CompletionIsOwned
    ImplementsOutcomes

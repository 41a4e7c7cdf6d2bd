\* One preparation and two sessions, with legacy imports of two files, a
\* configuration change and a KVK that starts with the second scan.
SPECIFICATION Spec
CONSTANTS
    Sessions = {s1, s2}
    Preparations = {p1}
    Files = {f1, f2}
    FirstScan = 1
    MaxScan = 3
    MaxConfig = 2
    KvkStart = 3
    NoPreparation = NoPreparation
    NoFile = NoFile
    Nobody = Nobody
SYMMETRY Symmetry
INVARIANTS
    ReceiptsAgree
    CompletedIsArchived
PROPERTIES
    CompletionIsCoherent
    ReceiptsMoveUnderLock

\* Two sessions, two file names and two contents, so that both names can
\* carry the same bytes; the producer and the operators keep the rules.
SPECIFICATION Spec
CONSTANTS
    Sessions = {s1, s2}
    Files = {f1, f2}
    Bytes = {b1, b2}
    Malformed = {}
    MaxScan = 4
    History4 = {2}
    History5 = {2}
    Republish = FALSE
    Tamper = FALSE
    NoBytes = NoBytes
    OldBytes = OldBytes
    NoFile = NoFile
    Nobody = Nobody
SYMMETRY Symmetry
INVARIANTS
    TypeOK
    OneScanPerContent
    BoundBytesStay
    ArchivedIsEvidence
    EveryScanPromoted
PROPERTIES
    ClaimAdvances
    DigestIsBoundOnce
    ImplementsLedger

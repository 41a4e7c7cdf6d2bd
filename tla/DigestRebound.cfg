\* A claimed file that changed after its digest was bound is claimed again.
SPECIFICATION Spec
CONSTANTS
    Sessions = {s1}
    Files = {f1}
    Bytes = {b1, b2}
    Malformed = {}
    MaxScan = 3
    History4 = {1}
    History5 = {1}
    Republish = FALSE
    Tamper = TRUE
    NoBytes = NoBytes
    OldBytes = OldBytes
    NoFile = NoFile
    Nobody = Nobody
PROPERTIES
 DigestIsBoundOnce

\* The first import into empty scan tables.
SPECIFICATION Spec
CONSTANTS
    Sessions = {s1}
    Files = {f1}
    Bytes = {b1, b2}
    Malformed = {}
    MaxScan = 3
    History4 = {}
    History5 = {}
    Republish = FALSE
    Tamper = FALSE
    NoBytes = NoBytes
    OldBytes = OldBytes
    NoFile = NoFile
    Nobody = Nobody
INVARIANTS
 EveryScanPromoted

\* Two sessions retry one name until it is closed, with any number of
\* failures before they stop.
SPECIFICATION FairSpec
CONSTANTS
    Sessions = {s1, s2}
    Files = {f1}
    Bytes = {b1}
    Malformed = {}
    MaxScan = 2
    History4 = {1}
    History5 = {1}
    Republish = FALSE
    Tamper = FALSE
    NoBytes = NoBytes
    OldBytes = OldBytes
    NoFile = NoFile
    Nobody = Nobody
PROPERTIES
    EveryFileSettles

\* One file name and two sessions, with every rule of the file protocol
\* broken: names are published again and SQL-owned files are rewritten.
SPECIFICATION Spec
CONSTANTS
    Sessions = {s1, s2}
    Files = {f1}
    Bytes = {b1, b2}
    Malformed = {b2}
    MaxScan = 2
    History4 = {1}
    History5 = {1}
    Republish = TRUE
    Tamper = TRUE
    NoBytes = NoBytes
    OldBytes = OldBytes
    NoFile = NoFile
    Nobody = Nobody
INVARIANTS
    PipelineInvariant

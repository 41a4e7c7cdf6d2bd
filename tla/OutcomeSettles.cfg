\* One preparation is recovered until it is finished, after any number of
\* failures, against legacy calls of two files.
SPECIFICATION FairSpec
CONSTANTS
    Sessions = {s1, s2}
    Preparations = {p1}
    Files = {f1, f2}
    FirstScan = 1
    MaxScan = 2
    MaxConfig = 1
    KvkStart = 1
    NoPreparation = NoPreparation
    NoFile = NoFile
    Nobody = Nobody
PROPERTIES
    CommittedIsFinished

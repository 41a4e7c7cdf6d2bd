\* Each rehearsal, with no call over its timeout and with any call over it.
SPECIFICATION AllSpec
CONSTANTS
    NoOne = NoOne
    Runners <- Processes
    Calls <- AllCalls
    Items <- AllItems
    Attempts <- SixAttempts
    AttemptBound = 256
    Programs <- Rehearsals
    Fixture = {"902_fixture"}
CHECK_DEADLOCK FALSE
INVARIANTS
    EvidenceIsTrue
PROPERTIES
    Passes
    LeavesNothing

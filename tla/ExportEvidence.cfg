\* One or two jobs that write the same file, two streams, one or two requests.
SPECIFICATION ExportSpec
CONSTANTS
    s1 = s1
    s2 = s2
    q1 = q1
    q2 = q2
    acct = acct
    f1 = f1
    None = None
    Jobs = {j1, j2}
    Streams = {s1, s2}
    Requests = {q1, q2}
    Sessions = {1}
    Accounts = {acct}
    Files = {f1}
    AccountOf <- OneAccount
    FilesOf <- SameFile
    Purposes = {"mutation", "probe"}
    MaxFence = 2
SYMMETRY Symmetric
CONSTRAINT Within
CHECK_DEADLOCK FALSE
INVARIANTS
    ExportTypeOK
    OneOutstanding
    SealIsComplete
    CloseoutIsKnown
    ContainedHoldsNothing
PROPERTIES
    DispatchIsOwned
    ImplementsEvidence

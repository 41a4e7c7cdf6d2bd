\* Two processes, two releases of one migration, drift anywhere.
SPECIFICATION ReleaseSpec
CONSTANTS
    NoOne = NoOne
    r1 = r1  r2 = r2
    a1 = a1  a2 = a2  a3 = a3
    m1 = m1  i1 = i1  i2 = i2
    pinA = pinA  pinB = pinB  relA = relA  relB = relB
    Runners = {r1, r2}
    Calls <- TableCalls
    Items = {i1}
    Attempts = {a1, a2, a3}
    AttemptBound = 2
SYMMETRY Symmetric
CHECK_DEADLOCK FALSE
INVARIANTS
    ReleaseTypeOK
    OneWriter
    ReceiptsLinked
    RolledBackIsFinal
    ZeroIsMine
PROPERTIES
    OverReviewed
    LedgerSpec

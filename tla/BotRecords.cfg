\* Three triggers and two workers, with an age and a retention shorter than the
\* clock; or two events with one kind of board, two rows and two sessions.
SPECIFICATION RecordsSpec
CONSTANTS
    w1 = w1
    w2 = w2
    Nobody = Nobody
    Workers = {w1, w2}
    Triggers <- ThreeTriggers
    MaxAge = 1
    Retention = 1
    MaxTime = 4
    s1 = s1
    s2 = s2
    e1 = e1
    e2 = e2
    r1 = r1
    r2 = r2
    None = None
    Sessions = {s1, s2}
    Events = {e1, e2}
    Entries = {r1, r2}
    Boards = {"signup"}
SYMMETRY Symmetry
CONSTRAINT Within
CHECK_DEADLOCK FALSE
INVARIANTS
    OneMarks
    InventoryWhole
PROPERTIES
    ForgottenStays
    FrozenStays

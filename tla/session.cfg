SPECIFICATION SessionSpec
CONSTANTS
    Sessions = {s1, s2}
    Calls = {p1, p2, p3}
    Faults = {"redis", "mongo", "crash"}
    TTL = 1
    MaxCalls = 4
    MaxTime = 2
    Absent = Absent
SYMMETRY SSym
INVARIANTS CacheIsBacked NotFoundOnlyIfExpired InvalidatedUnlessRaced
CHECK_DEADLOCK FALSE

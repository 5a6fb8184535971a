SPECIFICATION LookupSpec
CONSTANTS
    Clients = {c1, c2}
    RMs = {r1, r2}
    Calls = {q1, q2}
    Persons <- MCPersons
    Asks <- MCAsks
    StopWords <- MCStopWords
    Special <- MCSpecial
    FuzzyLimit = 1
    MaxCalls = 2
    MaxChanges = 1
    MaxFaults = 1
SYMMETRY Symmetric
INVARIANTS RightClient FoundIfThere
CHECK_DEADLOCK FALSE

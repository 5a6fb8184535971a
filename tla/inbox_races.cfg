SPECIFICATION InboxSpec
CONSTANTS
    r1 = r1
    c1 = c1
    m1 = m1
    m2 = m2
    Rules = {r1}
    Clients = {c1}
    RMs = {m1, m2}
    AlertIds = {a1}
    Evals = {e1}
    Requests = {q1, q2}
    MaxRequests = 2
    ShortLife = 1
    LongLife = 7
    RmOf <- AllToM1
    Cooldown <- Cooldown1
    Severity <- HighSeverity
    PocRules <- PocR1
    ServiceRules = {}
    Faults = {"redis", "crash"}
    Retries = 0
    MaxCandidates = 1
    MaxEvaluations = 1
    MaxTime = 2
    Absent = Absent
SYMMETRY Sym
INVARIANTS MissingOnlyIfExpired
PROPERTIES OnlyTheOwnerChangesIt
CHECK_DEADLOCK FALSE

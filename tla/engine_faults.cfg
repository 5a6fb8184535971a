SPECIFICATION Spec
CONSTANTS
    r1 = r1
    r2 = r2
    c1 = c1
    c2 = c2
    m1 = m1
    Rules = {r1}
    Clients = {c1}
    RMs = {m1}
    AlertIds = {a1, a2, a3}
    Evals = {e1, e2}
    RmOf <- OneRm
    Cooldown <- Cooldown2
    Severity <- HighSeverity
    PocRules <- PocR1
    ServiceRules = {r1}
    Faults = {"redis", "mongo", "lost", "kafka", "crash"}
    Retries = 1
    MaxCandidates = 2
    MaxEvaluations = 3
    MaxTime = 2
    Absent = Absent
SYMMETRY Sym
INVARIANTS NoDuplicateUnlessLapsed NoUnfoundedCooldown PublishedOnce
PROPERTIES ImplementsPromise
CHECK_DEADLOCK FALSE

SPECIFICATION PipelineSpec
CONSTANTS
    r1 = r1
    c1 = c1
    c2 = c2
    m1 = m1
    m2 = m2
    Rules = {r1}
    Clients = {c1, c2}
    RMs = {m1, m2}
    AlertIds = {a1, a2}
    Evals = {e1}
    RmOf <- TwoRms
    Cooldown <- Cooldown1
    Severity <- HighSeverity
    PocRules <- PocR1
    ServiceRules = {}
    Faults = {}
    Retries = 0
    MaxCandidates = 1
    MaxEvaluations = 1
    MaxTime = 0
    Absent = Absent
    Sockets = {s1}
    Trouble = {}
    MaxRestarts = 1
    MaxJoins = 1
    RuleChannels <- AskBoth
INVARIANTS DispatchedAsRequested
CHECK_DEADLOCK FALSE

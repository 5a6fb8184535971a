SPECIFICATION FairPipelineSpec
CONSTANTS
    r1 = r1
    c1 = c1
    c2 = c2
    m1 = m1
    m2 = m2
    Rules = {r1}
    Clients = {c1}
    RMs = {m1}
    AlertIds = {a1, a2}
    Evals = {e1, e2}
    RmOf <- OneRm
    Cooldown <- Cooldown1
    Severity <- HighSeverity
    PocRules <- PocR1
    ServiceRules = {}
    Faults = {"redis"}
    Retries = 1
    MaxCandidates = 1
    MaxEvaluations = 2
    MaxTime = 0
    Absent = Absent
    Sockets = {}
    Trouble = {}
    MaxRestarts = 0
    MaxJoins = 0
    RuleChannels <- AskBoth
PROPERTIES ImplementsDelivery RaisedGetsReceipt EvaluationEnds CandidateCovered PersistedIsPublished
CHECK_DEADLOCK FALSE

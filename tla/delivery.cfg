SPECIFICATION FairDeliverySpec
CONSTANTS
    RMs = {m1, m2}
    Sockets = {s1}
    AlertIds = {a1}
    Payloads <- MixedPayloads
    Trouble = {"crash", "kafka", "voice", "init"}
    Retries = 1
    MaxRestarts = 2
    MaxJoins = 2
    Absent = Absent
INVARIANTS RepeatedCallsNeedRedelivery SocketSeesOrderedAlerts
PROPERTIES NothingSkipped EveryMessageHandled
CHECK_DEADLOCK FALSE

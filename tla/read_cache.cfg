SPECIFICATION CacheSpec
CONSTANTS
    Readers = {p1, p2}
    AtOnce <- TwoAtOnce
    Ttl <- MCTtl
    Span = 1
    Horizon = 4
    Faults = {"redis", "mongo", "forget", "crash"}
    Figures = {0, 2}
    Others <- OneOther
    None = None
SYMMETRY CSym
INVARIANTS BriefingFixedUnlessExcused
PROPERTIES AnswersAgeBounded ImpossiblePercentileFades
CHECK_DEADLOCK FALSE

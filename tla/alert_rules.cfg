SPECIFICATION RulesSpec
CONSTANTS
    c1 = c1
    c2 = c2
    Cases <- MCCases
    Horizon = 28
    LeapYear = 1
    DividendLimit = 1
INVARIANTS AnnouncedInTime FoundByTheCalendar
CHECK_DEADLOCK FALSE

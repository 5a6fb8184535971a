SPECIFICATION ScreensSpec
CONSTANTS
    Situations <- MCSituations
    LastHour = 1024
    Strides = {8, 24}
    ListLimit = 2
    ShortLimit = 2
    TopLimit = 3
    MoverLimit = 1
    MeetingLimit = 1
    Months <- MCMonths
INVARIANTS AlertsOnScreens BriefingKeepsCritical StandingAgrees StreakMatchesTrend PeriodsAddUp AnswersAddUp
PROPERTIES AgeingNeverDemotes
CHECK_DEADLOCK FALSE

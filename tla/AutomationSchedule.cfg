SPECIFICATION FairSpec
CONSTANTS
    Plans <- MCPlans
    Every = 3
    OnceAt = 3
    MaxRuns = 2
    FailureLimit = 2
    MaxTime = 7
    MaxCrashes = 2
INVARIANTS
    AutomationTypeOK
    OffStaysOff
PROPERTIES
    FiredOnce
    CalendarGoesOn
CHECK_DEADLOCK FALSE

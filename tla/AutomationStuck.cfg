SPECIFICATION Spec
CONSTANTS
    Plans <- MCInterval
    Every = 3
    OnceAt = 3
    MaxRuns = 0
    FailureLimit = 5
    MaxTime = 9
    MaxCrashes = 0
INVARIANT NeverStuck

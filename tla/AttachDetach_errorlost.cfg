\* Violation: a conflict on the failure write makes the retry run updateError with err already reset to nil.
CONSTANTS
    r1 = r1
    r2 = r2
    w1 = w1
    w2 = w2
    Records = {r1}
    Workers = {w1, w2}
    VAAnnotated = {FALSE}
    RoleChanges <- PromoteOnly
    MaxFailures = 2
    MaxCrashes = 0
    Origins = {"scheduler"}
    ApiErrorSites = {}
    MaxApiErrors = 0
SPECIFICATION Spec
CHECK_DEADLOCK FALSE
PROPERTY ErrorRecorded

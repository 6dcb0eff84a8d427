\* Violation: a crash while a goroutine runs leaves the record in Attaching/Detaching for good.
CONSTANTS
    r1 = r1
    r2 = r2
    w1 = w1
    w2 = w2
    Records = {r1}
    Workers = {w1, w2}
    VAAnnotated = {FALSE}
    RoleChanges <- PromoteOnly
    MaxFailures = 2
    MaxCrashes = 1
    Origins = {"scheduler"}
    ApiErrorSites = {"goroutine"}
    MaxApiErrors = 1
SPECIFICATION Spec
CHECK_DEADLOCK FALSE
PROPERTY OperationsComplete

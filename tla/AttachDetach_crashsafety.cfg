\* A controller restart in the middle of an operation: the controller still implements the abstract lifecycle and no operation loses its record.
CONSTANTS
    r1 = r1
    r2 = r2
    w1 = w1
    w2 = w2
    Records = {r1}
    Workers = {w1, w2}
    VAAnnotated = {FALSE}
    RoleChanges <- PromoteOnly
    MaxFailures = 1
    MaxCrashes = 1
    Origins = {"scheduler", "recovery"}
    ApiErrorSites = {"worker", "goroutine"}
    MaxApiErrors = 1
SPECIFICATION Spec
INVARIANT AtMostOneOperation
 
CHECK_DEADLOCK FALSE

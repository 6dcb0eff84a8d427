\* Violation: with one worker, a Reconcile on a stale cached copy releases the finalizer while an attach runs.
CONSTANTS
    r1 = r1
    r2 = r2
    w1 = w1
    w2 = w2
    Records = {r1}
    Workers = {w1}
    VAAnnotated = {TRUE}
    RoleChanges <- PromoteOnly
    MaxFailures = 2
    MaxCrashes = 0
    Origins = {"scheduler"}
    ApiErrorSites = {}
    MaxApiErrors = 0
SPECIFICATION Spec
CHECK_DEADLOCK FALSE
INVARIANT OperationRecordExists

\* A deletion request racing a Reconcile that decided to attach from the cache.
CONSTANTS
    r1 = r1
    r2 = r2
    w1 = w1
    w2 = w2
    Records = {r1}
    Workers = {w1, w2}
    VAAnnotated = {FALSE}
    RoleChanges <- PromoteOnly
    MaxFailures = 1
    MaxCrashes = 0
    Origins = {"scheduler"}
    ApiErrorSites = {}
    MaxApiErrors = 0
SPECIFICATION Spec
PROPERTY NoAttachAfterDeletion
CHECK_DEADLOCK FALSE

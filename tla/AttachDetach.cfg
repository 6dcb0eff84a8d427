\* Core run: one record created by the scheduler or by Recover, two workers, provisioner failures, promotion, the VolumeAttachment annotation present or absent.
CONSTANTS
    r1 = r1
    r2 = r2
    w1 = w1
    w2 = w2
    Records = {r1}
    Workers = {w1, w2}
    VAAnnotated = {TRUE, FALSE}
    RoleChanges <- PromoteOnly
    MaxFailures = 2
    MaxCrashes = 0
    Origins = {"scheduler", "recovery"}
    ApiErrorSites = {"worker"}
    MaxApiErrors = 1
SPECIFICATION Spec
INVARIANT TypeOK
INVARIANT AtMostOneOperation
PROPERTY OperationsComplete
PROPERTY DeletionCompletes
PROPERTY Converges
CHECK_DEADLOCK FALSE

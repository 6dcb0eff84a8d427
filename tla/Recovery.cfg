\* Recover with two VolumeAttachments of every kind, transient errors and one restart.
CONSTANTS
    v1 = v1
    v2 = v2
    VAs = {v1, v2}
    MaxRetry = 2
    MaxErrors = 3
    MaxRestarts = 1
SYMMETRY Sym
SPECIFICATION Spec
INVARIANT TypeOK
INVARIANT RecoveredRecords
CHECK_DEADLOCK FALSE

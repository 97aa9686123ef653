CONSTANTS
    LogBatchSize = 2
    LogChanCap = 2
    AutoCommitCap = 1
    InsertMayFail = FALSE
    MaxLogs = 4

SPECIFICATION Spec

INVARIANT
    FullBatchStored

CHECK_DEADLOCK FALSE

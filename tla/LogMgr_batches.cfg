CONSTANTS
    LogBatchSize = 3
    LogChanCap = 2
    AutoCommitCap = 1
    InsertMayFail = FALSE
    MaxLogs = 7

SPECIFICATION FairSpec

INVARIANTS
    TypeOK
    CurrentBatchTimed
    OneCommitPerBatch
    PartialBatchesKept

PROPERTY
    LogSettles

CHECK_DEADLOCK FALSE

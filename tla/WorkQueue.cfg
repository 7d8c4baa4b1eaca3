CONSTANTS
    QSize = 4
    BatchMin = 2
    BatchMax = 3
    BatchedOps = {"WT_EMIT_BITS", "WT_DUMPON"}
    NoItem = NoItem
    MaxCalls = 6
    MaxTime = 1
SPECIFICATION FairSpec
INVARIANTS TypeOK NoOverlap StringsOwned NoLostWakeup
PROPERTIES StableItem SyncDrains ImplementsChannel CallsReturn PublishedCarriedOut

CONSTANTS
    Batches <- MCBatches
    Product <- MCProduct
    Initial <- MCInitial
    Sold <- MCSold
    Expiry <- MCExpiry
    Today = 1
    Jobs <- MCJobs
    Job <- MCJob
    Free = Free
SPECIFICATION FairSpec
INVARIANTS
    UpdatesCountOnce
    NoWaitCycle
PROPERTIES
    EarlierFoundEmptied
    EveryJobEnds

CONSTANTS
    Clients = {c1, c2}
    Scheduler = s
    MaxJobs = 2
    MaxCrashes = 2
    Free = Free
SPECIFICATION FairSpec
INVARIANT
    OneLiveJob
PROPERTY
    EveryJobEnds

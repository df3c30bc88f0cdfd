CONSTANTS
    Refreshers = {r1, r2}
    MaxMonth = 2
    MaxAmount = 1
    MaxChanges = 2
    MaxReviews = 3
    MaxFits = 3
    MIN_MONTHS = 1
    EvidenceMonths = 1
    TARGET_PERCENT = 101
    FitResults = {"accurate", "failed"}
    None = None
SPECIFICATION LifecycleSpec
INVARIANTS
    PublishedNeverChanges
    EvidenceIsCurrent
PROPERTY
    DeployedFromCurrentLedger
CHECK_DEADLOCK FALSE

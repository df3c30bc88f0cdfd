SPECIFICATION Spec
CONSTANTS
    Engines = {"graph", "projection", "selection"}
    Units = {"monthly", "weekly"}
    DaysPerPeriod = 2
    BusinessDays = {5, 6, 8}
    FitOutcomes = {{"regular", "feeding"}, {"feeding"}}
    MaxAmount = 1
    ChangedPeriods = {1, 3}
    MaxChanges = 1
    MaxReviews = 1
    MaxFits = 1
    MaxRuns = 2
    MIN_PERIODS = 2
    MinObserved = 1
    Radius = 1
    Outlook = 3
    LookBack = 1
    Steps = 1
    Trainers = {"weekly", "monthly", "short", "graph"}
    HistoryLengths = {2, 3}
    MIN_TRAIN = 1
    VALIDATION = 1
    TEST = 1
    MaxCorrections = 1
    None = None
INVARIANTS
    GraphIsHonest
    ProjectionsCurrent
    SelectionIsEarned
PROPERTY
    PastForecastFrozen
CHECK_DEADLOCK FALSE

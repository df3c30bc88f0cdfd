CONSTANTS
    Requests = {r1, r2, r3}
    Attempts <- MCAttempts
    NoKey = NoKey
    None = None
    Units = 2
SPECIFICATION FairSubmissionSpec
INVARIANT
    KeyTakesEffectOnce
PROPERTIES
    ImplementsService
    EveryRequestAnswered

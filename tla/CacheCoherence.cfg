CONSTANTS
    Readers = {r1, r2, t1}
    Writers = {w1, w2}
    Autocommit = {w2}
    RECOVERY_BATCH_SIZE = 1
    MaxLost = 1
    Streams = {t1}
    MaxChecks = 2
    MaxBeside = 1
SPECIFICATION StreamSpec
INVARIANTS
    ReadsFresh
    NoChangeMissed
SYMMETRY Symmetry
CHECK_DEADLOCK FALSE

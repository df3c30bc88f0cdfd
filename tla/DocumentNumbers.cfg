CONSTANTS
    Years <- MCYears
    Sales = {s1, s2, s3}
    Asks <- MCAsks
    Blank = Blank
    PastNumbers <- MCHistory
    MaxValue = 4
    Free = Free
    Deliveries = {d1, d2, d3}
    Months = {1, 2}
    Nobody = Nobody
SPECIFICATION NumbersSpec
INVARIANTS
    AutomaticNumbersGrow
    NumbersNeverCollide
PROPERTIES
    NumberIsNew
    EveryRequestEnds

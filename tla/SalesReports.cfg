CONSTANTS
    Admin = Admin
    s1 = s1
    Staff = {s1}
    Absent = Absent
    None = None
    milk = milk
    cheese = cheese
    fresh = fresh
    dairy = dairy
    feed = feed
    ana = ana
    Customers = {ana}
    Products = {milk, cheese}
    Names = {milk, cheese}
    Variants = {fresh}
    FirstVariant <- MCFirstVariant
    Categories = {dairy, feed}
    Carts <- MCCarts
    Payloads <- MCPayloads
    FirstCategory <- MCFirstCategory
    History <- MCHistory
    Ranges <- MCRanges
    Senders = {q1}
    Askers = {k1, k2}
    LastDay = 2
    MaxSales = 1
    MaxEdits = 1
    MaxVersion = 2
    WeekLength = 2
    MonthLength = 2
SPECIFICATION Spec
INVARIANT
    ReportsAgree
PROPERTIES
    AnswersAreOwn
    RecordsStand
SYMMETRY Symmetry
CHECK_DEADLOCK FALSE

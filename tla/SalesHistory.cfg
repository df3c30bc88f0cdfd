CONSTANTS
    None = None
    Unreadable = Unreadable
    Sheets = {"jan", "may"}
    MonthOf <- MCMonthOf
    DuplicateSheets <- MCDuplicateSheets
    Rows <- MCRows
    MaxRows = 3
    CustomerNameOf <- MCCustomerNameOf
    CustomerKeyOf <- MCCustomerKeyOf
    TruncatedYear = 223
    RestoredYear = 2023
    CancelledLabels = {"AnaCancelled"}
    FeedingLabels = {"Feeding"}
    ProductKeyOf <- MCProductKeyOf
    DairyKeys = {"milk"}
    SizeCodes <- MCSizeCodes
    SizeLabels = {"size"}
    Tolerance = 0
    ProductIds = {"Milk", "MilkForm", "Sweet", "size"}
    CustomerIds = {"Ana", "AnaA", "Feeding", "second", "spare", "spareToo"}
    ProductAge <- MCProductAge
    CustomerAge <- MCCustomerAge
    NameLength <- MCNameLength
    KnownGroups = {"ana"}
    Canonical <- MCCanonical
    OlderName <- MCOlderName
    AuditedReference <- MCAudited
    LiveIds <- MCLive
    Carts <- MCCarts
    SpareId <- MCSpareId
    DemoIds <- MCDemo
    MaxImported = 2
    MaxUses = 2
    MaxCommands = 2
    NewCustomers = {"second"}
    Contact = {"x", "y"}
SPECIFICATION Spec
INVARIANTS
    ImportIsFaithful
    RowsAgree
    HistoryIsThePlan
PROPERTY
    MaintenanceKeeps
CHECK_DEADLOCK FALSE

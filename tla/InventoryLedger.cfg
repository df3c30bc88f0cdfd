CONSTANTS
    Products = {p}
    NumBatches = 2
    NumSales = 1
    MaxQty = 2
    MaxDay = 1
    ShelfLife = 0
    Legacy = {1}
SPECIFICATION LedgerSpec
INVARIANTS
    TypeOK
    StockWithinReceipt
    StatusMatchesStock
    Conservation
    ReturnsMatchVoids
    RangeReportReconstructs
PROPERTY
    WrittenOffIsFinal

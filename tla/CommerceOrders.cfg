SPECIFICATION FairSpec
CONSTANTS
    Orders = {o1, o2}
    NoOrder = nothing
    Capacities = {1, 2}
    MaxQuantity = 1
    Stock = 1
    HoldTime = 1
    ReviewTime = 1
    Methods = {"payhere", "bank_transfer", "cash"}
    Codes = {"paid", "failed", "charged_back"}
CONSTRAINT OneKind
INVARIANT TypeOK
INVARIANT NeverOversold
PROPERTY AdmittedOnce
INVARIANT TicketMoneyMatchesOrder
PROPERTY StockMovesWithHolds
PROPERTY ReleasedStaysReleased
PROPERTY AbandonedOrdersEnd
CHECK_DEADLOCK FALSE

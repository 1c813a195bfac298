SPECIFICATION Spec
CONSTANTS
    p1 = p1
    p2 = p2
    good = good
    damaged = damaged
    c1 = c1
    c2 = c2
    Clients = {c1}
    NumLines = 2
    ProductOf <- TwoLines
    Keys = {good, damaged}
    KeyProduct <- TwoProducts
    Ordered = {1}
    Quantities = {1, 2}
    MaxOrders = 1
    MaxReceipts = 2
    MaxReceiptLines = 1
    MaxEdits = 1
INVARIANTS
    StockMatchesReceipts
    StatusMatchesReceived
    OrderMatchesReceipts
CHECK_DEADLOCK FALSE

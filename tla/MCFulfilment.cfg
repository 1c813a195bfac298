SPECIFICATION Spec
CONSTANTS
    p1 = p1
    p2 = p2
    c1 = c1
    c2 = c2
    Clients = {c1}
    NumLines = 1
    ProductOf <- OneLine
    NumRows = 2
    RowProduct <- OneProduct
    ExpiresAt <- Expiry
    ReceivedAt <- Receipt
    Method <- Picking
    Opening <- Stock21
    Quantities = {2}
    MaxRequests = 1
    MaxIssues = 2
    MaxReturns = 2
    MaxEdits = 1
INVARIANTS
    ReservationsNet
    StockMatchesDocuments
    RequestMatchesIssues
    ReturnedAtMostPicked
CHECK_DEADLOCK FALSE

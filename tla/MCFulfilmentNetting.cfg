SPECIFICATION Spec
CONSTANTS
    p1 = p1
    p2 = p2
    c1 = c1
    c2 = c2
    Clients = {c1}
    NumLines = 1
    ProductOf <- OneLine
    NumRows = 2
    RowProduct <- OneProduct
    ExpiresAt <- Expiry
    ReceivedAt <- Receipt
    Method <- Picking
    Opening <- Stock21
    Quantities = {1}
    MaxRequests = 1
    MaxIssues = 3
    MaxReturns = 0
    MaxEdits = 1
INVARIANTS
    NothingFromNothing
CHECK_DEADLOCK FALSE

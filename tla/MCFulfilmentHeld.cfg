SPECIFICATION Spec
CONSTANTS
    p1 = p1
    p2 = p2
    c1 = c1
    c2 = c2
    Clients = {c1}
    NumLines = 2
    ProductOf <- TwoLines
    NumRows = 2
    RowProduct <- TwoProducts
    ExpiresAt <- Expiry
    ReceivedAt <- Receipt
    Method <- Picking
    Opening <- Stock22
    Quantities = {1, 2}
    MaxRequests = 1
    MaxIssues = 1
    MaxReturns = 0
    MaxEdits = 0
INVARIANTS
    FulfilledHoldsNothing
CHECK_DEADLOCK FALSE

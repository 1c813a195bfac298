SPECIFICATION Spec
CONSTANTS
    p1 = p1
    p2 = p2
    c1 = c1
    c2 = c2
    Clients = {c1}
    NumLines = 2
    ProductOf <- SameLines
    NumRows = 1
    RowProduct <- OneRow
    ExpiresAt <- Expiry1
    ReceivedAt <- Receipt1
    Method <- Picking
    Opening <- Stock2
    Quantities = {1}
    MaxRequests = 1
    MaxIssues = 1
    MaxReturns = 0
    MaxEdits = 0
INVARIANTS
    FulfilledIsIssued
CHECK_DEADLOCK FALSE

SPECIFICATION Spec
CONSTANTS
    p1 = p1
    p2 = p2
    c1 = c1
    c2 = c2
    Clients = {c1, c2}
    NumLines = 1
    ProductOf <- OneLine
    NumRows = 1
    RowProduct <- OneRow
    ExpiresAt <- Expiry1
    ReceivedAt <- Receipt1
    Method <- Picking
    Opening <- Stock2
    Quantities = {1}
    MaxRequests = 1
    MaxIssues = 2
    MaxReturns = 2
    MaxEdits = 0
SYMMETRY ClientSymmetry
INVARIANTS
    ReturnsCounted
CHECK_DEADLOCK FALSE

\* Each property fails; TLC stops at the first, so name one at a time.
SPECIFICATION Spec
CONSTANTS
    p1 = p1
    p2 = p2
    c1 = c1
    c2 = c2
    Clients = {c1}
    NumLines = 1
    ProductOf <- OneLine
    NumRows = 2
    RowProduct <- OneProduct
    ExpiresAt <- Expiry
    ReceivedAt <- Receipt
    Method <- Picking
    Opening <- Stock11
    Quantities = {1}
    MaxRequests = 2
    MaxIssues = 2
    MaxReturns = 0
    MaxEdits = 0
INVARIANTS
    AvailableNotNegative
PROPERTIES
    RequestTransitions
CHECK_DEADLOCK FALSE

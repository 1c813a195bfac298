\* Each property fails; TLC stops at the first, so name one at a time.
SPECIFICATION Spec
CONSTANTS
    p1 = p1
    p2 = p2
    c1 = c1
    c2 = c2
    Clients = {c1, c2}
    NumLines = 1
    ProductOf <- OneLine
    NumRows = 2
    RowProduct <- OneProduct
    ExpiresAt <- Expiry
    ReceivedAt <- Receipt
    Method <- Picking
    Opening <- Stock11
    Quantities = {1}
    MaxRequests = 1
    MaxIssues = 2
    MaxReturns = 0
    MaxEdits = 1
SYMMETRY ClientSymmetry
INVARIANTS
    ReservationsNet
PROPERTIES
    PostedIssueUnchanged
    IssueTransitions
CHECK_DEADLOCK FALSE

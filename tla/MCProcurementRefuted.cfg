\* Each property fails; TLC stops at the first, so name one at a time.
SPECIFICATION Spec
CONSTANTS
    p1 = p1
    p2 = p2
    good = good
    damaged = damaged
    c1 = c1
    c2 = c2
    Clients = {c1, c2}
    NumLines = 1
    ProductOf <- OneLine
    Keys = {good}
    KeyProduct <- OneProduct
    Ordered = {1, 2}
    Quantities = {1}
    MaxOrders = 1
    MaxReceipts = 2
    MaxReceiptLines = 1
    MaxEdits = 1
SYMMETRY ClientSymmetry
INVARIANTS
    NotOverReceived
PROPERTIES
    ReceivedWhileApproved
    EditedWhileDraft
    DocumentTransitions
CHECK_DEADLOCK FALSE

\* Each property fails; TLC stops at the first, so name one at a time.
SPECIFICATION Spec
CONSTANTS
    locA = locA
    locB = locB
    lot1 = lot1
    c1 = c1
    c2 = c2
    Clients = {c1, c2}
    Places = {locA, locB}
    WarehouseOf <- OneWarehouse
    Goods = {lot1}
    Opening <- Stock20
    Quantities = {1}
    MaxTransfers = 3
    MaxItems = 1
SYMMETRY ClientSymmetry
INVARIANTS
    TravellingIsInTransit
    ReversedOnce
PROPERTIES
    TransferTransitions
CHECK_DEADLOCK FALSE

SPECIFICATION Spec
CONSTANTS
    locA = locA
    locB = locB
    lot1 = lot1
    c1 = c1
    c2 = c2
    Clients = {c1, c2}
    Places = {locA, locB}
    WarehouseOf <- TwoWarehouses
    Goods = {lot1}
    Opening <- Stock20
    Quantities = {1}
    MaxTransfers = 3
    MaxItems = 1
SYMMETRY ClientSymmetry
INVARIANTS
    StockConserved
CHECK_DEADLOCK FALSE

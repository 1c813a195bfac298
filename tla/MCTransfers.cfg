SPECIFICATION Spec
CONSTANTS
    locA = locA
    locB = locB
    lot1 = lot1
    c1 = c1
    c2 = c2
    Clients = {c1}
    Places = {locA, locB}
    WarehouseOf <- OneWarehouse
    Goods = {lot1}
    Opening <- Stock20
    Quantities = {1, 2}
    MaxTransfers = 2
    MaxItems = 2
INVARIANT
    StockMatchesTransfers
PROPERTY
    ReversalUndoes
CHECK_DEADLOCK FALSE

SPECIFICATION Selects
CONSTANTS
    MaxRows = 3
    MaxQuantity = 2
    MaxDate = 2
INVARIANTS
    AllocationIsComplete
    AllocationIsOrdered
CHECK_DEADLOCK FALSE

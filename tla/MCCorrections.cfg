SPECIFICATION Spec
CONSTANTS
    row1 = row1
    row2 = row2
    c1 = c1
    c2 = c2
    Clients = {c1}
    Rows = {row1, row2}
    Opening <- Stock
    Inputs <- SomeInputs
    Deltas <- UpDown
    Counted = {2}
    Threshold = 3
    Selections <- Selected
    MaxAdjustments = 2
    MaxCounts = 2
    MaxEdits = 1
    MaxOther = 1
    MaxTogether = 3
INVARIANT
    StockMatchesCorrections
PROPERTIES
    CountSetsBalance
    ResultIsRecorded
CHECK_DEADLOCK FALSE

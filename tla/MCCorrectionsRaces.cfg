\* MaterialMatchesLines holds; each of the others fails.  TLC stops at the
\* first, so name one at a time.
SPECIFICATION Spec
CONSTANTS
    row1 = row1
    row2 = row2
    c1 = c1
    c2 = c2
    Clients = {c1, c2}
    Rows = {row1}
    Opening <- Stock
    Inputs <- AllInputs
    Deltas <- UpDown
    Counted = {0, 2}
    Threshold = 3
    Selections <- Single
    MaxAdjustments = 1
    MaxCounts = 1
    MaxEdits = 1
    MaxOther = 1
    MaxTogether = 9
INVARIANTS
    MaterialMatchesLines
    VarianceIsCurrent
PROPERTIES
    LastResultIsRecorded
    PostedCorrectionUnchanged
CHECK_DEADLOCK FALSE

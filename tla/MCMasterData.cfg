SPECIFICATION Spec
CONSTANTS
    c1 = c1
    c2 = c2
    k1 = k1
    k2 = k2
    Clients <- MCClients
    Codes <- MCCodes
    Barcodes = {"b1", "b2"}
    None = None
    Scenarios <- MCScenarios
SYMMETRY Requests
INVARIANTS
    KeysUnique
    OneDefault
    ExpiryNeedsLots
PROPERTY
    ArchivedIsFinal
CHECK_DEADLOCK FALSE

\* Pages against services, for every kind but the purchase order.
CONSTANTS
    admin = admin
    manager = manager
    other = other
    Users = {admin, manager, other}
    PageKinds <- AllButOrders
    Team <- MCTeam
    Reassigned <- MCReassigned
SPECIFICATION AccessSpec
INVARIANTS
    OfferedIsAccepted
    NothingStuck
CHECK_DEADLOCK FALSE

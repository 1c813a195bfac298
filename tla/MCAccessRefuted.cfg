\* Each property fails; TLC stops at the first, so name one at a time.
CONSTANTS
    admin = admin
    manager = manager
    other = other
    Users = {admin, manager, other}
    PageKinds = {"order", "request"}
    Team <- MCTeam
    Reassigned <- MCReassigned
SPECIFICATION AccessSpec
INVARIANTS
    OfferedIsAccepted
    FormsCanBeFilled
    ApprovalsCanBeGiven
CHECK_DEADLOCK FALSE

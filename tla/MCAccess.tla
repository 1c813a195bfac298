------------------------------ MODULE MCAccess ------------------------------
(* The team: an administrator, a store manager and a person whose roles    *)
(* change; every kind of document and record.                              *)
EXTENDS Access

CONSTANTS admin, manager, other

MCTeam == [u \in Users |-> IF u = admin THEN {"administrator"}
                           ELSE IF u = manager THEN {"manager"} ELSE {"requester"}]

MCReassigned ==
    [u \in Users |-> IF u = other THEN {{"clerk"}, {"auditor", "requester"}, {}} ELSE {}]

AllButOrders == DOMAIN Services \ {"order"}
=============================================================================

---------------------------- MODULE Permissions ----------------------------
(***************************************************************************)
(* Who may do what: the permission catalogue and the seeded roles          *)
(* (packages/contracts/permissions.ts, access/domain/permissionCatalog.ts),*)
(* the permission every HTTP route asks for (modules/*/http/*Router.ts),   *)
(* the statuses in which each operation is accepted (modules/*/domain) and *)
(* what the web pages offer (apps/web/src/features).  A permission is the  *)
(* pair <<module, action>>; a kind is the sort of document or record.      *)
(* Validation of the request's contents is left out here.                  *)
(***************************************************************************)
EXTENDS FiniteSets

(* f, and g where f says nothing: what @@ of module TLC is, which a proof  *)
(* could not expand.                                                       *)
f ++ g == [x \in DOMAIN f \cup DOMAIN g |-> IF x \in DOMAIN f THEN f[x] ELSE g[x]]

P(module, actions) == {module} \X actions

View(modules) == modules \X {"view"}

-----------------------------------------------------------------------------
(* The catalogue and the roles every organization starts with *)

Permission ==
    P("users", {"view", "create", "update", "activate", "deactivate"})
    \cup P("roles", {"view", "manage"}) \cup P("organizations", {"view", "manage"})
    \cup P("departments", {"view", "manage"}) \cup P("warehouses", {"view", "manage"})
    \cup P("products", {"view", "create", "update", "archive"})
    \cup P("categories", {"view", "manage"}) \cup P("suppliers", {"view", "manage"})
    \cup P("purchase_orders", {"view", "create", "update", "submit", "approve", "reject",
                               "cancel", "close"})
    \cup P("receipts", {"view", "create", "update", "verify", "post", "reverse"})
    \cup P("stock_requests", {"view", "create", "update", "submit", "approve", "reject",
                              "cancel"})
    \cup P("issues", {"view", "create", "update", "pick", "post", "reverse"})
    \cup P("returns", {"view", "create", "post"})
    \cup P("transfers", {"view", "create", "submit", "approve", "post", "reverse"})
    \cup {"adjustments", "stock_counts"}
         \X {"view", "create", "submit", "approve", "reject", "post", "reverse"}
    \cup P("inventory", {"view", "reconcile"}) \cup P("reports", {"view", "export"})
    \cup P("alerts", {"view", "acknowledge", "resolve"})
    \cup View({"permissions", "audit", "operations"})
    \cup {"locations", "units", "settings"} \X {"manage"}

StoreManager ==
    P("products", {"view", "create", "update", "archive"})
    \cup P("categories", {"view", "manage"}) \cup P("units", {"manage"})
    \cup P("suppliers", {"view", "manage"})
    \cup P("purchase_orders", {"view", "create", "update", "submit", "approve", "reject",
                               "cancel", "close"})
    \cup P("receipts", {"view", "verify", "post"})
    \cup P("stock_requests", {"view", "approve", "reject"})
    \cup P("issues", {"view", "post"}) \cup P("transfers", {"view", "approve"})
    \cup {"adjustments", "stock_counts"} \X {"view", "approve", "reject", "post", "reverse"}
    \cup P("alerts", {"view", "acknowledge", "resolve"}) \cup P("reports", {"view", "export"})
    \cup View({"inventory", "warehouses", "departments"})

InventoryClerk ==
    P("receipts", {"view", "create", "update", "verify"})
    \cup P("issues", {"view", "create", "pick", "post"})
    \cup P("returns", {"view", "create", "post"})
    \cup {"transfers", "adjustments", "stock_counts"} \X {"view", "create", "submit"}
    \cup View({"products", "suppliers", "stock_requests", "inventory", "alerts", "warehouses"})

Requester ==
    P("stock_requests", {"view", "create", "update", "submit", "cancel"})
    \cup View({"products", "inventory"})

Auditor ==
    View({"products", "suppliers", "purchase_orders", "receipts", "stock_requests", "issues",
          "returns", "transfers", "adjustments", "stock_counts", "inventory", "alerts",
          "reports", "audit", "operations"})

SystemRolePermissions ==
    [administrator |-> Permission, manager |-> StoreManager, clerk |-> InventoryClerk,
     requester |-> Requester, auditor |-> Auditor]

-----------------------------------------------------------------------------
(* The routes: what requirePermission asks, and whether an Idempotency-Key *)
(* is demanded.                                                            *)

Needs(module, action) == [permission |-> <<module, action>>, keyed |-> FALSE]
Keyed(module, action) == [permission |-> <<module, action>>, keyed |-> TRUE]

OrderRoutes ==
    [op \in {"view", "create", "submit", "approve", "reject", "close", "cancel"} |->
        Needs("purchase_orders", op)] ++ [edit |-> Needs("purchase_orders", "update")]

ReceiptRoutes ==
    [op \in {"view", "create", "verify"} |-> Needs("receipts", op)]
    ++ [edit |-> Needs("receipts", "update")]
    ++ [op \in {"post", "reverse"} |-> Keyed("receipts", op)]

RequestRoutes ==
    [op \in {"view", "create", "submit", "approve", "reject", "cancel"} |->
        Needs("stock_requests", op)] ++ [edit |-> Needs("stock_requests", "update")]

IssueRoutes ==
    [op \in {"view", "create", "pick"} |-> Needs("issues", op)]
    ++ [op \in {"edit", "cancel"} |-> Needs("issues", "update")]
    ++ [op \in {"post", "reverse"} |-> Keyed("issues", op)]

ReturnRoutes ==
    [op \in {"view", "create"} |-> Needs("returns", op)] ++ [post |-> Keyed("returns", "post")]

TransferRoutes ==
    [op \in {"view", "create", "submit", "approve"} |-> Needs("transfers", op)]
    ++ [op \in {"post", "reverse"} |-> Keyed("transfers", op)]
    ++ [receive |-> Keyed("transfers", "post")]

AdjustmentRoutes ==
    [op \in {"view", "create", "submit", "approve", "reject"} |-> Needs("adjustments", op)]
    ++ [edit |-> Needs("adjustments", "create")]
    ++ [op \in {"post", "reverse"} |-> Keyed("adjustments", op)]

CountRoutes ==
    [op \in {"view", "create", "submit", "approve", "reject"} |-> Needs("stock_counts", op)]
    ++ [edit |-> Needs("stock_counts", "create")]
    ++ [op \in {"post", "reverse"} |-> Keyed("stock_counts", op)]

UserRoutes ==
    [op \in {"view", "create", "activate", "deactivate"} |-> Needs("users", op)]
    ++ [edit |-> Needs("users", "update"), archive |-> Needs("users", "deactivate")]

(* Records kept by one pair of permissions: look at them, manage them. *)
Managed(seenWith, managedWith) ==
    [view |-> Needs(seenWith, "view")]
    ++ [op \in {"create", "edit", "archive"} |-> Needs(managedWith, "manage")]

SupplierRoutes   == Managed("suppliers", "suppliers")
CategoryRoutes   == Managed("categories", "categories")
UnitRoutes       == Managed("categories", "units")
DepartmentRoutes == Managed("departments", "departments")
WarehouseRoutes  == Managed("warehouses", "warehouses")
LocationRoutes   == Managed("warehouses", "locations")

ProductRoutes ==
    [op \in {"view", "create", "archive"} |-> Needs("products", op)]
    ++ [edit |-> Needs("products", "update")]

RoleRoutes ==
    [view |-> Needs("roles", "view")] ++ [op \in {"create", "edit"} |-> Needs("roles", "manage")]

OrganizationRoutes ==
    [view |-> Needs("organizations", "view"), edit |-> Needs("organizations", "manage")]

PermissionRoutes == [view |-> Needs("permissions", "view")]
AuditRoutes      == [view |-> Needs("audit", "view")]
InventoryRoutes  == [view |-> Needs("inventory", "view")]
ReportRoutes     == [view |-> Needs("reports", "view")]

Routes ==
    [order |-> OrderRoutes, receipt |-> ReceiptRoutes, request |-> RequestRoutes,
     issue |-> IssueRoutes, return |-> ReturnRoutes, transfer |-> TransferRoutes,
     adjustment |-> AdjustmentRoutes, count |-> CountRoutes, user |-> UserRoutes,
     supplier |-> SupplierRoutes, category |-> CategoryRoutes, unit |-> UnitRoutes,
     department |-> DepartmentRoutes, warehouse |-> WarehouseRoutes,
     location |-> LocationRoutes, product |-> ProductRoutes, role |-> RoleRoutes,
     organization |-> OrganizationRoutes, permission |-> PermissionRoutes,
     audit |-> AuditRoutes, inventory |-> InventoryRoutes, report |-> ReportRoutes]

(* A follow-up creates a document of another kind from this one. *)
FollowUp == [receiveGoods |-> "receipt", issueStock |-> "issue", returnStock |-> "return"]

RouteOf(kind, op) ==
    IF op \in DOMAIN FollowUp THEN Routes[FollowUp[op]].create ELSE Routes[kind][op]

Permits(granted, route) == route.permission \in granted
=============================================================================

------------------------------- MODULE Pages -------------------------------
(***************************************************************************)
(* What the web client offers (apps/web/src/features) against what the     *)
(* services accept (apps/api/src/modules): a button is shown by the        *)
(* document's status and the caller's permissions, a service accepts an    *)
(* operation by the document's status alone, after the route's permission. *)
(* A reversal and a reversed document keep the status they were posted     *)
(* with; only their marks tell them apart.                                 *)
(***************************************************************************)
EXTENDS Permissions

-----------------------------------------------------------------------------
(* The services: the statuses an operation starts from and where it leads. *)

Step(from, to) == [from |-> from, to |-> {to}]
Stay(from)     == [from |-> from, to |-> {}]     \* the status does not change

OrderService ==
    [edit |-> Stay({"draft"}), submit |-> Step({"draft"}, "submitted"),
     approve |-> Step({"submitted"}, "approved"), reject |-> Step({"submitted"}, "rejected"),
     cancel |-> Step({"draft", "submitted", "approved"}, "cancelled"),
     receiveGoods |-> Stay({"approved", "partially_received"}),
     close |-> Step({"fully_received"}, "closed")]

ReceiptService ==
    [edit |-> Stay({"draft"}), verify |-> Step({"draft"}, "verified"),
     post |-> Step({"verified"}, "posted"), reverse |-> Stay({"posted"})]

RequestService ==
    [edit |-> Stay({"draft"}), submit |-> Step({"draft"}, "submitted"),
     approve |-> Step({"submitted"}, "approved"), reject |-> Step({"submitted"}, "rejected"),
     cancel |-> Step({"draft", "submitted", "approved", "partially_fulfilled"}, "cancelled"),
     issueStock |-> Stay({"approved", "partially_fulfilled"})]

IssueService ==
    [edit |-> Stay({"draft"}), pick |-> Step({"draft"}, "picked"),
     cancel |-> Step({"draft", "picked"}, "cancelled"), post |-> Step({"picked"}, "posted"),
     returnStock |-> Stay({"posted"}), reverse |-> Stay({"posted"})]

ReturnService == [post |-> Step({"draft"}, "posted")]

TransferService ==
    [submit |-> Step({"draft"}, "submitted"), approve |-> Step({"submitted"}, "approved"),
     post |-> [from |-> {"approved"}, to |-> {"in_transit", "completed"}],
     receive |-> Step({"approved", "in_transit"}, "completed"), reverse |-> Stay({"completed"})]

AdjustmentService ==
    [edit |-> Stay({"draft"}), submit |-> Step({"draft"}, "submitted"),
     approve |-> Step({"submitted"}, "approved"), reject |-> Step({"submitted"}, "rejected"),
     post |-> Step({"approved"}, "posted"), reverse |-> Stay({"posted"})]

CountService ==
    [edit |-> Stay({"draft"}), submit |-> Step({"draft"}, "submitted"),
     approve |-> Step({"submitted"}, "approved"), reject |-> Step({"submitted"}, "rejected"),
     post |-> Step({"approved"}, "posted"), reverse |-> Stay({"posted"})]

UserService ==
    [edit |-> Stay({"invited", "active", "locked", "inactive"}),
     activate |-> Step({"invited", "locked", "inactive"}, "active"),
     deactivate |-> Step({"active"}, "inactive"),
     archive |-> Step({"invited", "active", "locked", "inactive"}, "archived")]

(* Suppliers, categories, units, departments, warehouses, locations, products. *)
RecordService == [edit |-> Stay({"active"}), archive |-> Step({"active"}, "archived")]

RecordKinds == {"supplier", "category", "unit", "department", "warehouse", "location", "product"}

Services ==
    [order |-> OrderService, receipt |-> ReceiptService, request |-> RequestService,
     issue |-> IssueService, return |-> ReturnService, transfer |-> TransferService,
     adjustment |-> AdjustmentService, count |-> CountService, user |-> UserService]
    ++ [kind \in RecordKinds |-> RecordService]

Accepts(kind, op, status) ==
    op \in DOMAIN Services[kind] /\ status \in Services[kind][op].from

(* What other documents do to this one: goods arrive, stock is issued and  *)
(* given back; an invited user sets a password, too many failures lock.    *)
Progress ==
    [order   |-> {"approved", "partially_received"} \X {"partially_received", "fully_received"},
     request |-> {"approved", "partially_fulfilled"} \X {"partially_fulfilled", "fulfilled"},
     user    |-> {<<"invited", "active">>, <<"active", "locked">>}]

(* The purchase order, stock request, adjustment, transfer and count       *)
(* policies forbid the creator to approve.                                 *)
PreventSelfApproval == {"order", "request", "adjustment", "transfer", "count"}

-----------------------------------------------------------------------------
(* The pages: which buttons are shown in which status, and the permission  *)
(* `has' is asked for.  A reverse button also looks at the marks.          *)

Button(op, statuses, module, action) ==
    [op |-> op, in |-> statuses, permission |-> <<module, action>>, unless |-> {}]

ReverseButton(status, module) ==
    [Button("reverse", {status}, module, "reverse") EXCEPT !.unless = {"reversed", "reversal"}]

PurchaseOrderDetailPage ==
    {Button("edit", {"draft"}, "purchase_orders", "update"),
     Button("submit", {"draft"}, "purchase_orders", "submit"),
     Button("approve", {"submitted"}, "purchase_orders", "approve"),
     Button("receiveGoods", {"approved", "partially_received"}, "receipts", "create"),
     Button("close", {"fully_received"}, "purchase_orders", "close"),
     Button("reject", {"submitted"}, "purchase_orders", "reject"),
     Button("cancel", {"draft", "submitted", "approved", "partially_received"},
            "purchase_orders", "cancel")}

GoodsReceiptDetailPage ==
    {Button("edit", {"draft"}, "receipts", "update"),
     Button("verify", {"draft"}, "receipts", "verify"),
     Button("post", {"verified"}, "receipts", "post"),
     ReverseButton("posted", "receipts")}

StockRequestDetailPage ==
    {Button("edit", {"draft"}, "stock_requests", "update"),
     Button("submit", {"draft"}, "stock_requests", "submit"),
     Button("approve", {"submitted"}, "stock_requests", "approve"),
     Button("reject", {"submitted"}, "stock_requests", "reject"),
     Button("issueStock", {"approved", "partially_fulfilled"}, "issues", "create"),
     Button("cancel", {"draft", "submitted", "approved", "partially_fulfilled"},
            "stock_requests", "cancel")}

StockIssueDetailPage ==
    {Button("pick", {"draft"}, "issues", "pick"),
     Button("post", {"picked"}, "issues", "post"),
     Button("cancel", {"draft", "picked"}, "issues", "update"),
     [Button("returnStock", {"posted"}, "returns", "create") EXCEPT !.unless = {"reversed"}],
     ReverseButton("posted", "issues")}

StockReturnDetailPage == {Button("post", {"draft"}, "returns", "post")}

(* Faulty page: nothing is offered while the stock is in transit. *)
StockTransferDetailPageWithoutReceive ==
    {Button("submit", {"draft"}, "transfers", "submit"),
     Button("approve", {"submitted"}, "transfers", "approve"),
     Button("post", {"approved"}, "transfers", "post"),
     ReverseButton("completed", "transfers")}

StockTransferDetailPage ==
    {Button("submit", {"draft"}, "transfers", "submit"),
     Button("approve", {"submitted"}, "transfers", "approve"),
     Button("post", {"approved"}, "transfers", "post"),
     Button("receive", {"in_transit"}, "transfers", "post"),
     ReverseButton("completed", "transfers")}

(* Faulty page: a rejected adjustment can still be posted. *)
StockAdjustmentDetailPageLate ==
    {Button("edit", {"draft"}, "adjustments", "create"),
     Button("submit", {"draft"}, "adjustments", "submit"),
     Button("approve", {"submitted"}, "adjustments", "approve"),
     Button("reject", {"submitted"}, "adjustments", "reject"),
     Button("post", {"approved", "rejected"}, "adjustments", "post"),
     ReverseButton("posted", "adjustments")}

StockAdjustmentDetailPage ==
    {Button("edit", {"draft"}, "adjustments", "create"),
     Button("submit", {"draft"}, "adjustments", "submit"),
     Button("approve", {"submitted"}, "adjustments", "approve"),
     Button("reject", {"submitted"}, "adjustments", "reject"),
     Button("post", {"approved"}, "adjustments", "post"),
     ReverseButton("posted", "adjustments")}

StockCountDetailPage ==
    {Button("edit", {"draft"}, "stock_counts", "create"),
     Button("submit", {"draft"}, "stock_counts", "submit"),
     Button("approve", {"submitted"}, "stock_counts", "approve"),
     Button("reject", {"submitted"}, "stock_counts", "reject"),
     Button("post", {"approved"}, "stock_counts", "post"),
     ReverseButton("posted", "stock_counts")}

(* The rows of the list pages; an archived record is not listed. *)
UsersPage ==
    {Button("edit", {"invited", "active", "locked", "inactive"}, "users", "update"),
     Button("activate", {"invited", "locked", "inactive"}, "users", "activate"),
     Button("deactivate", {"active"}, "users", "deactivate"),
     Button("archive", {"invited", "active", "locked", "inactive"}, "users", "deactivate")}

ManagedRows(module) ==
    {Button("edit", {"active"}, module, "manage"), Button("archive", {"active"}, module, "manage")}

SuppliersPage   == ManagedRows("suppliers")
CategoriesPage  == ManagedRows("categories")
UnitsPage       == ManagedRows("units")
DepartmentsPage == ManagedRows("departments")
WarehousesPage  == ManagedRows("warehouses")
WarehouseLocationsDialog == ManagedRows("locations")

ProductsPage ==
    {Button("edit", {"active"}, "products", "update"),
     Button("archive", {"active"}, "products", "archive")}

DetailPages ==
    [order |-> PurchaseOrderDetailPage, receipt |-> GoodsReceiptDetailPage,
     request |-> StockRequestDetailPage, issue |-> StockIssueDetailPage,
     return |-> StockReturnDetailPage, transfer |-> StockTransferDetailPage,
     adjustment |-> StockAdjustmentDetailPage, count |-> StockCountDetailPage,
     user |-> UsersPage, supplier |-> SuppliersPage, category |-> CategoriesPage,
     unit |-> UnitsPage, department |-> DepartmentsPage, warehouse |-> WarehousesPage,
     location |-> WarehouseLocationsDialog, product |-> ProductsPage]

(* The mutations that send an Idempotency-Key. *)
SendsKey(op) == op \in {"post", "receive", "reverse"}

-----------------------------------------------------------------------------
(* The launcher's tiles, by the kind they list. *)

RecordModules ==
    [user |-> <<"users", "view">>, role |-> <<"roles", "view">>,
     permission |-> <<"permissions", "view">>, organization |-> <<"organizations", "view">>,
     department |-> <<"departments", "view">>, warehouse |-> <<"warehouses", "view">>,
     category |-> <<"categories", "view">>, unit |-> <<"categories", "view">>,
     product |-> <<"products", "view">>, supplier |-> <<"suppliers", "view">>]

DocumentModules ==
    [order |-> <<"purchase_orders", "view">>, receipt |-> <<"receipts", "view">>,
     request |-> <<"stock_requests", "view">>, issue |-> <<"issues", "view">>,
     return |-> <<"returns", "view">>, adjustment |-> <<"adjustments", "view">>,
     count |-> <<"stock_counts", "view">>, transfer |-> <<"transfers", "view">>,
     report |-> <<"reports", "view">>, audit |-> <<"audit", "view">>]

AppModules == RecordModules ++ DocumentModules

(* The list pages that show a New button, and to whom; stock issues and    *)
(* returns are started from another document's page.                       *)
PurchaseOrdersPage   == <<"purchase_orders", "create">>
GoodsReceiptsPage    == <<"receipts", "create">>
StockRequestsPage    == <<"stock_requests", "create">>
StockAdjustmentsPage == <<"adjustments", "create">>
StockCountsPage      == <<"stock_counts", "create">>
StockTransfersPage   == <<"transfers", "create">>
RolesPage            == <<"roles", "manage">>

NewButtons ==
    [order |-> PurchaseOrdersPage, receipt |-> GoodsReceiptsPage, request |-> StockRequestsPage,
     adjustment |-> StockAdjustmentsPage, count |-> StockCountsPage,
     transfer |-> StockTransfersPage, role |-> RolesPage, user |-> <<"users", "create">>,
     supplier |-> <<"suppliers", "manage">>, product |-> <<"products", "create">>,
     category |-> <<"categories", "manage">>, unit |-> <<"units", "manage">>,
     department |-> <<"departments", "manage">>, warehouse |-> <<"warehouses", "manage">>]

(* The lists a form cannot be filled in without: those of its required     *)
(* choices.                                                                *)
PurchaseOrderFormPage   == {"supplier", "warehouse", "product"}
GoodsReceiptFormPage    == {"supplier", "warehouse", "location", "product"}
StockRequestFormPage    == {"warehouse", "product"}
StockAdjustmentFormPage == {"warehouse", "location", "product"}
StockCountFormPage      == {"warehouse", "location", "product"}
StockTransferFormPage   == {"warehouse", "location", "product"}
ProductFormPage         == {"category", "unit"}
RoleFormPage            == {"permission"}

FormLists ==
    [order |-> PurchaseOrderFormPage, receipt |-> GoodsReceiptFormPage,
     request |-> StockRequestFormPage, adjustment |-> StockAdjustmentFormPage,
     count |-> StockCountFormPage, transfer |-> StockTransferFormPage,
     product |-> ProductFormPage, role |-> RoleFormPage]
    ++ [kind \in {"user", "supplier", "category", "unit", "department", "warehouse"} |-> {}]
=============================================================================

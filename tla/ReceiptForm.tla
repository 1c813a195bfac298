---------------------------- MODULE ReceiptForm ----------------------------
(***************************************************************************)
(* The form of a goods receipt in several browser tabs                     *)
(* (apps/web/src/features/goods-receipts/GoodsReceiptFormPage.tsx).        *)
(*                                                                         *)
(* A tab keeps what its queries answered last: the receipt and the list of *)
(* purchase orders.  The form is filled once per visit, from whatever the  *)
(* tab has by then (the order named in the address, or the receipt), and   *)
(* saving sends every field of it.  The other draft documents' forms are   *)
(* filled and saved in the same way, without a purchase order.             *)
(*                                                                         *)
(* One receipt with one line; `notes' stands for the fields without a      *)
(* rule.  A refusal leaves the page as it was and is no step.  That the    *)
(* server reads the receipt before it saves it is the subject of module    *)
(* Procurement: here the two are one step.                                 *)
(***************************************************************************)
EXTENDS Integers, FiniteSets

CONSTANTS Tabs, Orders, Warehouses, Locations, Suppliers, Products, Null,
          WarehouseOf,    \* the warehouse of each order and of each location
          Fillings        \* the fields filled in by hand in each tab, as functions

Fields == {"supplier", "warehouse", "order", "notes", "product", "location", "quantity"}

ASSUME ReceiptFormAssumption ==
    /\ WarehouseOf \in [Orders \cup Locations -> Warehouses]
    /\ \A s \in Fillings : s \in [Tabs -> SUBSET Fields]
    /\ Null \notin UNION {Orders, Warehouses, Locations, Suppliers, Products}
    /\ Orders # {} => Suppliers # {} /\ Products # {}     \* what an order is for

VARIABLES filled,       \* filled[t]: the fields filled in by hand in tab t, never changed
          receipt,      \* the receipt as the server has it
          orders,       \* the status of each order there is
          tab           \* tab[t]: the page, the form and the answers tab t keeps

formVars == <<filled, receipt, orders, tab>>

(* The operators of module TLC, which a proof could not expand: f, and g   *)
(* where f says nothing; the function that maps d to e.                    *)
f @@ g == [x \in DOMAIN f \cup DOMAIN g |-> IF x \in DOMAIN f THEN f[x] ELSE g[x]]
d :> e == [x \in {d} |-> e]

EmptyForm == [supplier |-> Null, warehouse |-> Null, order |-> Null, notes |-> 0,
              product |-> Null, location |-> Null, quantity |-> 1]

Nothing == [f \in {} |-> Null]

(* list and copy outlive the visits; the rest is the page's own.  chosen   *)
(* remembers what was filled in by hand, origin what the form was filled   *)
(* from: neither is in the code.                                           *)
Closed == [page |-> "closed", query |-> Null, hydrated |-> FALSE, form |-> EmptyForm,
           chosen |-> Nothing, origin |-> Null]

FormInit ==
    /\ filled \in Fillings
    /\ receipt = Null
    /\ orders = Nothing
    /\ tab = [t \in Tabs |-> Closed @@ [list |-> Null, copy |-> Null]]

-----------------------------------------------------------------------------
(* What the form holds                                                     *)

Outstanding == 2    \* what an order's line prefills, never the blank line's 1
ProductOf(o) == CHOOSE p \in Products : TRUE
SupplierOf(o) == CHOOSE s \in Suppliers : TRUE

(* Faulty form: the notes are not filled in. *)
FormOfButNotes(copy) == [f \in Fields |-> IF f = "notes" THEN 0 ELSE copy[f]]

(* Only the receipt's own fields: filled in, the dates and the empty texts *)
(* read back as they were saved.                                           *)
FormOf(copy) == [f \in Fields |-> copy[f]]

Prefilled(form, o) ==
    [form EXCEPT !.supplier = SupplierOf(o), !.warehouse = WarehouseOf[o], !.order = o,
                 !.product = ProductOf(o), !.location = Null, !.quantity = Outstanding]

isFormUntouched(form) == form.supplier = Null /\ form.product = Null /\ form.quantity = 1

(* Faulty effect: an answer fills the form again. *)
ReadyAgain(p) ==
    /\ p.page # "closed"
    /\ p.page = "edit" => p.copy # Null
    /\ p.query # Null => p.list # Null

(* The effect that runs after every answer, and does something once. *)
Ready(p) ==
    /\ p.page # "closed" /\ ~p.hydrated
    /\ p.page = "edit" => p.copy # Null
    /\ p.query # Null => p.list # Null

Hydrate(p) ==
    IF ~Ready(p) THEN p
    ELSE [p EXCEPT !.hydrated = TRUE, !.origin = p.copy,
                   !.form = IF p.page = "edit" THEN FormOf(p.copy)
                            ELSE IF p.query # Null /\ p.query \in DOMAIN p.list
                                 THEN Prefilled(@, p.query)
                                 ELSE EmptyForm]

-----------------------------------------------------------------------------
(* The queries and the pages                                               *)

(* The list matters where an order is chosen. *)
ReceiveOrders(t) ==
    /\ "order" \in filled[t]
    /\ tab' = [tab EXCEPT ![t] = Hydrate([@ EXCEPT !.list = orders])]
    /\ UNCHANGED <<receipt, orders>>

ReceiveReceipt(t) ==
    /\ receipt # Null
    /\ tab' = [tab EXCEPT ![t] = Hydrate([@ EXCEPT !.copy = receipt])]
    /\ UNCHANGED <<receipt, orders>>

Visit(t, page) ==
    /\ tab[t].page = "closed" /\ filled[t] # {}
    /\ tab' = [tab EXCEPT ![t] = Hydrate(page @@ Closed @@ @)]
    /\ UNCHANGED <<receipt, orders>>

OpenNew(t, o) == receipt = Null /\ Visit(t, [page |-> "new", query |-> o])
OpenEdit(t)   == receipt # Null /\ Visit(t, [page |-> "edit"])

Cancel(t) ==
    /\ tab[t].page # "closed"
    /\ tab' = [tab EXCEPT ![t] = Closed @@ @]
    /\ UNCHANGED <<receipt, orders>>

(* Until it has the receipt, an edit page shows a skeleton; once the copy  *)
(* is no draft, it shows no form.                                          *)
Shown(t) ==
    \/ tab[t].page = "new"
    \/ tab[t].page = "edit" /\ tab[t].copy # Null /\ tab[t].copy.status = "draft"

Choose(t, choice, form) ==
    /\ Shown(t)
    /\ DOMAIN choice \subseteq filled[t]
    /\ tab' = [tab EXCEPT ![t].chosen = choice @@ @, ![t].form = form]
    /\ UNCHANGED <<receipt, orders>>

Change(t, f, v) == Choose(t, f :> v, [tab[t].form EXCEPT ![f] = v])

updateLine(t) ==
    \/ \E p \in Products : Change(t, "product", p)
    \/ Change(t, "quantity", Outstanding)
    \/ \E l \in Locations :
        /\ tab[t].form.warehouse = WarehouseOf[l]
        /\ Change(t, "location", l)

EditDetails(t) == Change(t, "notes", 1) \/ \E s \in Suppliers : Change(t, "supplier", s)

(* Faulty choice: the order stays linked. *)
SelectWarehouseOnly(t, w) == Change(t, "warehouse", w)

SelectWarehouse(t, w) ==
    Choose(t, "warehouse" :> w @@ "order" :> Null,
           [tab[t].form EXCEPT !.warehouse = w, !.order = Null])

EligiblePurchaseOrders(p) ==
    {o \in DOMAIN p.list : /\ p.list[o] = "approved"
                           /\ p.form.warehouse \in {Null, WarehouseOf[o]}}

SelectOrder(t, o) ==
    /\ tab[t].list # Null /\ o \in EligiblePurchaseOrders(tab[t])
    /\ Choose(t, "order" :> o,
              IF isFormUntouched(tab[t].form) THEN Prefilled(tab[t].form, o)
              ELSE [tab[t].form EXCEPT !.order = o])

UnlinkOrder(t) == Change(t, "order", Null)

-----------------------------------------------------------------------------
(* Saving                                                                  *)

Complete(form) == Null \notin {form.supplier, form.warehouse, form.product, form.location}

(* createReceipt looks at the order, updateReceipt takes any. *)
OrderAccepted(form) ==
    form.order # Null => /\ orders[form.order] = "approved"
                         /\ WarehouseOf[form.order] = form.warehouse

(* resolveItems: every location is one of the warehouse asked for. *)
ItemsResolved(form) == WarehouseOf[form.location] = form.warehouse

Save(t) ==
    LET form == tab[t].form
    IN  /\ Shown(t) /\ Complete(form) /\ ItemsResolved(form)
        /\ \/ tab[t].page = "new" /\ receipt = Null /\ OrderAccepted(form)
           \/ tab[t].page = "edit" /\ receipt.status = "draft"
        /\ receipt' = form @@ [status |-> "draft"]
        /\ tab' = [tab EXCEPT ![t] = Closed @@ @]
        /\ UNCHANGED orders

(* Someone verifies the receipt, approves an order or closes one. *)
Verify ==
    /\ receipt # Null /\ receipt.status = "draft"
    /\ receipt' = [receipt EXCEPT !.status = "verified"]
    /\ UNCHANGED <<orders, tab>>

MoveOrder(o) ==
    /\ \/ o \notin DOMAIN orders /\ orders' = o :> "approved" @@ orders
       \/ o \in DOMAIN orders /\ orders[o] = "approved" /\ orders' = o :> "closed" @@ orders
    /\ UNCHANGED <<receipt, tab>>

Input(t) ==
    \/ updateLine(t) \/ EditDetails(t) \/ UnlinkOrder(t)
    \/ \E w \in Warehouses : SelectWarehouse(t, w)
    \/ \E o \in Orders : SelectOrder(t, o)

FormNext ==
    \/ \E t \in Tabs :
        \/ ReceiveOrders(t) \/ ReceiveReceipt(t)
        \/ OpenEdit(t) \/ \E o \in DOMAIN orders \cup {Null} : OpenNew(t, o)
        \/ Cancel(t) \/ Input(t) \/ Save(t)
    \/ Verify \/ \E o \in Orders : MoveOrder(o)

FormSpec == FormInit /\ [][FormNext /\ UNCHANGED filled]_formVars

(* updateReceipt, asked for a warehouse and nothing else, as its schema    *)
(* allows and the form never does: the lines are not looked at again.      *)
PatchWarehouse(w) ==
    /\ receipt # Null /\ receipt.status = "draft"
    /\ receipt' = [receipt EXCEPT !.warehouse = w]
    /\ UNCHANGED <<orders, tab>>

(* The form beside other callers of updateReceipt. *)
PatchedSpec ==
    FormInit /\ [][(FormNext \/ \E w \in Warehouses : PatchWarehouse(w)) /\ UNCHANGED filled]_formVars

-----------------------------------------------------------------------------
Receipt == [supplier : Suppliers, warehouse : Warehouses, order : Orders \cup {Null},
            notes : 0..1, product : Products, location : Locations, quantity : 1..Outstanding,
            status : {"draft", "verified"}]

FormTypeOK ==
    /\ receipt \in Receipt \cup {Null}
    /\ \A o \in DOMAIN orders : o \in Orders /\ orders[o] \in {"approved", "closed"}
    /\ \A t \in Tabs :
        /\ tab[t].copy \in Receipt \cup {Null}
        /\ tab[t].page = "edit" /\ tab[t].hydrated => tab[t].form.supplier # Null

(* A receipt saved through the form is for the warehouse of the order it   *)
(* is linked to.  The server checks that when the receipt is created; on   *)
(* an update only the form does, whatever was chosen in which order, in    *)
(* however many tabs, from however old a list.                             *)
LinkedOrderIsOfWarehouse ==
    (receipt # Null /\ receipt.order # Null) => WarehouseOf[receipt.order] = receipt.warehouse

(* The line of a receipt is for a location of its warehouse.  The form     *)
(* keeps the location when another warehouse is chosen; that every save    *)
(* sends the lines along, which the server then looks at (resolveItems),   *)
(* makes this true by construction here, but not of every caller.          *)
LinesAreInWarehouse == receipt # Null => WarehouseOf[receipt.location] = receipt.warehouse

TypingKept(t) == \A f \in DOMAIN tab[t].chosen : tab[t].form[f] = tab[t].chosen[f]

(* What was filled in by hand in an edit form stays there until the form   *)
(* is saved or left, or something else is chosen in the same place,        *)
(* whatever answers arrive meanwhile.  To choose a warehouse counts as     *)
(* choosing no order as well: the page unlinks the order then, unasked.    *)
EditKeepsTyping == \A t \in Tabs : tab[t].page = "edit" => TypingKept(t)

Saved(t) == tab[t].page = "edit" /\ tab'[t].page = "closed" /\ receipt' # receipt

OnlyChosenChanged(t) ==
    \A f \in Fields \ DOMAIN tab[t].chosen : receipt'[f] = receipt[f]

(* A form that was filled from the receipt as it still is changes only     *)
(* what was filled in by hand, although it sends every field.              *)
FreshSaveKeepsTheRest ==
    [][\A t \in Tabs : Saved(t) /\ tab[t].origin = receipt => OnlyChosenChanged(t)]_formVars

(* So does every save: nobody's changes are undone by somebody who did not *)
(* touch the field.                                                        *)
SaveKeepsTheRest == [][\A t \in Tabs : Saved(t) => OnlyChosenChanged(t)]_formVars

(* What was filled in by hand in a new form stays there too. *)
TypingIsKept == \A t \in Tabs : TypingKept(t)
-----------------------------------------------------------------------------
(* The inductive invariant *)

(* An order is chosen for its warehouse, or before there is a warehouse;   *)
(* choosing one then unlinks the order.                                    *)
FormInv(form) ==
    /\ DOMAIN form = Fields
    /\ form.supplier \in Suppliers \cup {Null} /\ form.product \in Products \cup {Null}
    /\ form.warehouse \in Warehouses \cup {Null} /\ form.location \in Locations \cup {Null}
    /\ form.order \in Orders \cup {Null}
    /\ form.notes \in 0..1 /\ form.quantity \in 1..Outstanding
    /\ form.order # Null => form.warehouse \in {Null, WarehouseOf[form.order]}

(* The receipt, and every copy of it, however old. *)
ReceiptInv(r) ==
    r # Null => /\ r \in Receipt
                /\ r.order # Null => WarehouseOf[r.order] = r.warehouse

(* An edit form is filled as soon as there is a copy.  From then on it has *)
(* what was chosen, and what it was filled from everywhere else.           *)
EditInv(p) ==
    /\ p.query = Null
    /\ p.hydrated <=> p.copy # Null
    /\ DOMAIN p.chosen \subseteq Fields
    /\ \A f \in DOMAIN p.chosen : p.form[f] = p.chosen[f]
    /\ p.hydrated => /\ p.form.supplier # Null
                     /\ \A f \in Fields \ DOMAIN p.chosen : p.form[f] = p.origin[f]
    /\ ~p.hydrated => DOMAIN p.chosen = {}

TabInv(p) ==
    /\ DOMAIN p = DOMAIN Closed \cup {"list", "copy"}
    /\ p.page \in {"closed", "new", "edit"}
    /\ FormInv(p.form) /\ ReceiptInv(p.copy)
    /\ p.list # Null => DOMAIN p.list \subseteq Orders
    /\ p.page = "edit" => EditInv(p)

ReceiptFormInv ==
    /\ ReceiptInv(receipt)
    /\ DOMAIN orders \subseteq Orders
    /\ \A o \in DOMAIN orders : orders[o] \in {"approved", "closed"}
    /\ DOMAIN tab = Tabs
    /\ \A t \in Tabs : TabInv(tab[t])
=============================================================================

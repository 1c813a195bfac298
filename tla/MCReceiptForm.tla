--------------------------- MODULE MCReceiptForm ---------------------------
(* Two warehouses with a location each, an order for one of them. *)
EXTENDS ReceiptForm

CONSTANTS t1, t2

MCWarehouseOf == "o1" :> "north" @@ "shelf" :> "north" @@ "bin" :> "south"

(* One tab at work on a receipt; or one that links and moves the receipt, *)
(* while another one changes the notes.                                    *)
Alone == t1 :> Fields \ {"notes"} @@ t2 :> {}
Together == t1 :> {"warehouse", "order", "location"} @@ t2 :> {"notes"}

MCFillings == {Alone, Together}
=============================================================================

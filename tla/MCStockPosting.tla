--------------------------- MODULE MCStockPosting ---------------------------
(* Small instance: two stock keys, one document that takes from both and   *)
(* one that takes from the first and gives to the second.  The first       *)
(* document falls short on its second key until the other is posted, and   *)
(* has then already moved its first; afterwards both are posted.           *)
EXTENDS StockPosting, TLC

CONSTANTS d1, d2

MCMovement == d1 :> <<-2, -1>> @@ d2 :> <<-1, 1>>
MCOpening == <<3, 0>>
=============================================================================

---------------------------- MODULE StockDocuments ----------------------------
(***************************************************************************)
(* The movements each kind of document posts for one of its lines, in the  *)
(* order its repository posts them.  Everything else about approving a     *)
(* document is the same for all kinds and is in StockPosting.              *)
(*                                                                         *)
(* x, src and dst are dimensions, q a quantity in the unit of the line, f  *)
(* the conversion factor of that unit, and target the quantity a line of   *)
(* an adjustment or verification states.                                   *)
(***************************************************************************)
EXTENDS Naturals, Sequences

In(x, q)     == [type |-> "in", dim |-> x, qty |-> q]
Out(x, q)    == [type |-> "out", dim |-> x, qty |-> q]
Return(x, q) == [type |-> "return", dim |-> x, qty |-> q]
Count(x, q)  == [type |-> "count", dim |-> x, qty |-> q]

TransferLine(src, dst, q)    == <<Out(src, q), In(dst, q)>>
AdjustmentLine(x, target)    == <<Count(x, target)>>
VerificationLine(x, target)  == <<Count(x, target)>>
DamageLine(x, q)             == <<Out(x, q)>>
StockReturnLine(x, q)        == <<In(x, q)>>
GoodsReceivedLine(x, q, f)   == <<In(x, q * f)>>
PurchaseReturnLine(x, q)     == <<Out(x, q)>>
DeliveryChallanLine(x, q, f) == <<Out(x, q * f)>>
SalesReturnLine(x, q)        == <<Return(x, q)>>
OpeningStockPost(x, q)       == <<In(x, q)>>
=============================================================================

--------------------------- MODULE MCStockPosting ---------------------------
(***************************************************************************)
(* An instance of StockPosting for TLC: two dimensions, of which b has no  *)
(* balance row at first, and documents that contend for them.  The         *)
(* transfer moves one from a to b, and approved again and again it asks    *)
(* for more of a than there is; the verification locks b then a where the  *)
(* transfer locks a then b; the opening stock, the transfer and the        *)
(* verification may all insert the first balance row of b; the sales       *)
(* return brings back one of a.  MCReturnMoves returns to b instead, which *)
(* may have no balance row.                                                *)
(***************************************************************************)
EXTENDS StockPosting, StockDocuments, TLC

CONSTANTS a, b, transfer, verification, opening, return

MCMoves ==
  (transfer     :> TransferLine(a, b, 1)) @@
  (verification :> VerificationLine(b, 1) \o VerificationLine(a, 1)) @@
  (opening      :> OpeningStockPost(b, 1)) @@
  (return       :> SalesReturnLine(a, 1))

MCReturnMoves == (transfer :> TransferLine(a, b, 1)) @@
                 (return   :> SalesReturnLine(b, 1))

MCInitialStock == (a :> 2) @@ (b :> 0)
=============================================================================

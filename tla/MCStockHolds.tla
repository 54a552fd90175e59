---------------------------- MODULE MCStockHolds ----------------------------
(***************************************************************************)
(* One product in two racks: a has stock, b no balance row yet.  Two       *)
(* reservations and a block of it, each of one: two of them fill rack a.   *)
(* The transfer moves stock from a to b and so creates the row of b; the   *)
(* third movement locks the two rows the other way round.                  *)
(***************************************************************************)
EXTENDS StockHolds, TLC

CONSTANTS a, b, r1, r2, block

MCHeldIn == [h \in Hold |-> {a, b}]
MCQuantity == (r1 :> 1) @@ (r2 :> 1) @@ (block :> 1)
Moving(x, d) == [dim |-> x, delta |-> d]
MCMovements ==
  {<<Moving(b, 1)>>,
   <<Moving(a, -1), Moving(b, 1)>>,
   <<Moving(b, -1), Moving(a, 1)>>}
MCInitialStock == (a :> 2) @@ (b :> 0)

\* A product that has never been in stock.
MCNoStock == (a :> 0) @@ (b :> 0)
=============================================================================

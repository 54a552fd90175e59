-------------------------- MODULE MCOrderFulfilment --------------------------
(***************************************************************************)
(* One purchase order of two lines, and three workloads.  grn1 receives    *)
(* half of line p1 into a and line p2 into b; grn2 the other half of p1    *)
(* into b, so the two contend for the balance of b and for the order line  *)
(* in opposite orders.  p1 is ordered in a unit of two.  A challan of a    *)
(* sales order can only issue what grn1 has received.  grn3 and grn4       *)
(* complete the order together and have no row in common; the second line  *)
(* of grn4 was not ordered.                                                *)
(***************************************************************************)
EXTENDS OrderFulfilment, TLC

CONSTANTS po, so, grn1, grn2, grn3, grn4, challan, p1, p2, o1, a, b, c

Part(l, x, q, f) == [line |-> l, dim |-> x, qty |-> q, factor |-> f]

MCLineOrder == (p1 :> po) @@ (p2 :> po) @@ (o1 :> so)
MCOrdered   == (p1 :> 2) @@ (p2 :> 1) @@ (o1 :> 1)
MCUnit      == (p1 :> 2) @@ (p2 :> 1) @@ (o1 :> 1)
MCNoteOrder == [n \in {grn1, grn2, grn3, grn4} |-> po] @@ (challan :> so)
MCNoteLines ==
  (grn1    :> <<Part(p1, a, 1, 2), Part(p2, b, 1, 1)>>) @@
  (grn2    :> <<Part(p1, b, 1, 2)>>) @@
  (grn3    :> <<Part(p1, a, 2, 2)>>) @@
  (grn4    :> <<Part(p2, b, 1, 1), Part(NoLine, c, 1, 1)>>) @@
  (challan :> <<Part(o1, a, 1, 1)>>)
MCWorkloads == {{po, grn1, grn2}, {po, grn1, so, challan}, {po, grn3, grn4}}

\* Here no exception of the properties applies.
ASSUME NotesKeepToTheirOrders == Comparable /\ \A o \in Order : OwnLines(o)
=============================================================================

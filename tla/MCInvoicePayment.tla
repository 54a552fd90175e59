-------------------------- MODULE MCInvoicePayment --------------------------
(***************************************************************************)
(* Invoices i1 and i2 of supplier x and i3 of supplier y, and four payment *)
(* requests: p1 and p2 allocate to i1 and i2 in opposite orders and exceed *)
(* together what i2 owes; p2 and p3 send half cents; p3 names i1 twice,    *)
(* and more than it owes once p1 is paid; p4 is supplier y's, and its      *)
(* second allocation is refused because i1 is not.                         *)
(* i1 has two lines that round up, and one GST rate; i2 a discount.  Months *)
(* have two days: i1 is of the last day of one month, i2 and i3 of the two *)
(* days of the next, and reports are asked before, on and after them.      *)
(***************************************************************************)
EXTENDS InvoiceReports, TLC

CONSTANTS i1, i2, i3, p1, p2, p3, p4

To(i, amount) == [invoice |-> i, amount |-> amount]
Line(product, gst, net, tax) == [product |-> product, gst |-> gst, net |-> net, tax |-> tax]

MCTotal  == (i1 :> 40) @@ (i2 :> 20) @@ (i3 :> 10)
MCParty  == [d \in Invoice \union Payment |-> IF d \in {i3, p4} THEN "y" ELSE "x"]
MCAmount == (p1 :> 30) @@ (p2 :> 30) @@ (p3 :> 40) @@ (p4 :> 20)
MCAllocs == (p1 :> <<To(i1, 10), To(i2, 20)>>) @@
            (p2 :> <<To(i2, 15), To(i1, 15)>>) @@
            (p3 :> <<To(i1, 15), To(i1, 20)>>) @@
            (p4 :> <<To(i3, 10), To(i1, 10)>>)

MCLines    == (i1 :> <<Line("a", "gst", 10, 5), Line("b", "none", 25, 0)>>) @@
              (i2 :> <<Line("a", "none", 32, 0)>>) @@ (i3 :> <<Line("b", "gst", 8, 2)>>)
MCDiscount == (i1 :> 0) @@ (i2 :> 10) @@ (i3 :> 0)
MCDay      == (i1 :> 1) @@ (i2 :> 2) @@ (i3 :> 3)
=============================================================================

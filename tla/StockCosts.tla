------------------------------- MODULE StockCosts -------------------------------
(***************************************************************************)
(* What stock is worth: the cost that each document writes into the        *)
(* ledger, and the moving average that the trigger keeps in the balance    *)
(* row, for the stock of one product in several warehouses.                *)
(*                                                                         *)
(* A document reads the live balance and posts its movements later.  The   *)
(* first of them locks its row until the commit, so posting is one step    *)
(* here (StockPosting has the statements).  Costs are integers, in units   *)
(* of the last digit of numeric(18,4).                                     *)
(***************************************************************************)
EXTENDS Integers, SequencesExt

CONSTANTS
  Warehouse,
  Document,      \* [kind, at, to, qty, factor, rate] of each; rate in the unit of the document
  PurchasePrice, \* of the product
  Drafts         \* which documents are approved at the same time

Names == DOMAIN Document
Kinds == {"goodsReceived", "openingStock", "transfer", "issue", "stockReturn", "salesReturn", "count"}

CostsAssumption ==
  /\ \A d \in Names :
       /\ Document[d].kind \in Kinds /\ {Document[d].at, Document[d].to} \subseteq Warehouse
       /\ Document[d].qty \in Nat /\ Document[d].rate \in Nat /\ Document[d].factor \in Nat \ {0}
       /\ Document[d].kind # "count" => Document[d].qty > 0
       /\ Document[d].kind = "transfer" => Document[d].at # Document[d].to
  /\ PurchasePrice \in Nat /\ Drafts \subseteq SUBSET Names

VARIABLES
  balance,      \* [qty, cost] of each warehouse, NoRow before its first movement
  ledger,       \* movements [doc, at, in, out, cost]
  pc,
  live,         \* the balance a document has read
  stale,        \* documents posted after another one changed the cost they had read
  rounded       \* the sum of the quantities whose average was rounded

vars == <<balance, ledger, pc, live, stale, rounded>>

NoRow == [qty |-> 0, cost |-> -1]

Begin(drafts) ==
  /\ balance = [w \in Warehouse |-> NoRow]
  /\ ledger = {}
  /\ pc = [d \in Names |-> IF d \in drafts THEN "draft" ELSE "absent"]
  /\ live = [d \in Names |-> NoRow]
  /\ stale = {} /\ rounded = 0

Init == \E drafts \in Drafts : Begin(drafts)

\* Division as a numeric column stores it: half a unit is rounded up.
Rounded(n, m) == (2 * n + m) \div (2 * m)

In(d, w, qty, cost)  == [doc |-> d, at |-> w, in |-> qty, out |-> 0, cost |-> cost]
Out(d, w, qty, cost) == [doc |-> d, at |-> w, in |-> 0, out |-> qty, cost |-> cost]

LiveCost(seen, otherwise) == IF seen = NoRow THEN otherwise ELSE seen.cost

\* What each kind of document posts, given the balance it has read.
Movements(d, seen) ==
  LET doc  == Document[d]
      here == LiveCost(seen, 0)
      diff == doc.qty - seen.qty
  IN  CASE doc.kind = "goodsReceived" ->
             <<In(d, doc.at, doc.qty * doc.factor, Rounded(doc.rate, doc.factor))>>
        [] doc.kind = "openingStock" -> <<In(d, doc.at, doc.qty, PurchasePrice)>>
        [] doc.kind = "transfer" -> <<Out(d, doc.at, doc.qty, here), In(d, doc.to, doc.qty, here)>>
        [] doc.kind = "issue" -> <<Out(d, doc.at, doc.qty, here)>>
        [] doc.kind \in {"stockReturn", "salesReturn"} ->
             <<In(d, doc.at, doc.qty, LiveCost(seen, PurchasePrice))>>
        [] doc.kind = "count" ->
             IF diff > 0 THEN <<In(d, doc.at, diff, here)>>
             ELSE IF diff < 0 THEN <<Out(d, doc.at, -diff, here)>> ELSE <<>>

Averages(m) == m.in > 0 /\ m.cost > 0

\* Variant: the average of the two costs, whatever the quantities.
NewAverage_Unweighted(row, m) ==
  IF Averages(m) /\ row # NoRow THEN Rounded(row.cost + m.cost, 2)
  ELSE IF Averages(m) THEN m.cost ELSE LiveCost(row, 0)

\* trg_stock_ledger_to_balance: the new average cost ...
NewAverage(row, m) ==
  IF Averages(m) THEN Rounded(row.qty * LiveCost(row, 0) + m.in * m.cost, row.qty + m.in)
                 ELSE LiveCost(row, 0)

\* ... and the row.
Moved(rows, m) ==
  [rows EXCEPT ![m.at] = [qty |-> @.qty + m.in - m.out, cost |-> NewAverage(@, m)]]

MovedAll(rows, ms) == FoldLeft(Moved, rows, ms)

\* The quantities whose average is rounded by movements that lead to rows.
QtyRounded(rows, ms) ==
  SumFunctionOnSet([k \in DOMAIN ms |-> IF Averages(ms[k]) THEN rows[ms[k].at].qty ELSE 0], DOMAIN ms)

-----------------------------------------------------------------------------
\* The sales return of a product without a balance row never gets further (see StockPosting).
ReadLiveBalance(d) ==
  /\ pc[d] = "draft"
  /\ Document[d].kind = "salesReturn" => balance[Document[d].at] # NoRow
  /\ live' = [live EXCEPT ![d] = balance[Document[d].at]]
  /\ pc' = [pc EXCEPT ![d] = "approving"]
  /\ UNCHANGED <<balance, ledger, stale, rounded>>

\* No movement takes out more than there is; the first of a transfer is the one that takes out.
Sufficient(ms) == \A k \in 1..Len(ms) : ms[k].out <= balance[ms[k].at].qty

Post(d) ==
  LET ms    == Movements(d, live[d])
      after == MovedAll(balance, ms)
  IN  /\ pc[d] = "approving" /\ Sufficient(ms)
      /\ balance' = after
      /\ ledger' = ledger \union ToSet(ms)
      /\ pc' = [pc EXCEPT ![d] = "posted"]
      /\ stale' = IF live[d].cost # balance[Document[d].at].cost THEN stale \union {d} ELSE stale
      /\ rounded' = rounded + QtyRounded(after, ms)
      /\ UNCHANGED live

\* Not enough stock, a timeout, a lost connection: the transaction is rolled back.
Refuse(d) ==
  /\ pc[d] = "approving"
  /\ pc' = [pc EXCEPT ![d] = "draft"]
  /\ live' = [live EXCEPT ![d] = NoRow]
  /\ UNCHANGED <<balance, ledger, stale, rounded>>

Next == \E d \in Names : ReadLiveBalance(d) \/ Post(d) \/ Refuse(d)

Spec == Init /\ [][Next]_vars

-----------------------------------------------------------------------------
TypeOK ==
  /\ \A w \in Warehouse : balance[w] = NoRow \/ (balance[w].qty \in Nat /\ balance[w].cost \in Nat)
  /\ \A m \in ledger : m.doc \in Names /\ m.at \in Warehouse /\ {m.in, m.out, m.cost} \subseteq Nat
  /\ pc \in [Names -> {"absent", "draft", "approving", "posted"}]
  /\ stale \subseteq Names /\ rounded \in Nat

Stocked == {w \in Warehouse : balance[w] # NoRow}

\* v_warehouse_stock_value.
StockValue == SumFunctionOnSet([w \in Warehouse |-> balance[w].qty * balance[w].cost], Stocked)

LedgerValue == SumFunctionOnSet([m \in ledger |-> (m.in - m.out) * m.cost], ledger)

Posted(kind) == {d \in Names : pc[d] = "posted" /\ Document[d].kind = kind}

Paid ==
  {m.cost : m \in {n \in ledger : n.doc \in Posted("goodsReceived") \union Posted("openingStock")}}
    \union (IF Posted("stockReturn") # {} THEN {PurchasePrice} ELSE {})

\* Stock that came in at no cost.
Free == {m \in ledger : m.in > 0 /\ m.cost = 0}

(***************************************************************************)
(* The average cost of a warehouse never leaves the range of the prices    *)
(* paid (going below them only with stock that came in at no cost),        *)
(* however often it is recomputed and rounded and however stale the cost   *)
(* is that a transfer or a return writes.  And the value the dashboard     *)
(* shows is the value of the ledger, but for half a unit for each rounded  *)
(* piece; unless a document takes stock out at a cost that another one has *)
(* changed since it was read, or stock comes in at no cost.                *)
(* trg_stock_ledger_to_balance, v_warehouse_stock_value, and the cost      *)
(* lookups of all documents.                                               *)
(***************************************************************************)
StockIsWorthWhatWasPaid ==
  /\ \A w \in Stocked :
       /\ \E p \in Paid \union {0} : balance[w].cost <= p
       /\ Free = {} => \E p \in Paid : balance[w].cost >= p
  /\ Free = {} /\ (\A m \in ledger : m.doc \in stale => m.out = 0) =>
       LET gap == 2 * (StockValue - LedgerValue) IN gap \in -rounded..rounded
=============================================================================

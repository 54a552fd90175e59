---------------------------- MODULE InvoiceReports ----------------------------
(***************************************************************************)
(* What the reports, the dashboard and the outstanding views say of the    *)
(* invoices: each is one statement that reads committed rows, by document  *)
(* line or by header.  As in InvoicePayment, purchase invoices stand for   *)
(* both kinds; the reports of sales are the same statements over the other *)
(* tables.                                                                 *)
(*                                                                         *)
(* A line is [product, gst, net, tax], in tenths of a cent before the      *)
(* database rounds: the header stores the rounded sum of the lines less    *)
(* the discount, each line its own rounded total.  Days are numbers, and a *)
(* month has MonthLength of them.                                          *)
(***************************************************************************)
EXTENDS InvoicePayment

CONSTANTS
  Lines,        \* the lines of each invoice
  Discount,     \* discount_amount of each invoice
  Day,          \* invoice_date of each: any date the request named, also one to come
  Date,         \* the days somebody asks on (CURRENT_DATE) and for
  MonthLength

LineIds(i) == {<<i, k>> : k \in 1..Len(Lines[i])}
LineOf(id) == Lines[id[1]][id[2]]

\* createWithLines: the total of the header, and of a line.
ComputedTotal(i) ==
  Stored(SumFunctionOnSet([id \in LineIds(i) |-> LineOf(id).net + LineOf(id).tax], LineIds(i))
           - Discount[i])

LineTotal(id) == Stored(LineOf(id).net + LineOf(id).tax)
LineTax(id)   == Stored(LineOf(id).tax)

ASSUME ReportsAssumption ==
  /\ Lines \in [Invoice -> Seq([product : STRING, gst : STRING, net : Nat, tax : Nat])]
  /\ Discount \in [Invoice -> Nat] /\ IsFiniteSet(Invoice)
  /\ \A i \in Invoice : Total[i] = ComputedTotal(i)
  /\ Day \in [Invoice -> Nat] /\ Date \subseteq Nat /\ MonthLength \in Nat \ {0}

Days == [from : Date, to : Date]
In(i, days) == Day[i] \in days.from..days.to

Exists(i) == saved.status[i] \notin {"absent", "deleted"}

\* The WHERE clause all of them share: nothing but 'cancelled' is left out, drafts are in.
Counted(days) == {i \in Invoice : Exists(i) /\ In(i, days) /\ saved.status[i] # "cancelled"}

\* Variant: the register lists approved invoices.
Register_NoDrafts(days) ==
  {[invoice |-> i, party |-> Party[i], total |-> Total[i], paid |-> saved.paid[i]] :
     i \in {j \in Counted(days) : saved.status[j] # "draft"}}

\* salesRegister and purchaseRegister, without their optional filters.
Register(days) ==
  {[invoice |-> i, party |-> Party[i], total |-> Total[i], paid |-> saved.paid[i]] : i \in Counted(days)}

LinesOf(invoices) == UNION {LineIds(i) : i \in invoices}
SumTotals(invoices) == SumFunctionOnSet(Total, invoices)

\* The rows of GROUP BY key, each with what its group adds up.
Grouped(ids, key, amount) ==
  {[key |-> k, amount |-> SumFunctionOnSet(amount, {id \in ids : key[id] = k})] :
     k \in {key[id] : id \in ids}}

\* salesByProduct and purchaseByProduct; salesByCustomer and purchaseBySupplier.
ByProduct(days) ==
  LET ids == LinesOf(Counted(days))
  IN  Grouped(ids, [id \in ids |-> LineOf(id).product], [id \in ids |-> LineTotal(id)])

ByParty(days) == Grouped(Counted(days), Party, Total)

\* gstOutputSummary and gstInputSummary.
GstSummary(days) ==
  LET ids == LinesOf(Counted(days))
      Of(g) == {id \in ids : LineOf(id).gst = g}
  IN  {[gst |-> g,
        taxable |-> SumFunctionOnSet([id \in ids |-> LineTotal(id) - LineTax(id)], Of(g)),
        tax |-> SumFunctionOnSet([id \in ids |-> LineTax(id)], Of(g))] :
         g \in {LineOf(id).gst : id \in ids}}

\* The dashboard: figures of the day it is asked, and one point for each of the last months.
TodayFigures(today) == SumTotals(Counted([from |-> today, to |-> today]))

MonthOf(day) == day \div MonthLength

MonthlyGraph(today, months) ==
  [m \in MonthOf(today) - (months - 1)..MonthOf(today) |->
     SumTotals({i \in Invoice : Exists(i) /\ saved.status[i] # "cancelled" /\ MonthOf(Day[i]) = m})]

\* v_outstanding_payables and v_outstanding_receivables.
OutstandingView ==
  {[invoice |-> i, party |-> Party[i], outstanding |-> Total[i] - saved.paid[i]] :
     i \in {j \in Invoice : saved.status[j] \in {"approved", "partially_paid"}
                              /\ Total[j] > saved.paid[j]}}

-----------------------------------------------------------------------------
Until(day) == [from |-> 0, to |-> day]

\* From the first day of one month to the last day of another.
Months(first, last) == [from |-> first * MonthLength, to |-> last * MonthLength + (MonthLength - 1)]

\* Half a cent.
Rounding == 5

(***************************************************************************)
(* The reports tell one story.  At any moment, and whatever dates invoices *)
(* bear, also dates to come: for any period the totals by party add up to  *)
(* the register to the cent, the totals by product and the GST summary add *)
(* up to each other, and to the register plus the discounts but for half a *)
(* cent for every line and header that was rounded; the figures of today   *)
(* are what the register of today has over that of yesterday; the months   *)
(* of the graph add up to the register until the last day of this month,   *)
(* not until today; and what is outstanding is what was invoiced and       *)
(* approved less what payments have allocated, although the status and     *)
(* paid_amount it is computed from are written by approvals and payments   *)
(* that race.  reports.kysely-repository.ts, dashboard.kysely-repository.ts *)
(* and 001_reporting_views.sql.                                            *)
(***************************************************************************)
ReportsAgree ==
  LET Listed(days) == SumFunctionOnSet([r \in Register(days) |-> r.total], Register(days))
      owed == {i \in Invoice : saved.status[i] \in {"approved", "partially_paid", "paid"}}
  IN  /\ \A days \in Days :
           LET counted  == Counted(days)
               parties  == ByParty(days)
               products == ByProduct(days)
               rates    == GstSummary(days)
               lineSum  == SumFunctionOnSet([g \in products |-> g.amount], products)
               gap      == lineSum - SumFunctionOnSet(Discount, counted) - Listed(days)
               most     == Rounding * (Cardinality(LinesOf(counted)) + Cardinality(counted))
           IN  /\ SumFunctionOnSet([g \in parties |-> g.amount], parties) = Listed(days)
               /\ SumFunctionOnSet([g \in rates |-> g.taxable + g.tax], rates) = lineSum
               /\ gap \in -most..most
      /\ \A today \in Date :
           /\ Listed(Until(today - 1)) + TodayFigures(today) = Listed(Until(today))
           /\ \A first \in 0..MonthOf(today) :
                SumFunctionOnSet(MonthlyGraph(today, MonthOf(today) - first + 1), first..MonthOf(today))
                  = Listed(Months(first, MonthOf(today)))
      /\ SumFunctionOnSet([r \in OutstandingView |-> r.outstanding], OutstandingView)
           = SumTotals(owed) - SumFunctionOnSet([i \in owed |-> AllocatedTo(i)], owed)
=============================================================================

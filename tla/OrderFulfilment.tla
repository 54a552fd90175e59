--------------------------- MODULE OrderFulfilment ---------------------------
(***************************************************************************)
(* Purchase orders received by goods received notes, and sales orders      *)
(* delivered by delivery challans.                                         *)
(*                                                                         *)
(* Completing a note is one READ COMMITTED transaction: per line it posts  *)
(* the stock movement and adds the quantity to the order line; then it     *)
(* sets the header of the note, reads all lines of the order, and sets the *)
(* status of the order.  Approving and cancelling an order read its status *)
(* and then write it without looking again.  Each read and each row write  *)
(* is a step, so all interleavings of these transactions are behaviours.   *)
(*                                                                         *)
(* The stock balance is one number per dimension here; how a movement gets *)
(* there, and its ledger, is StockPosting's subject, and so is a note that *)
(* has no order: it moves stock and nothing else.                          *)
(***************************************************************************)
EXTENDS Integers, Sequences, FiniteSets, Functions

CONSTANTS
  Session,      \* database connections, one per HTTP request being served
  PurchaseOrder, SalesOrder,
  Grn,          \* goods received notes, of purchase orders
  Challan,      \* delivery challans, of sales orders
  Line,         \* order lines
  Dim,          \* stock dimensions
  LineOrder,    \* the order of each line
  Ordered,      \* its quantity, in the unit of the line
  Unit,         \* the conversion factor of that unit
  NoteOrder,    \* po_id or so_id of each note
  NoteLines,    \* the lines of each note: [line, dim, qty, factor]
  Workloads,    \* which orders and notes there will be
  NoLine, NoSession, NoTarget

Order == PurchaseOrder \union SalesOrder
Note  == Grn \union Challan
Row   == Order \union Note \union Line \union Dim   \* the rows that get locked

NoteLine == [line : Line \union {NoLine}, dim : Dim,
             qty : Nat \ {0}, factor : Nat \ {0}]

\* What the tables and their foreign keys leave room for.
ASSUME FulfilmentAssumption ==
  /\ LineOrder \in [Line -> Order]
  /\ Ordered \in [Line -> Nat \ {0}]
  /\ NoteOrder \in [Note -> Order]
  /\ NoteLines \in [Note -> Seq(NoteLine)]
  /\ Unit \in [Line -> Nat \ {0}]
  /\ Workloads \subseteq SUBSET (Order \union Note)
  /\ NoSession \notin Session /\ NoLine \notin Line
  /\ \A T \in {Order, Line, Dim} : Note \intersect T = {}
  /\ Order \intersect Line = {} /\ Order \intersect Dim = {} /\ Line \intersect Dim = {}
  /\ PurchaseOrder \intersect SalesOrder = {} /\ Grn \intersect Challan = {}
  /\ IsFiniteSet(Note) /\ IsFiniteSet(Line) /\ IsFiniteSet(Dim)
  /\ \A n \in Note : \A i \in 1..Len(NoteLines[n]) :
       NoteLines[n][i].line # NoLine =>
         LineOrder[NoteLines[n][i].line] \in (IF n \in Grn THEN PurchaseOrder ELSE SalesOrder)

VARIABLES
  latest,     \* newest version of each row: a status, or a quantity
  committed,  \* the version other sessions see
  holder,     \* the session whose transaction has written the row
  pc, target, todo,
  verdict,    \* the order status a completing note has decided on
  met         \* orders judged while another note had judged it, but not committed

rowVars == <<latest, committed, holder>>
vars    == <<rowVars, pc, target, todo, verdict, met>>

LinesOf(o) == {l \in Line : LineOrder[l] = o}

\* What a note and an order are called when done, and an order half done.
Done(n)    == IF n \in Grn THEN "completed" ELSE "delivered"
Partial(o) == IF o \in PurchaseOrder THEN "partially_received"
                                     ELSE "partially_delivered"

\* At the beginning, the orders and notes of w are still to come, and no others.
Begin(w) ==
  /\ latest = [r \in Row |-> IF r \in Line \union Dim THEN 0
                             ELSE IF r \in w THEN "absent" ELSE "deleted"]
  /\ committed = latest
  /\ holder = [r \in Row |-> NoSession]
  /\ pc = [s \in Session |-> "idle"]
  /\ target = [s \in Session |-> NoTarget]
  /\ todo = [s \in Session |-> <<>>]
  /\ verdict = [s \in Session |-> "none"]
  /\ met = {}

Init == \E w \in Workloads : Begin(w)

Free(s, r) == holder[r] \in {NoSession, s}
Seen(s, r) == IF holder[r] = s THEN latest[r] ELSE committed[r]

Idle(s) ==
  /\ holder' = [r \in Row |-> IF holder[r] = s THEN NoSession ELSE holder[r]]
  /\ pc' = [pc EXCEPT ![s] = "idle"]
  /\ target' = [target EXCEPT ![s] = NoTarget]
  /\ todo' = [todo EXCEPT ![s] = <<>>]
  /\ verdict' = [verdict EXCEPT ![s] = "none"]
  /\ UNCHANGED met

\* Variant: statements of a failed request stay.
Rollback_Autocommit(s) ==
  /\ committed' = [r \in Row |-> Seen(s, r)]
  /\ UNCHANGED latest
  /\ Idle(s)

Rollback(s) ==
  /\ latest' = [r \in Row |-> IF holder[r] = s THEN committed[r] ELSE latest[r]]
  /\ UNCHANGED committed
  /\ Idle(s)

(***************************************************************************)
(* The transaction's last statement writes v to row r, and it commits: one *)
(* step, because whoever wants the row in between waits for the commit.    *)
(* An order row is only written this way, so nobody ever finds it locked.  *)
(***************************************************************************)
WriteAndCommit(s, r, v) ==
  /\ latest' = [latest EXCEPT ![r] = v]
  /\ committed' = [q \in Row |-> IF q = r THEN v ELSE Seen(s, q)]
  /\ Idle(s)

Commit(s) ==
  /\ committed' = [r \in Row |-> Seen(s, r)]
  /\ UNCHANGED latest
  /\ Idle(s)

\* A statement in the middle of the transaction writes v to row r.
Write(s, r, v) ==
  /\ Free(s, r)
  /\ latest' = [latest EXCEPT ![r] = v]
  /\ holder' = [holder EXCEPT ![r] = s]
  /\ UNCHANGED committed

\* A statement of its own (autocommit) sets the status of r.
SetStatus(r, v) ==
  /\ latest' = [latest EXCEPT ![r] = v]
  /\ committed' = [committed EXCEPT ![r] = v]
  /\ UNCHANGED <<holder, pc, target, todo, verdict, met>>

-----------------------------------------------------------------------------
(* Orders.                                                                 *)

CreateOrder(o) == committed[o] = "absent" /\ SetStatus(o, "draft")

\* ON DELETE RESTRICT keeps an order that a note refers to.
DeleteOrder(o) ==
  /\ committed[o] = "draft"
  /\ \A n \in Note : NoteOrder[n] = o => committed[n] \in {"absent", "deleted"}
  /\ SetStatus(o, "deleted")

BeginApprove(s, o) ==
  /\ pc[s] = "idle" /\ committed[o] = "draft"
  /\ pc' = [pc EXCEPT ![s] = "approve"]
  /\ target' = [target EXCEPT ![s] = o]
  /\ UNCHANGED <<rowVars, todo, verdict, met>>

BeginCancel(s, o) ==
  /\ pc[s] = "idle" /\ committed[o] \in {"draft", "approved"}
  /\ pc' = [pc EXCEPT ![s] = "cancel"]
  /\ target' = [target EXCEPT ![s] = o]
  /\ UNCHANGED <<rowVars, todo, verdict, met>>

\* UPDATE ... WHERE id: whatever the status has become meanwhile.
ApproveOrder(s) ==
  /\ pc[s] = "approve" /\ latest[target[s]] # "deleted"
  /\ WriteAndCommit(s, target[s], "approved")

CancelOrder(s) ==
  /\ pc[s] = "cancel" /\ latest[target[s]] # "deleted"
  /\ WriteAndCommit(s, target[s], "cancelled")

OrderGone(s) ==
  /\ pc[s] \in {"approve", "cancel"} /\ latest[target[s]] = "deleted"
  /\ Rollback(s)

-----------------------------------------------------------------------------
(* Notes.  Nothing looks at the status of the order before it is received. *)

CreateNote(n) ==
  /\ committed[n] = "absent"
  /\ committed[NoteOrder[n]] \notin {"absent", "deleted"}
  /\ SetStatus(n, "draft")

DeleteNote(n) ==
  /\ holder[n] = NoSession
  /\ committed[n] = "draft"
  /\ SetStatus(n, "deleted")

BeginNote(s, n) ==
  /\ pc[s] = "idle" /\ committed[n] = "draft"
  /\ pc' = [pc EXCEPT ![s] = "lines"]
  /\ target' = [target EXCEPT ![s] = n]
  /\ UNCHANGED <<rowVars, todo, verdict, met>>

ReadLines(s) ==
  /\ pc[s] = "lines"
  /\ pc' = [pc EXCEPT ![s] = "stock"]
  /\ todo' = [todo EXCEPT ![s] = IF committed[target[s]] = "deleted" THEN <<>>
                                 ELSE NoteLines[target[s]]]
  /\ UNCHANGED <<rowVars, target, verdict, met>>

Cur(s) == Head(todo[s])
AtLine(s) == pc[s] = "stock" /\ todo[s] # <<>>
Base(s) == Cur(s).qty * Cur(s).factor

\* After its stock movement a line of an order is counted on that order.
ToOrderLine(s) ==
  /\ pc' = [pc EXCEPT ![s] = IF Cur(s).line = NoLine THEN "stock" ELSE "count"]
  /\ todo' = [todo EXCEPT ![s] = IF Cur(s).line = NoLine THEN Tail(@) ELSE @]
  /\ UNCHANGED <<target, verdict, met>>

\* purchase_in.
ReceiveGoods(s) ==
  /\ AtLine(s) /\ target[s] \in Grn
  /\ Write(s, Cur(s).dim, latest[Cur(s).dim] + Base(s))
  /\ ToOrderLine(s)

\* Variant: no guard, and no CHECK on the balance.
IssueGoods_Unchecked(s) ==
  /\ AtLine(s) /\ target[s] \in Challan
  /\ Write(s, Cur(s).dim, latest[Cur(s).dim] - Base(s))
  /\ ToOrderLine(s)

\* sales_out, guarded by a plain read and by the CHECK under the row lock.
IssueGoods(s) ==
  /\ AtLine(s) /\ target[s] \in Challan
  /\ Seen(s, Cur(s).dim) >= Base(s) /\ latest[Cur(s).dim] >= Base(s)
  /\ Write(s, Cur(s).dim, latest[Cur(s).dim] - Base(s))
  /\ ToOrderLine(s)

RefuseIssue(s) ==
  /\ AtLine(s) /\ target[s] \in Challan
  /\ \/ Seen(s, Cur(s).dim) < Base(s)
     \/ Free(s, Cur(s).dim) /\ latest[Cur(s).dim] < Base(s)
  /\ Rollback(s)

\* Variant: SET received_quantity = qty.
CountLine_Overwrites(s) ==
  /\ pc[s] = "count"
  /\ Write(s, Cur(s).line, Cur(s).qty)
  /\ pc' = [pc EXCEPT ![s] = "stock"]
  /\ todo' = [todo EXCEPT ![s] = Tail(@)]
  /\ UNCHANGED <<target, verdict, met>>

\* SET received_quantity = received_quantity + qty (delivered_quantity).
CountLine(s) ==
  /\ pc[s] = "count"
  /\ Write(s, Cur(s).line, latest[Cur(s).line] + Cur(s).qty)
  /\ pc' = [pc EXCEPT ![s] = "stock"]
  /\ todo' = [todo EXCEPT ![s] = Tail(@)]
  /\ UNCHANGED <<target, verdict, met>>

AtHeader(s) == pc[s] = "stock" /\ todo[s] = <<>>

CompleteNote(s) ==
  /\ AtHeader(s) /\ latest[target[s]] # "deleted"
  /\ Write(s, target[s], Done(target[s]))
  /\ pc' = [pc EXCEPT ![s] = "progress"]
  /\ UNCHANGED <<target, todo, verdict, met>>

NoteGone(s) ==
  /\ AtHeader(s) /\ Free(s, target[s]) /\ latest[target[s]] = "deleted"
  /\ Rollback(s)

\* Variant: every() became some().
Progress_AnyLineFull(s, o) ==
  IF \E l \in LinesOf(o) : Seen(s, l) >= Ordered[l] THEN "completed"
  ELSE IF \E l \in LinesOf(o) : Seen(s, l) > 0 THEN Partial(o)
  ELSE "none"

Progress(s, o) ==
  IF \A l \in LinesOf(o) : Seen(s, l) >= Ordered[l] THEN "completed"
  ELSE IF \E l \in LinesOf(o) : Seen(s, l) > 0 THEN Partial(o)
  ELSE "none"

\* The lines of the order as this transaction sees them.
ReadProgress(s) ==
  LET o == NoteOrder[target[s]]
      p == Progress(s, o)
  IN  /\ pc[s] = "progress"
      /\ \/ p = "none" /\ Commit(s)
         \/ /\ p # "none"
            /\ verdict' = [verdict EXCEPT ![s] = p]
            /\ met' = met \union {q \in {o} : \E t \in Session :
                                        pc[t] = "order" /\ NoteOrder[target[t]] = o}
            /\ pc' = [pc EXCEPT ![s] = "order"]
            /\ UNCHANGED <<rowVars, target, todo>>

\* UPDATE ... WHERE status IN ('approved', 'partially_...').
UpdateOrder(s) ==
  LET o == NoteOrder[target[s]]
  IN  /\ pc[s] = "order"
      /\ WriteAndCommit(s, o, IF latest[o] \in {"approved", Partial(o)}
                              THEN verdict[s] ELSE latest[o])

-----------------------------------------------------------------------------
(* Row waits, deadlocks, failures.                                         *)

\* The row that session s needs next and others may hold.
Wanted(s) ==
  CASE AtLine(s)       -> IF target[s] \in Challan /\ Seen(s, Cur(s).dim) < Base(s)
                          THEN {} ELSE {Cur(s).dim}
    [] pc[s] = "count" -> {Cur(s).line}
    [] AtHeader(s)     -> {target[s]}
    [] OTHER           -> {}

WaitsFor(s) == {holder[r] : r \in Wanted(s)} \ {NoSession, s}

\* Variant: no deadlock detection.
DeadlockVictim_None(s) == FALSE /\ Rollback(s)

\* The deadlock detector cancels a transaction of a cycle of waits.
DeadlockVictim(s) ==
  /\ \E C \in SUBSET Session :
       /\ s \in C
       /\ UNION {WaitsFor(t) : t \in C} = C
       /\ \A t \in C : WaitsFor(t) # {}
  /\ Rollback(s)

\* statement_timeout, a lost connection or a crash of the backend process.
Fail(s) == pc[s] # "idle" /\ Rollback(s)

Step(s) ==
  \/ ApproveOrder(s) \/ CancelOrder(s) \/ OrderGone(s)
  \/ ReadLines(s) \/ ReceiveGoods(s) \/ IssueGoods(s) \/ RefuseIssue(s)
  \/ CountLine(s) \/ CompleteNote(s) \/ NoteGone(s)
  \/ ReadProgress(s) \/ UpdateOrder(s) \/ DeadlockVictim(s)

Next ==
  \/ \E o \in Order : CreateOrder(o) \/ DeleteOrder(o)
  \/ \E n \in Note : CreateNote(n) \/ DeleteNote(n)
  \/ \E s \in Session :
       \/ Step(s) \/ Fail(s)
       \/ \E o \in Order : BeginApprove(s, o) \/ BeginCancel(s, o)
       \/ \E n \in Note : BeginNote(s, n)

Spec == Init /\ [][Next]_vars

\* Requests are served and row queues are first come, first served; nobody
\* has to ask for anything and nothing has to fail.
FairSpec == Spec /\ \A s \in Session : SF_vars(Step(s))

-----------------------------------------------------------------------------
(* Properties.                                                             *)

OrderStatus == {"absent", "draft", "approved", "partially_received",
                "partially_delivered", "completed", "cancelled", "deleted"}
NoteStatus  == {"absent", "draft", "completed", "delivered", "deleted"}

RowOK(r, v) ==
  CASE r \in Order -> v \in OrderStatus
    [] r \in Note  -> v \in NoteStatus
    [] OTHER       -> v \in Nat

TypeOK ==
  /\ \A r \in Row : RowOK(r, latest[r]) /\ RowOK(r, committed[r])
  /\ holder \in [Row -> Session \union {NoSession}]
  /\ pc \in [Session -> {"idle", "approve", "cancel", "lines", "stock",
                         "count", "progress", "order"}]
  /\ target \in [Session -> Order \union Note \union {NoTarget}]
  /\ todo \in [Session -> Seq(NoteLine)]
  /\ verdict \in [Session -> OrderStatus \union {"none"}]
  /\ met \subseteq Order

(***************************************************************************)
(* The status of an order never claims more than its lines say: it is      *)
(* completed only when every line is fully received or delivered, and      *)
(* half done only when some quantity is, although the lines are read       *)
(* without locks and an approval or a cancel may overwrite the status.     *)
(* Nor does half done claim less, unless one note read the lines while     *)
(* another had judged them, but not committed, or a note of another order  *)
(* names a line of this one: nothing checks that a note keeps to its own.  *)
(***************************************************************************)
OwnLines(o) ==
  \A n \in Note : \A i \in 1..Len(NoteLines[n]) :
    NoteLines[n][i].line \in LinesOf(o) => NoteOrder[n] = o

StatusAgreesWithLines ==
  \A o \in Order :
    LET full == \A l \in LinesOf(o) : committed[l] >= Ordered[l]
    IN  /\ committed[o] = "completed" => full
        /\ committed[o] = Partial(o) =>
             /\ \E l \in LinesOf(o) : committed[l] > 0
             /\ full /\ OwnLines(o) => o \in met

\* What note n carries for order line l, and the notes that are done.
Carried(n, l) ==
  SumFunctionOnSet([i \in 1..Len(NoteLines[n]) |-> NoteLines[n][i].qty],
                   {i \in 1..Len(NoteLines[n]) : NoteLines[n][i].line = l})
Finished == {n \in Note : committed[n] = Done(n)}

(***************************************************************************)
(* Every note that is done is counted on the order lines it names, whoever *)
(* counted at the same time, and nothing else is: a line with a received   *)
(* or delivered quantity has a note that is done.                          *)
(***************************************************************************)
CompletionsAreCounted ==
  \A l \in Line :
    /\ SumFunctionOnSet([n \in Note |-> Carried(n, l)], Finished) <= committed[l]
    /\ committed[l] > 0 => \E n \in Finished : Carried(n, l) > 0

\* The dimensions only lines of orders move.
Linked ==
  {x \in Dim : \A n \in Note : \A i \in 1..Len(NoteLines[n]) :
     NoteLines[n][i].dim = x => NoteLines[n][i].line # NoLine}

\* The notes are in the units of the orders, and keep to those dimensions.
Comparable ==
  \A n \in Note : \A i \in 1..Len(NoteLines[n]) :
    NoteLines[n][i].line # NoLine =>
      /\ NoteLines[n][i].dim \in Linked
      /\ NoteLines[n][i].factor = Unit[NoteLines[n][i].line]

(***************************************************************************)
(* Stock and orders tell the same story, when they can be compared: what   *)
(* is on hand in base units is what the purchase orders say was received,  *)
(* less what the sales orders say was delivered.  A note that fails        *)
(* between its stock movement and its order line breaks this unless both   *)
(* are rolled back.                                                        *)
(***************************************************************************)
StockAgreesWithOrders ==
  LET InBaseUnits(O) == SumFunctionOnSet([l \in Line |-> committed[l] * Unit[l]],
                                         {l \in Line : LineOrder[l] \in O})
  IN  Comparable => SumFunctionOnSet(committed, Linked)
                      = InBaseUnits(PurchaseOrder) - InBaseUnits(SalesOrder)

(***************************************************************************)
(* Every request is answered, also when two notes lock the same balance    *)
(* and order line in opposite orders.                                      *)
(***************************************************************************)
RequestsFinish == \A s \in Session : pc[s] # "idle" ~> pc[s] = "idle"

(***************************************************************************)
(* "draft|approved -> cancelled": an order is not cancelled once receiving *)
(* has started.  Refuted: the status is checked by a plain read and        *)
(* written without looking again.                                          *)
(***************************************************************************)
CancelsOnlyBeforeReceiving ==
  [][\A o \in Order :
       committed'[o] = "cancelled" /\ committed[o] # "cancelled"
         => committed[o] \in {"draft", "approved"}]_vars
=============================================================================

------------------------------ MODULE Quotations ------------------------------
(***************************************************************************)
(* Quotations: draft, sent, accepted or rejected, and converted to a sales *)
(* order.  Every operation is a transaction that reads the status without  *)
(* locking the row and later writes by id; a conversion takes the next     *)
(* order number in between, and the counter row keeps other conversions    *)
(* out from there to its commit, so its writes are one step.               *)
(***************************************************************************)
EXTENDS Services, Naturals, FiniteSets

CONSTANTS
  Quotation,
  Request, Op, On,   \* requests: the operation, and the quotation it is for
  Workloads          \* which requests run at the same time

QuotationAssumption ==
  /\ On \in [Request -> Quotation]
  /\ Op \in [Request -> {"create", "send", "accept", "reject", "convertToSalesOrder", "delete"}]
  /\ Workloads \subseteq SUBSET Request

VARIABLES
  status,       \* of each quotation
  orders,       \* the conversions that have inserted a sales order
  pc, reply,
  overlapped    \* quotations for which two requests were under way at once

vars == <<status, orders, pc, reply, overlapped>>

\* At the beginning, the requests of w are about to come.
Begin(w) ==
  /\ status = [q \in Quotation |-> "absent"]
  /\ orders = {}
  /\ pc = [r \in Request |-> IF r \in w THEN "start" ELSE "unsent"]
  /\ reply = [r \in Request |-> 0]
  /\ overlapped = {}

Init == \E w \in Workloads : Begin(w)

SetStatus(r, s) == status' = [status EXCEPT ![On[r]] = s]

Finish(r, result) ==
  /\ pc' = [pc EXCEPT ![r] = "done"]
  /\ reply' = [reply EXCEPT ![r] = Answer("quotations", Op[r], result)]

Begins(r) ==
  overlapped' = IF \E q \in Request : On[q] = On[r] /\ pc[q] = "write"
                THEN overlapped \union {On[r]} ELSE overlapped

CreateWithLines(r) ==
  /\ pc[r] = "start" /\ Op[r] = "create" /\ status[On[r]] = "absent"
  /\ SetStatus(r, "draft") /\ Finish(r, "ok")
  /\ UNCHANGED <<orders, overlapped>>

\* The status an operation starts from, and the one it leaves.
From(op) == CASE op = "send" -> "draft"
              [] op \in {"accept", "reject"} -> "sent"
              [] op = "convertToSalesOrder" -> "accepted"

To(op) == CASE op = "send" -> "sent"
            [] op = "accept" -> "accepted"
            [] op = "reject" -> "rejected"
            [] op = "convertToSalesOrder" -> "converted"

Exists(r) == status[On[r]] \notin {"absent", "deleted"}

\* The SELECT at the beginning of transitionStatus and of convertToSalesOrder.
Check(r) ==
  /\ pc[r] = "start" /\ Op[r] \notin {"create", "delete"}
  /\ Begins(r)
  /\ IF ~Exists(r) THEN Finish(r, "DocumentNotFound")
     ELSE IF status[On[r]] # From(Op[r]) THEN Finish(r, "DocumentNotDraft")
     ELSE pc' = [pc EXCEPT ![r] = "write"] /\ UNCHANGED reply
  /\ UNCHANGED <<status, orders>>

\* The UPDATE does not look at the status again; it throws if the row is gone.
TransitionStatus(r) ==
  /\ pc[r] = "write" /\ Op[r] \in {"send", "accept", "reject"}
  /\ IF Exists(r) THEN SetStatus(r, To(Op[r])) /\ Finish(r, "ok")
                  ELSE Finish(r, "crash") /\ UNCHANGED status
  /\ UNCHANGED <<orders, overlapped>>

\* Variant: the quotation stays accepted.
ConvertToSalesOrder_StaysAccepted(r) ==
  /\ pc[r] = "write" /\ Op[r] = "convertToSalesOrder"
  /\ orders' = orders \union {r}
  /\ Finish(r, "ok")
  /\ UNCHANGED <<status, overlapped>>

ConvertToSalesOrder(r) ==
  /\ pc[r] = "write" /\ Op[r] = "convertToSalesOrder"
  /\ orders' = orders \union {r}
  /\ SetStatus(r, To(Op[r]))
  /\ Finish(r, "ok")
  /\ UNCHANGED overlapped

Delete(r) ==
  /\ pc[r] = "start" /\ Op[r] = "delete"
  /\ Begins(r)
  /\ IF status[On[r]] = "draft" THEN SetStatus(r, "deleted") /\ Finish(r, "ok")
                                ELSE Finish(r, "none") /\ UNCHANGED status
  /\ UNCHANGED orders

\* The transaction fails and is rolled back.
Fail(r) ==
  /\ pc[r] = "write" /\ Finish(r, "crash")
  /\ UNCHANGED <<status, orders, overlapped>>

Step(r) ==
  CreateWithLines(r) \/ Check(r) \/ TransitionStatus(r) \/ ConvertToSalesOrder(r) \/ Delete(r)

Next == \E r \in Request : Step(r) \/ Fail(r)

Spec == Init /\ [][Next]_vars

-----------------------------------------------------------------------------
TypeOK ==
  /\ status \in [Quotation -> {"absent", "draft", "sent", "accepted", "rejected", "converted", "deleted"}]
  /\ orders \subseteq Request
  /\ pc \in [Request -> {"unsent", "start", "write", "done"}]
  /\ reply \in [Request -> {0, 200, 404, 409, 500}]
  /\ overlapped \subseteq Quotation

OrdersOf(q) == {r \in orders : On[r] = q}

(***************************************************************************)
(* A quotation has one sales order if it is converted, and none otherwise, *)
(* whatever a client repeats or retries after a failure.  Only requests    *)
(* that overlap can give it a second order, or a status of before the      *)
(* order, since none of them locks the quotation it has read; even then a  *)
(* quotation that was never accepted has no order.                         *)
(* quotation.kysely-repository.ts transitionStatus, convertToSalesOrder.   *)
(***************************************************************************)
OneOrderPerQuotation ==
  \A q \in Quotation :
    /\ q \notin overlapped =>
         Cardinality(OrdersOf(q)) = IF status[q] = "converted" THEN 1 ELSE 0
    /\ OrdersOf(q) # {} => status[q] \notin {"draft", "deleted"}
                             /\ \E r \in Request : On[r] = q /\ Op[r] = "accept" /\ reply[r] = 200
=============================================================================

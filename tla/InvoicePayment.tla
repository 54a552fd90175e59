---------------------------- MODULE InvoicePayment ----------------------------
(***************************************************************************)
(* Invoices and the payments that are allocated to them: supplier payments *)
(* to purchase invoices; customer payments to sales invoices are the same  *)
(* code with other table names.                                            *)
(*                                                                         *)
(* createWithAllocations is one READ COMMITTED transaction.  Its first     *)
(* statement takes the next payment number by updating the counter row of  *)
(* the financial year, which stays locked until the commit; then it locks  *)
(* (SELECT ... FOR UPDATE), checks and updates one invoice per allocation. *)
(* Approving an invoice reads its status and later writes 'approved'       *)
(* without looking again.                                                  *)
(*                                                                         *)
(* Money is in tenths of a cent: what the client sends is exact in them,   *)
(* and what a numeric(18,2) column stores is rounded to whole cents.       *)
(***************************************************************************)
EXTENDS Integers, Sequences, FiniteSets, FiniteSetsExt

CONSTANTS
  Session,      \* database connections, one per HTTP request being served
  Invoice,
  Payment,      \* payment requests
  Total,        \* total_amount of each invoice, as stored
  Party,        \* supplier (or customer) of each invoice and payment
  Amount,       \* amount of each payment request
  Allocs,       \* its allocations in order: [invoice, amount]
  Counter,      \* the row of document_number_sequences for payments
  NoSession, NoTarget

\* @Min(0.01): nothing smaller than a cent is asked for.
Asked == {n \in Nat : n >= 10}
Alloc == [invoice : Invoice, amount : Asked]

ASSUME PaymentAssumption ==
  /\ Total \in [Invoice -> Nat] /\ \A i \in Invoice : Total[i] % 10 = 0
  /\ Amount \in [Payment -> Asked]
  /\ Allocs \in [Payment -> Seq(Alloc)]
  /\ Counter \notin Invoice
  /\ NoSession \notin Session

VARIABLES
  status,       \* status of each invoice, its newest version
  paid,         \* paid_amount of each invoice, its newest version
  counter,      \* last_number, its newest version
  saved,        \* the committed version of the three
  holder,       \* the session whose transaction has written or locked a row
  number,       \* number of each committed payment, 0 if there is none
  allocations,  \* committed allocation rows: [payment, line, invoice, amount]
  pc, target, line,
  mine          \* allocation rows a transaction has inserted so far

rowVars == <<status, paid, counter, saved, holder, number, allocations>>
vars    == <<rowVars, pc, target, line, mine>>

Status == {"absent", "draft", "approved", "partially_paid", "paid", "deleted"}

\* What a numeric(18,2) column keeps of an amount.
Stored(amount) == ((amount + 5) \div 10) * 10

Init ==
  /\ status = [i \in Invoice |-> "absent"]
  /\ paid = [i \in Invoice |-> 0]
  /\ counter = 0
  /\ saved = [status |-> status, paid |-> paid, counter |-> 0]
  /\ holder = [r \in Invoice \union {Counter} |-> NoSession]
  /\ number = [p \in Payment |-> 0]
  /\ allocations = {}
  /\ pc = [s \in Session |-> "idle"]
  /\ target = [s \in Session |-> NoTarget]
  /\ line = [s \in Session |-> 1]
  /\ mine = [s \in Session |-> {}]

Free(s, r) == holder[r] \in {NoSession, s}

\* Variant: the connection goes back to the pool with its transaction open.
Idle_LeavesLocks(s) ==
  /\ pc' = [pc EXCEPT ![s] = "idle"]
  /\ target' = [target EXCEPT ![s] = NoTarget]
  /\ line' = [line EXCEPT ![s] = 1]
  /\ mine' = [mine EXCEPT ![s] = {}]
  /\ UNCHANGED holder

Idle(s) ==
  /\ holder' = [r \in DOMAIN holder |-> IF holder[r] = s THEN NoSession ELSE holder[r]]
  /\ pc' = [pc EXCEPT ![s] = "idle"]
  /\ target' = [target EXCEPT ![s] = NoTarget]
  /\ line' = [line EXCEPT ![s] = 1]
  /\ mine' = [mine EXCEPT ![s] = {}]

\* Variant: a rollback that leaves the number taken.
Rollback_KeepsNumber(s) ==
  /\ status' = [i \in Invoice |-> IF holder[i] = s THEN saved.status[i] ELSE status[i]]
  /\ paid' = [i \in Invoice |-> IF holder[i] = s THEN saved.paid[i] ELSE paid[i]]
  /\ saved' = [saved EXCEPT !.counter = counter]
  /\ UNCHANGED <<counter, number, allocations>>
  /\ Idle(s)

Rollback(s) ==
  /\ status' = [i \in Invoice |-> IF holder[i] = s THEN saved.status[i] ELSE status[i]]
  /\ paid' = [i \in Invoice |-> IF holder[i] = s THEN saved.paid[i] ELSE paid[i]]
  /\ counter' = IF holder[Counter] = s THEN saved.counter ELSE counter
  /\ UNCHANGED <<saved, number, allocations>>
  /\ Idle(s)

\* A transaction of one statement sets the status of invoice i.
SetStatus(i, v) ==
  /\ status' = [status EXCEPT ![i] = v]
  /\ saved' = [saved EXCEPT !.status[i] = v]
  /\ UNCHANGED <<paid, counter, number, allocations>>

-----------------------------------------------------------------------------
(* Invoices.                                                               *)

CreateInvoice(i) ==
  /\ status[i] = "absent"
  /\ SetStatus(i, "draft")
  /\ UNCHANGED <<holder, pc, target, line, mine>>

\* DELETE ... WHERE status = 'draft' waits for a payment that locks the row.
DeleteInvoice(i) ==
  /\ holder[i] = NoSession /\ status[i] = "draft"
  /\ SetStatus(i, "deleted")
  /\ UNCHANGED <<holder, pc, target, line, mine>>

BeginApprove(s, i) ==
  /\ pc[s] = "idle" /\ saved.status[i] = "draft"
  /\ pc' = [pc EXCEPT ![s] = "approve"]
  /\ target' = [target EXCEPT ![s] = i]
  /\ UNCHANGED <<rowVars, line, mine>>

\* UPDATE ... WHERE id, whatever the status has become meanwhile.
ApproveInvoice(s) ==
  /\ pc[s] = "approve" /\ Free(s, target[s]) /\ status[target[s]] # "deleted"
  /\ SetStatus(target[s], "approved")
  /\ Idle(s)

InvoiceGone(s) ==
  /\ pc[s] = "approve" /\ status[target[s]] = "deleted"
  /\ Rollback(s)

-----------------------------------------------------------------------------
(* Payments.                                                               *)

\* The allocations are compared with the amount as the client sent them.
WithinAmount(p) ==
  SumFunction([k \in 1..Len(Allocs[p]) |-> Allocs[p][k].amount]) <= Amount[p]

BeginPayment(s, p) ==
  /\ pc[s] = "idle" /\ number[p] = 0
  /\ \A t \in Session : target[t] # p
  /\ WithinAmount(p)
  /\ pc' = [pc EXCEPT ![s] = "number"]
  /\ target' = [target EXCEPT ![s] = p]
  /\ UNCHANGED <<rowVars, line, mine>>

\* nextDocumentNumber, and the INSERT of the payment that carries the number.
TakeNumber(s) ==
  /\ pc[s] = "number" /\ Free(s, Counter)
  /\ counter' = counter + 1
  /\ holder' = [holder EXCEPT ![Counter] = s]
  /\ pc' = [pc EXCEPT ![s] = "allocate"]
  /\ UNCHANGED <<status, paid, saved, number, allocations, target, line, mine>>

Cur(s) == Allocs[target[s]][line[s]]
AtAllocation(s) ==
  /\ pc[s] = "allocate" /\ line[s] <= Len(Allocs[target[s]])
  /\ Free(s, Cur(s).invoice)

\* Variant: the whole total counts as outstanding.
Outstanding_Total(i) == Total[i]

Payable(i) == status[i] \in {"approved", "partially_paid"}
Outstanding(i) == Total[i] - paid[i]

Accepted(s) ==
  LET i == Cur(s).invoice
  IN  /\ status[i] \notin {"absent", "deleted"}
      /\ Party[i] = Party[target[s]]
      /\ Cur(s).amount <= Outstanding(i)
      /\ Payable(i)

\* Variants: paid_amount is replaced, or the sign is wrong.
NewPaid_Replaces(i, amount) == amount
NewPaid_Subtracts(i, amount) == paid[i] - amount

NewPaid(i, amount) == paid[i] + amount

\* Variant: the new paid amount is compared with the old one.
Settles_OldPaid(i, v) == v >= paid[i]

Settles(i, v) == v >= Total[i]

(***************************************************************************)
(* SELECT ... FOR UPDATE, INSERT of the allocation, UPDATE of the invoice: *)
(* one step, since the row is locked from the first to the last of them    *)
(* and they read nothing else.  The status is decided before the database  *)
(* rounds the amount.                                                      *)
(***************************************************************************)
Allocate(s) ==
  LET i == Cur(s).invoice
      v == NewPaid(i, Cur(s).amount)
  IN  /\ AtAllocation(s)
      /\ Accepted(s)
      /\ paid' = [paid EXCEPT ![i] = Stored(v)]
      /\ status' = [status EXCEPT ![i] = IF Settles(i, v) THEN "paid" ELSE "partially_paid"]
      /\ holder' = [holder EXCEPT ![i] = s]
      /\ mine' = [mine EXCEPT ![s] = @ \union
           {[payment |-> target[s], line |-> line[s], invoice |-> i,
             amount |-> Stored(Cur(s).amount)]}]
      /\ line' = [line EXCEPT ![s] = @ + 1]
      /\ UNCHANGED <<counter, saved, number, allocations, pc, target>>

\* InvalidAllocationError: the payment and its earlier allocations are undone.
RefuseAllocation(s) == AtAllocation(s) /\ ~Accepted(s) /\ Rollback(s)

CommitPayment(s) ==
  /\ pc[s] = "allocate" /\ line[s] > Len(Allocs[target[s]])
  /\ saved' = [status  |-> [i \in Invoice |-> IF holder[i] = s THEN status[i]
                                              ELSE saved.status[i]],
               paid    |-> [i \in Invoice |-> IF holder[i] = s THEN paid[i]
                                              ELSE saved.paid[i]],
               counter |-> counter]
  /\ number' = [number EXCEPT ![target[s]] = counter]
  /\ allocations' = allocations \union mine[s]
  /\ UNCHANGED <<status, paid, counter>>
  /\ Idle(s)

\* statement_timeout, a lost connection or a crash of the backend process.
Fail(s) == pc[s] # "idle" /\ Rollback(s)

Step(s) ==
  \/ ApproveInvoice(s) \/ InvoiceGone(s)
  \/ TakeNumber(s) \/ Allocate(s) \/ RefuseAllocation(s) \/ CommitPayment(s)

Next ==
  \/ \E i \in Invoice : CreateInvoice(i) \/ DeleteInvoice(i)
  \/ \E s \in Session :
       \/ Step(s) \/ Fail(s)
       \/ \E i \in Invoice : BeginApprove(s, i)
       \/ \E p \in Payment : BeginPayment(s, p)

Spec == Init /\ [][Next]_vars

\* Requests are served and row queues are first come, first served.
FairSpec == Spec /\ \A s \in Session : SF_vars(Step(s))

-----------------------------------------------------------------------------
(* Properties.                                                             *)

AllocationRow == [payment : Payment, line : Nat, invoice : Invoice, amount : Nat]

TypeOK ==
  /\ status \in [Invoice -> Status]
  /\ paid \in [Invoice -> Nat]
  /\ counter \in Nat
  /\ saved \in [status : [Invoice -> Status], paid : [Invoice -> Nat], counter : Nat]
  /\ holder \in [Invoice \union {Counter} -> Session \union {NoSession}]
  /\ number \in [Payment -> Nat]
  /\ allocations \subseteq AllocationRow
  /\ pc \in [Session -> {"idle", "approve", "number", "allocate"}]
  /\ target \in [Session -> Invoice \union Payment \union {NoTarget}]
  /\ line \in [Session -> Nat \ {0}]
  /\ mine \in [Session -> SUBSET AllocationRow]

AllocatedTo(i) ==
  SumFunctionOnSet([a \in allocations |-> a.amount], {a \in allocations : a.invoice = i})

(***************************************************************************)
(* The paid amount of an invoice is what the committed allocations say,    *)
(* cent by cent, although the two are rounded in different places, a       *)
(* payment may fail after some of its allocations, and two payments or a   *)
(* payment and an approval may want the invoice at once.                   *)
(***************************************************************************)
PaidIsSumOfAllocations ==
  \A i \in Invoice : saved.paid[i] = AllocatedTo(i)

(***************************************************************************)
(* No invoice is paid beyond its total: an allocation that does not fit is *)
(* refused with InvalidAllocationError, and CHECK (paid_amount <=          *)
(* total_amount) never has to refuse it.                                   *)
(***************************************************************************)
NeverOverpaid == \A i \in Invoice : paid[i] <= Total[i]

(***************************************************************************)
(* A paid invoice owes nothing, a partially paid one has a payment, and an *)
(* invoice that never was approved has none.  (The converse is not true: a *)
(* second approval overwrites 'paid', see the README.)                     *)
(***************************************************************************)
StatusAgreesWithPayments ==
  \A i \in Invoice :
    /\ saved.status[i] = "paid" => saved.paid[i] = Total[i]
    /\ saved.status[i] = "partially_paid" => AllocatedTo(i) > 0
    /\ saved.status[i] \in {"absent", "draft", "deleted"} => AllocatedTo(i) = 0

(***************************************************************************)
(* Payment numbers are 1, 2, 3, ... in the order of the commits, without   *)
(* gaps and without duplicates, because a number taken by a transaction    *)
(* that fails is rolled back with it.                                      *)
(***************************************************************************)
NumbersHaveNoGaps ==
  LET used == {p \in Payment : number[p] > 0}
  IN  {number[p] : p \in used} = 1..Cardinality(used)

(***************************************************************************)
(* No payment waits for ever, whatever the order of its allocations: the   *)
(* counter row is taken first, so payments never wait for each other in a  *)
(* cycle (there is no deadlock for the detector to break in this model).   *)
(***************************************************************************)
RequestsFinish == \A s \in Session : pc[s] # "idle" ~> pc[s] = "idle"

(***************************************************************************)
(* "Sum may be less than amount ...; must never exceed it."  Refuted: the  *)
(* sum is compared before the amounts are rounded to cents, one by one.    *)
(***************************************************************************)
AllocationsWithinAmount ==
  \A p \in Payment :
    SumFunctionOnSet([a \in allocations |-> a.amount], {a \in allocations : a.payment = p})
      <= Stored(Amount[p])
=============================================================================

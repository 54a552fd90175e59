------------------------- MODULE InvoicePaymentProofs -------------------------
(***************************************************************************)
(* For every set of invoices, payments and sessions: InvoicePayment is     *)
(* type correct, paid amounts are the sums of the allocations and never    *)
(* exceed the totals, the status of an invoice agrees with them, payment   *)
(* numbers have no gaps, and the reports agree with each other.            *)
(***************************************************************************)
EXTENDS InvoiceReports, Sums, SequenceTheorems

-----------------------------------------------------------------------------
(* The inductive invariant.                                                *)

\* A payment request is served once at a time, and is not committed before.
ControlInv ==
  \A s \in Session :
    /\ pc[s] = "approve" => target[s] \in Invoice
    /\ pc[s] \in {"number", "allocate"} =>
         /\ target[s] \in Payment /\ number[target[s]] = 0
         /\ \A t \in Session \ {s} :
              pc[t] \in {"number", "allocate"} => target[t] # target[s]

\* Whoever has written a row has taken the number first, and so is alone.
LockInv ==
  \A s \in Session :
    /\ pc[s] = "allocate" <=> holder[Counter] = s
    /\ \A i \in Invoice : holder[i] = s => pc[s] = "allocate"

\* The sum of the rows among R that allocate to invoice i.
Amounts == [a \in AllocationRow |-> a.amount]
To(R, i) == {a \in R : a.invoice = i}
SumTo(R, i) == SumFunctionOnSet(Amounts, To(R, i))

\* The allocation rows a transaction has inserted are its own, and new.
RowsInv ==
  /\ IsFiniteSet(allocations)
  /\ \A a \in allocations : number[a.payment] > 0
  /\ \A s \in Session :
       /\ IsFiniteSet(mine[s])
       /\ pc[s] # "allocate" => mine[s] = {}
       /\ \A a \in mine[s] : /\ a.payment = target[s] /\ a.line < line[s]
                             /\ holder[a.invoice] = s

\* What an invoice's status says of its paid amount p.
Agrees(i, st, p) ==
  /\ p <= Total[i] /\ p % 10 = 0
  /\ st = "paid" => p = Total[i]
  /\ st = "partially_paid" => p > 0
  /\ st \in {"absent", "draft", "deleted"} => p = 0

(***************************************************************************)
(* Both versions of an invoice agree with its payments: the committed one  *)
(* with the committed allocations, the newest also with those of the       *)
(* transaction that has written it.                                        *)
(***************************************************************************)
VersionsInv ==
  \A i \in Invoice :
    /\ Agrees(i, status[i], paid[i])
    /\ Agrees(i, saved.status[i], saved.paid[i])
    /\ saved.paid[i] = SumTo(allocations, i)
    /\ holder[i] = NoSession => status[i] = saved.status[i] /\ paid[i] = saved.paid[i]
    /\ \A s \in Session : holder[i] = s =>
         /\ paid[i] = saved.paid[i] + SumTo(mine[s], i)
         /\ status[i] \in {"paid", "partially_paid"}

Numbered == {p \in Payment : number[p] > 0}

\* The counter is the number of committed payments, and of the one in hand.
NumberInv ==
  /\ IsFiniteSet(Numbered)
  /\ saved.counter = Cardinality(Numbered)
  /\ {number[p] : p \in Numbered} = 1..saved.counter
  /\ counter = saved.counter + (IF holder[Counter] = NoSession THEN 0 ELSE 1)

IInv == TypeOK /\ ControlInv /\ LockInv /\ RowsInv /\ VersionsInv /\ NumberInv

-----------------------------------------------------------------------------
(* Lemmas about amounts.                                                   *)

\* Rounding to cents commutes with adding whole cents, keeps whole cents, and
\* does not lose an amount a client may ask for.
LEMMA Rounded ==
  ASSUME NEW p \in Nat, p % 10 = 0, NEW a \in Nat
  PROVE  /\ Stored(a) \in Nat
         /\ Stored(p + a) = p + Stored(a)
         /\ Stored(p + a) % 10 = 0
         /\ Stored(p) = p
         /\ a <= p => Stored(a) <= p
         /\ a \in Asked => Stored(a) > 0
  <1>1. PICK k \in Nat : p = 10 * k
    <2>1. p = 10 * (p \div 10) /\ p \div 10 \in Nat
      OBVIOUS
    <2> QED
      BY <2>1
  <1> DEFINE b == (a + 5) \div 10
  <1>2. b \in Nat /\ 10 * b <= a + 5 /\ a + 5 < 10 * b + 10
    OBVIOUS
  <1>3. (p + a + 5) \div 10 = k + b
    BY <1>1, <1>2
  <1>4. (p + 5) \div 10 = k
    BY <1>1
  <1>5. Stored(a) = 10 * b /\ Stored(p + a) = 10 * k + 10 * b /\ Stored(p) = 10 * k
    BY <1>1, <1>2, <1>3, <1>4 DEF Stored
  <1> HIDE DEF b
  <1>6. (10 * k + 10 * b) % 10 = 0
    BY <1>2
  <1>7. a <= p => 10 * b <= p
    BY <1>1, <1>2
  <1>8. a \in Asked => 10 * b > 0
    BY <1>2 DEF Asked
  <1> QED
    BY <1>1, <1>2, <1>5, <1>6, <1>7, <1>8

\* The sum of allocation rows is a natural number, 0 if there are none.
LEMMA SumToType ==
  ASSUME NEW R \in SUBSET AllocationRow, IsFiniteSet(R), NEW i
  PROVE  /\ IsFiniteSet(To(R, i)) /\ SumTo(R, i) \in Nat
         /\ To(R, i) = {} => SumTo(R, i) = 0
  <1>1. IsFiniteSet(To(R, i))
    BY FS_Subset DEF To
  <1>2. \A a \in To(R, i) : Amounts[a] \in Nat
    BY DEF To, Amounts, AllocationRow
  <1> QED
    BY <1>1, <1>2, SumNat, SumType DEF SumTo

\* New rows add their sum.
LEMMA SumToUnion ==
  ASSUME NEW R \in SUBSET AllocationRow, IsFiniteSet(R),
         NEW N \in SUBSET AllocationRow, IsFiniteSet(N), R \cap N = {}, NEW i
  PROVE  SumTo(R \cup N, i) = SumTo(R, i) + SumTo(N, i)
  <1>1. To(R \cup N, i) = To(R, i) \cup To(N, i) /\ To(R, i) \cap To(N, i) = {}
    BY DEF To
  <1>2. IsFiniteSet(To(R, i)) /\ IsFiniteSet(To(N, i))
    BY SumToType
  <1>3. \A a \in To(R, i) \cup To(N, i) : Amounts[a] \in Int
    BY DEF To, Amounts, AllocationRow
  <1>4. SumFunctionOnSet(Amounts, To(R, i) \cup To(N, i))
          = SumFunctionOnSet(Amounts, To(R, i)) + SumFunctionOnSet(Amounts, To(N, i))
    BY <1>1, <1>2, <1>3, SumUnion
  <1> QED
    BY <1>1, <1>4 DEF SumTo

\* A new row adds its amount to the invoice it names, and to no other.
LEMMA SumToAdd ==
  ASSUME NEW R \in SUBSET AllocationRow, IsFiniteSet(R),
         NEW a \in AllocationRow, a \notin R, NEW i
  PROVE  SumTo(R \cup {a}, i) = SumTo(R, i) + (IF a.invoice = i THEN a.amount ELSE 0)
  <1>1. IsFiniteSet(To(R, i)) /\ SumTo(R, i) \in Nat
    BY SumToType
  <1>2. CASE a.invoice = i
    <2>1. To(R \cup {a}, i) = To(R, i) \cup {a} /\ a \notin To(R, i)
      BY <1>2 DEF To
    <2>2. \A b \in To(R, i) \cup {a} : Amounts[b] \in Int
      BY DEF To, Amounts, AllocationRow
    <2>3. Amounts[a] = a.amount
      BY DEF Amounts
    <2> QED
      BY <1>1, <1>2, <2>1, <2>2, <2>3, SumAdd DEF SumTo
  <1>3. CASE a.invoice # i
    <2>1. To(R \cup {a}, i) = To(R, i)
      BY <1>3 DEF To
    <2> QED
      BY <1>1, <1>3, <2>1 DEF SumTo
  <1> QED
    BY <1>2, <1>3

\* What the properties call the allocations of an invoice.
LEMMA AllocatedIsSumTo ==
  ASSUME TypeOK, RowsInv, NEW i
  PROVE  AllocatedTo(i) = SumTo(allocations, i)
  <1> DEFINE f == [a \in allocations |-> a.amount]
  <1>1. allocations \in SUBSET AllocationRow /\ IsFiniteSet(allocations)
    BY DEF TypeOK, RowsInv
  <1>2. IsFiniteSet(To(allocations, i))
    BY <1>1, SumToType
  <1>3. \A a \in To(allocations, i) : f[a] \in Int /\ f[a] = Amounts[a]
    BY <1>1 DEF To, Amounts, AllocationRow
  <1>4. SumFunctionOnSet(f, To(allocations, i)) = SumFunctionOnSet(Amounts, To(allocations, i))
    <2> HIDE DEF f
    <2> QED
      BY <1>2, <1>3, SumSame
  <1> QED
    BY <1>4 DEF AllocatedTo, SumTo, To

-----------------------------------------------------------------------------
(* Lemmas about one step.                                                  *)

\* The invariant holds in the initial state.
LEMMA InitEstablishes == Init => IInv
  <1> SUFFICES ASSUME Init  PROVE IInv
    OBVIOUS
  <1> USE PaymentAssumption
  <1>1. TypeOK
    BY DEF Init, TypeOK, Status
  <1>2. ControlInv /\ LockInv
    BY <1>1 DEF Init, ControlInv, LockInv, TypeOK
  <1>3. RowsInv
    BY FS_EmptySet DEF Init, RowsInv
  <1>4. VersionsInv
    <2>1. \A i \in Invoice : To(allocations, i) = {}
      BY DEF Init, To
    <2>2. \A i \in Invoice : SumTo(allocations, i) = 0
      BY <2>1, <1>1, <1>3, SumToType DEF TypeOK, RowsInv
    <2>3. \A i \in Invoice : /\ status[i] = "absent" /\ paid[i] = 0 /\ holder[i] = NoSession
                             /\ saved.status[i] = "absent" /\ saved.paid[i] = 0
      BY DEF Init
    <2>4. \A i \in Invoice : Agrees(i, "absent", 0)
      BY DEF Agrees
    <2> QED
      BY <2>2, <2>3, <2>4 DEF VersionsInv
  <1>5. NumberInv
    <2>1. Numbered = {}
      BY DEF Init, Numbered
    <2>2. saved.counter = 0 /\ counter = 0 /\ holder[Counter] = NoSession
      BY DEF Init
    <2> QED
      BY <2>1, <2>2, FS_EmptySet DEF NumberInv
  <1> QED
    BY <1>1, <1>2, <1>3, <1>4, <1>5 DEF IInv

\* What the end of a transaction leaves of the session and its locks.
LEMMA IdleEffect ==
  ASSUME TypeOK, LockInv, NEW s \in Session, Idle(s)
  PROVE  /\ pc' \in [Session -> {"idle", "approve", "number", "allocate"}]
         /\ target' \in [Session -> Invoice \union Payment \union {NoTarget}]
         /\ line' \in [Session -> Nat \ {0}]
         /\ mine' \in [Session -> SUBSET AllocationRow]
         /\ holder' \in [Invoice \union {Counter} -> Session \union {NoSession}]
         /\ pc'[s] = "idle" /\ mine'[s] = {}
         /\ \A t \in Session \ {s} : /\ pc'[t] = pc[t] /\ target'[t] = target[t]
                                     /\ line'[t] = line[t] /\ mine'[t] = mine[t]
         /\ \A r \in Invoice \union {Counter} :
              /\ holder[r] = s => holder'[r] = NoSession
              /\ holder[r] # s => holder'[r] = holder[r]
  BY DEF TypeOK, Idle

\* It leaves no session with somebody else's locks.
LEMMA IdleControl ==
  ASSUME IInv, NEW s \in Session, Idle(s),
         \A t \in Session \ {s} : pc[t] \in {"number", "allocate"} =>
           number'[target[t]] = 0
  PROVE  ControlInv' /\ LockInv'
  <1> USE PaymentAssumption
  <1>1. /\ pc'[s] = "idle"
        /\ \A t \in Session \ {s} : pc'[t] = pc[t] /\ target'[t] = target[t]
        /\ \A r \in Invoice \union {Counter} :
             /\ holder[r] = s => holder'[r] = NoSession
             /\ holder[r] # s => holder'[r] = holder[r]
    BY IdleEffect DEF IInv
  <1>2. ControlInv'
    BY ZenonT(90), <1>1 DEF IInv, ControlInv
  <1>3. LockInv'
    BY <1>1 DEF IInv, LockInv
  <1> QED
    BY <1>2, <1>3

\* Writing the status of an invoice nobody has locked, in a transaction of one
\* statement, keeps what is said about rows.
LEMMA SetStatusKeeps ==
  ASSUME IInv, NEW i \in Invoice, NEW v \in Status, SetStatus(i, v),
         holder[i] = NoSession, Agrees(i, v, paid[i]),
         \A r \in Invoice \union {Counter} : holder'[r] = holder[r],
         \A t \in Session : /\ mine'[t] = mine[t]
                            /\ mine[t] # {} => target'[t] = target[t] /\ line'[t] = line[t],
         \A t \in Session : pc'[t] = "allocate" <=> pc[t] = "allocate"
  PROVE  /\ status' \in [Invoice -> Status]
         /\ saved' \in [status : [Invoice -> Status], paid : [Invoice -> Nat], counter : Nat]
         /\ RowsInv' /\ VersionsInv' /\ NumberInv'
  <1> USE PaymentAssumption
  <1>0. TypeOK
    BY DEF IInv
  <1>1. /\ status' = [status EXCEPT ![i] = v] /\ status' \in [Invoice -> Status]
        /\ saved' \in [status : [Invoice -> Status], paid : [Invoice -> Nat], counter : Nat]
        /\ saved'.paid = saved.paid /\ saved'.counter = saved.counter
        /\ saved'.status = [saved.status EXCEPT ![i] = v]
        /\ UNCHANGED <<paid, counter, number, allocations>>
    BY <1>0 DEF TypeOK, SetStatus
  <1>2. RowsInv'
    <2>1. \A t \in Session : \A a \in mine[t] : a.invoice \in Invoice
      BY <1>0 DEF TypeOK, AllocationRow
    <2>2. IsFiniteSet(allocations') /\ \A a \in allocations' : number'[a.payment] > 0
      BY <1>1 DEF IInv, RowsInv
    <2>3. ASSUME NEW t \in Session
          PROVE  /\ IsFiniteSet(mine'[t])
                 /\ pc'[t] # "allocate" => mine'[t] = {}
                 /\ \A a \in mine'[t] : /\ a.payment = target'[t] /\ a.line < line'[t]
                                        /\ holder'[a.invoice] = t
      BY ZenonT(90), <2>1 DEF IInv, RowsInv
    <2> QED
      BY <2>2, <2>3 DEF RowsInv
  <1>3. ASSUME NEW j \in Invoice
        PROVE  /\ Agrees(j, status'[j], paid[j])
               /\ Agrees(j, saved'.status[j], saved.paid[j])
               /\ saved.paid[j] = SumTo(allocations, j)
               /\ holder[j] = NoSession =>
                    status'[j] = saved'.status[j] /\ paid[j] = saved.paid[j]
               /\ \A t \in Session : holder[j] = t =>
                    /\ paid[j] = saved.paid[j] + SumTo(mine[t], j)
                    /\ status'[j] \in {"paid", "partially_paid"}
    <2>1. /\ j # i => status'[j] = status[j] /\ saved'.status[j] = saved.status[j]
          /\ j = i => status'[j] = v /\ saved'.status[j] = v
      BY <1>0, <1>1 DEF TypeOK
    <2>2. paid[i] = saved.paid[i]
      BY DEF IInv, VersionsInv
    <2> QED
      BY <2>1, <2>2 DEF IInv, VersionsInv
  <1>4. VersionsInv'
    <2> SUFFICES ASSUME NEW j \in Invoice
        PROVE /\ Agrees(j, status'[j], paid'[j])
              /\ Agrees(j, saved'.status[j], saved'.paid[j])
              /\ saved'.paid[j] = SumTo(allocations', j)
              /\ holder'[j] = NoSession =>
                   status'[j] = saved'.status[j] /\ paid'[j] = saved'.paid[j]
              /\ \A t \in Session : holder'[j] = t =>
                   /\ paid'[j] = saved'.paid[j] + SumTo(mine'[t], j)
                   /\ status'[j] \in {"paid", "partially_paid"}
      BY DEF VersionsInv
    <2>1. holder'[j] = holder[j] /\ \A t \in Session : mine'[t] = mine[t]
      OBVIOUS
    <2> QED
      BY <2>1, <1>1, <1>3
  <1>5. NumberInv'
    <2>1. Numbered' = Numbered
      BY <1>1 DEF Numbered
    <2>2. {number'[p] : p \in Numbered'} = {number[p] : p \in Numbered}
      BY <1>1, <2>1
    <2> QED
      BY <2>1, <2>2, <1>1 DEF IInv, NumberInv
  <1> QED
    BY <1>1, <1>2, <1>4, <1>5

\* A rollback restores the committed version of every row it had written.
LEMMA RollbackPreserves ==
  ASSUME IInv, NEW s \in Session, Rollback(s)
  PROVE  IInv'
  <1> USE PaymentAssumption
  <1>0. TypeOK /\ LockInv
    BY DEF IInv
  <1>1. Idle(s) /\ UNCHANGED <<saved, number, allocations>>
    BY DEF Rollback
  <1>2. /\ pc'[s] = "idle" /\ mine'[s] = {}
        /\ \A t \in Session \ {s} : /\ pc'[t] = pc[t] /\ target'[t] = target[t]
                                    /\ line'[t] = line[t] /\ mine'[t] = mine[t]
        /\ \A r \in Invoice \union {Counter} :
             /\ holder[r] = s => holder'[r] = NoSession
             /\ holder[r] # s => holder'[r] = holder[r]
    BY <1>0, <1>1, IdleEffect
  <1>3. TypeOK'
    <2>1. /\ status' \in [Invoice -> Status] /\ paid' \in [Invoice -> Nat] /\ counter' \in Nat
      BY <1>0 DEF TypeOK, Rollback
    <2> QED
      BY <2>1, <1>0, <1>1, IdleEffect DEF TypeOK
  <1>4. ControlInv' /\ LockInv'
    BY <1>1, IdleControl DEF IInv, ControlInv
  <1>5. RowsInv'
    <2>1. \A t \in Session : \A a \in mine[t] : a.invoice \in Invoice
      BY <1>0 DEF TypeOK, AllocationRow
    <2>2. IsFiniteSet(allocations') /\ \A a \in allocations' : number'[a.payment] > 0
      BY <1>1 DEF IInv, RowsInv
    <2>3. ASSUME NEW t \in Session \ {s}
          PROVE  /\ IsFiniteSet(mine'[t])
                 /\ pc'[t] # "allocate" => mine'[t] = {}
                 /\ \A a \in mine'[t] : /\ a.payment = target'[t] /\ a.line < line'[t]
                                        /\ holder'[a.invoice] = t
      <3>1. IsFiniteSet(mine[t]) /\ (pc[t] # "allocate" => mine[t] = {})
        BY DEF IInv, RowsInv
      <3>2. ASSUME NEW a \in mine[t]
            PROVE  a.payment = target[t] /\ a.line < line[t] /\ holder'[a.invoice] = t
        <4>1. a.payment = target[t] /\ a.line < line[t] /\ holder[a.invoice] = t
          BY DEF IInv, RowsInv
        <4> QED
          BY <4>1, <2>1, <1>2
      <3> QED
        BY <3>1, <3>2, <1>2
    <2>4. IsFiniteSet(mine'[s]) /\ mine'[s] = {}
      BY <1>2, FS_EmptySet
    <2> QED
      BY <2>2, <2>3, <2>4 DEF RowsInv
  <1>6. VersionsInv'
    <2> SUFFICES ASSUME NEW i \in Invoice
        PROVE /\ Agrees(i, status'[i], paid'[i])
              /\ Agrees(i, saved.status[i], saved.paid[i])
              /\ saved.paid[i] = SumTo(allocations, i)
              /\ holder'[i] = NoSession =>
                   status'[i] = saved.status[i] /\ paid'[i] = saved.paid[i]
              /\ \A t \in Session : holder'[i] = t =>
                   /\ paid'[i] = saved.paid[i] + SumTo(mine'[t], i)
                   /\ status'[i] \in {"paid", "partially_paid"}
      BY <1>1 DEF VersionsInv
    <2>1. CASE holder[i] = s
      <3>1. status'[i] = saved.status[i] /\ paid'[i] = saved.paid[i] /\ holder'[i] = NoSession
        BY <2>1, <1>2 DEF Rollback
      <3> QED
        BY <3>1 DEF IInv, VersionsInv
    <2>2. CASE holder[i] # s
      <3>1. status'[i] = status[i] /\ paid'[i] = paid[i] /\ holder'[i] = holder[i]
        BY <2>2, <1>2 DEF Rollback
      <3> QED
        BY <2>2, <3>1, <1>2 DEF IInv, VersionsInv
    <2> QED
      BY <2>1, <2>2
  <1>7. NumberInv'
    <2>1. Numbered' = Numbered /\ {number'[p] : p \in Numbered} = {number[p] : p \in Numbered}
      BY <1>1 DEF Numbered
    <2>2. counter' = saved.counter + (IF holder'[Counter] = NoSession THEN 0 ELSE 1)
      BY <1>2 DEF IInv, NumberInv, TypeOK, Rollback
    <2> QED
      BY <2>1, <2>2, <1>1 DEF IInv, NumberInv
  <1> QED
    BY <1>3, <1>4, <1>5, <1>6, <1>7 DEF IInv

\* An allocation adds its rounded amount to the invoice and to the rows.
LEMMA AllocatePreserves ==
  ASSUME IInv, NEW s \in Session, Allocate(s)
  PROVE  IInv'
  <1> USE PaymentAssumption
  <1> DEFINE i == Cur(s).invoice
             c == Cur(s).amount
             v == paid[i] + c
             row == [payment |-> target[s], line |-> line[s], invoice |-> i,
                     amount |-> Stored(c)]
  <1>0. TypeOK
    BY DEF IInv
  <1>1. /\ pc[s] = "allocate" /\ target[s] \in Payment /\ holder[Counter] = s
        /\ line[s] \in 1..Len(Allocs[target[s]])
    <2>1. pc[s] = "allocate" /\ target[s] \in Payment /\ holder[Counter] = s
      BY DEF IInv, ControlInv, LockInv, Allocate, AtAllocation
    <2>2. Len(Allocs[target[s]]) \in Nat /\ line[s] \in Nat \ {0}
      BY <2>1, <1>0 DEF TypeOK
    <2> QED
      BY <2>1, <2>2 DEF Allocate, AtAllocation
  <1>2. i \in Invoice /\ c \in Asked /\ c \in Nat
    <2>1. Allocs[target[s]] \in Seq(Alloc)
      BY <1>1
    <2>2. Cur(s) \in Alloc
      BY <1>1, <2>1 DEF Cur
    <2> QED
      BY <2>2 DEF Alloc, Asked
  <1>3. /\ Free(s, i) /\ c <= Total[i] - paid[i]
        /\ paid[i] \in Nat /\ Total[i] \in Nat /\ Total[i] % 10 = 0
    BY <1>0, <1>2 DEF TypeOK, Allocate, AtAllocation, Accepted, Outstanding
  <1>4. /\ paid' = [paid EXCEPT ![i] = Stored(v)]
        /\ status' = [status EXCEPT ![i] = IF Settles(i, v) THEN "paid" ELSE "partially_paid"]
        /\ holder' = [holder EXCEPT ![i] = s]
        /\ mine' = [mine EXCEPT ![s] = mine[s] \union {row}]
        /\ line' = [line EXCEPT ![s] = line[s] + 1]
        /\ UNCHANGED <<counter, saved, number, allocations, pc, target>>
    BY DEF Allocate, NewPaid
  <1>5. /\ v \in Nat /\ v <= Total[i] /\ Stored(v) = paid[i] + Stored(c)
        /\ Stored(v) \in Nat /\ Stored(v) % 10 = 0
        /\ Stored(v) <= Total[i] /\ Stored(v) > 0
        /\ Settles(i, v) => Stored(v) = Total[i]
        /\ Stored(c) \in Nat
    <2>1. paid[i] % 10 = 0
      BY <1>2 DEF IInv, VersionsInv, Agrees
    <2> HIDE DEF c
    <2>2. v \in Nat /\ v <= Total[i]
      BY <1>2, <1>3
    <2>3. /\ Stored(c) \in Nat /\ Stored(c) > 0
          /\ Stored(v) = paid[i] + Stored(c) /\ Stored(v) % 10 = 0
      BY <2>1, <1>2, <1>3, Rounded
    <2> HIDE DEF v, i
    <2>4. Stored(v) <= Total[i] /\ Stored(Total[i]) = Total[i]
      BY <2>2, <1>3, Rounded
    <2>5. Settles(i, v) => v = Total[i]
      BY <2>2, <1>3 DEF Settles
    <2>6. Stored(v) \in Nat /\ Stored(v) > 0
      <3> DEFINE w == Stored(c)
      <3>1. w \in Nat /\ w > 0 /\ Stored(v) = paid[i] + w
        BY <2>3
      <3> HIDE DEF w
      <3> QED
        BY <3>1, <1>3
    <2> QED
      BY <2>2, <2>3, <2>4, <2>5, <2>6
  <1>6. row \in AllocationRow /\ row \notin mine[s]
    <2>1. row \in AllocationRow
      BY <1>0, <1>1, <1>2, <1>5 DEF AllocationRow, TypeOK
    <2>2. \A a \in mine[s] : a.line < line[s]
      BY DEF IInv, RowsInv
    <2>3. line[s] \in Nat /\ row.line = line[s]
      BY <1>0 DEF TypeOK
    <2> HIDE DEF row
    <2> QED
      BY <2>1, <2>2, <2>3
  <1>7. row.payment = target[s] /\ row.line = line[s] /\ row.invoice = i
          /\ row.amount = Stored(c)
    OBVIOUS
  <1> HIDE DEF i, c, v, row
  <1>8. TypeOK'
    <2>1. status' \in [Invoice -> Status] /\ paid' \in [Invoice -> Nat]
      BY <1>0, <1>4, <1>5 DEF TypeOK, Status
    <2>2. holder' \in [Invoice \union {Counter} -> Session \union {NoSession}]
      BY <1>0, <1>4 DEF TypeOK
    <2>3. mine' \in [Session -> SUBSET AllocationRow] /\ line' \in [Session -> Nat \ {0}]
      BY <1>0, <1>4, <1>6 DEF TypeOK
    <2> QED
      BY <2>1, <2>2, <2>3, <1>0, <1>4 DEF TypeOK
  <1>9. /\ \A r \in Invoice \union {Counter} : r # i => holder'[r] = holder[r]
        /\ holder'[i] = s /\ i # Counter
        /\ \A t \in Session \ {s} : mine'[t] = mine[t] /\ line'[t] = line[t]
        /\ mine'[s] = mine[s] \union {row} /\ line'[s] = line[s] + 1
        /\ holder[i] \in {s, NoSession}
    BY <1>0, <1>2, <1>3, <1>4 DEF TypeOK, Free
  <1>10. ControlInv'
    BY <1>4 DEF IInv, ControlInv
  <1>11. LockInv'
    BY <1>1, <1>4, <1>9 DEF IInv, LockInv
  <1>12. RowsInv'
    <2>1. IsFiniteSet(allocations') /\ \A a \in allocations' : number'[a.payment] > 0
      BY <1>4 DEF IInv, RowsInv
    <2>2. ASSUME NEW t \in Session \ {s}
          PROVE  mine'[t] = {} /\ IsFiniteSet(mine'[t])
      <3>1. pc[t] # "allocate"
        BY <1>1 DEF IInv, LockInv
      <3> QED
        BY <3>1, <1>9, FS_EmptySet DEF IInv, RowsInv
    <2>3. IsFiniteSet(mine'[s])
      <3>1. IsFiniteSet(mine[s])
        BY DEF IInv, RowsInv
      <3>2. IsFiniteSet(mine[s] \cup {row})
        BY <3>1, FS_AddElement
      <3> QED
        BY <3>2, <1>9
    <2>4. ASSUME NEW a \in mine'[s]
          PROVE  a.payment = target'[s] /\ a.line < line'[s] /\ holder'[a.invoice] = s
      <3>1. CASE a \in mine[s]
        <4>1. a.payment = target[s] /\ a.line < line[s] /\ holder[a.invoice] = s
          BY <3>1 DEF IInv, RowsInv
        <4>2. a.invoice \in Invoice /\ a.line \in Nat /\ line[s] \in Nat
          BY <3>1, <1>0 DEF TypeOK, AllocationRow
        <4> QED
          BY <4>1, <4>2, <1>4, <1>9
      <3>2. CASE a = row
        <4>1. line[s] \in Nat
          BY <1>0 DEF TypeOK
        <4> QED
          BY <3>2, <4>1, <1>4, <1>7, <1>9
      <3> QED
        BY <3>1, <3>2, <1>9
    <2> QED
      BY <2>1, <2>2, <2>3, <2>4, <1>1, <1>4 DEF RowsInv
  <1>13. VersionsInv'
    <2> SUFFICES ASSUME NEW j \in Invoice
        PROVE /\ Agrees(j, status'[j], paid'[j])
              /\ Agrees(j, saved.status[j], saved.paid[j])
              /\ saved.paid[j] = SumTo(allocations, j)
              /\ holder'[j] = NoSession =>
                   status'[j] = saved.status[j] /\ paid'[j] = saved.paid[j]
              /\ \A t \in Session : holder'[j] = t =>
                   /\ paid'[j] = saved.paid[j] + SumTo(mine'[t], j)
                   /\ status'[j] \in {"paid", "partially_paid"}
      BY <1>4 DEF VersionsInv
    <2>1. mine[s] \in SUBSET AllocationRow /\ IsFiniteSet(mine[s])
      BY <1>0 DEF TypeOK, IInv, RowsInv
    <2>2. SumTo(mine'[s], j) = SumTo(mine[s], j) + (IF j = i THEN Stored(c) ELSE 0)
      <3>1. SumTo(mine[s] \union {row}, j)
              = SumTo(mine[s], j) + (IF row.invoice = j THEN row.amount ELSE 0)
        BY <2>1, <1>6, SumToAdd
      <3> QED
        BY <3>1, <1>7, <1>9
    <2>3. SumTo(mine[s], j) \in Nat /\ paid[j] \in Nat /\ saved.paid[j] \in Nat
      BY <2>1, <1>0, SumToType DEF TypeOK
    <2>4. CASE j = i
      <3>1. paid[i] = saved.paid[i] + SumTo(mine[s], i)
        <4>1. CASE holder[i] = s
          BY <4>1, <2>4 DEF IInv, VersionsInv
        <4>2. CASE holder[i] = NoSession
          <5>1. To(mine[s], i) = {}
            BY <4>2 DEF IInv, RowsInv, To
          <5>2. paid[i] = saved.paid[i] /\ SumTo(mine[s], i) = 0
            BY <2>1, <2>4, <4>2, <5>1, SumToType DEF IInv, VersionsInv
          <5> QED
            BY <2>3, <2>4, <5>2
        <4> QED
          BY <4>1, <4>2, <1>9
      <3>2. paid'[i] = Stored(v) /\ Stored(v) = paid[i] + Stored(c)
        BY <1>0, <1>2, <1>4, <1>5 DEF TypeOK
      <3>3. paid'[i] = saved.paid[i] + SumTo(mine'[s], i)
        <4> DEFINE m == SumTo(mine[s], i)
        <4>1. paid'[i] = (saved.paid[i] + m) + Stored(c) /\ SumTo(mine'[s], i) = m + Stored(c)
          BY <2>2, <2>4, <3>1, <3>2
        <4>2. saved.paid[i] \in Nat /\ m \in Nat /\ Stored(c) \in Nat
          BY <2>3, <2>4, <1>5
        <4> HIDE DEF m
        <4> QED
          BY <4>1, <4>2
      <3>4. status'[i] = IF Settles(i, v) THEN "paid" ELSE "partially_paid"
        BY <1>0, <1>2, <1>4 DEF TypeOK
      <3>5. Agrees(i, status'[i], paid'[i])
        BY <3>2, <3>4, <1>5 DEF Agrees
      <3>6. holder'[i] = s /\ s # NoSession
        BY <1>9
      <3> QED
        BY <2>4, <3>3, <3>4, <3>5, <3>6 DEF IInv, VersionsInv
    <2>5. CASE j # i
      <3>1. status'[j] = status[j] /\ paid'[j] = paid[j] /\ holder'[j] = holder[j]
        BY <2>5, <1>0, <1>4, <1>9 DEF TypeOK
      <3>2. \A t \in Session : SumTo(mine'[t], j) = SumTo(mine[t], j)
        <4>1. SumTo(mine'[s], j) = SumTo(mine[s], j)
          <5> DEFINE m == SumTo(mine[s], j)
          <5>1. SumTo(mine'[s], j) = m + 0 /\ m \in Nat
            BY <2>2, <2>3, <2>5
          <5> HIDE DEF m
          <5>2. SumTo(mine'[s], j) = m
            BY <5>1
          <5> QED
            BY <5>2 DEF m
        <4> QED
          BY <4>1, <1>9
      <3> QED
        BY <3>1, <3>2 DEF IInv, VersionsInv
    <2> QED
      BY <2>4, <2>5
  <1>14. NumberInv'
    <2>1. Numbered' = Numbered
      BY <1>4 DEF Numbered
    <2>2. {number'[p] : p \in Numbered'} = {number[p] : p \in Numbered}
      BY <1>4, <2>1
    <2> QED
      BY <2>1, <2>2, <1>4, <1>9 DEF IInv, NumberInv
  <1> QED
    BY <1>8, <1>10, <1>11, <1>12, <1>13, <1>14 DEF IInv

\* The commit of a payment makes its number, its rows and the paid amounts
\* of its invoices visible at once.
LEMMA CommitPreserves ==
  ASSUME IInv, NEW s \in Session, CommitPayment(s)
  PROVE  IInv'
  <1> USE PaymentAssumption
  <1> DEFINE q == target[s]
  <1>0. TypeOK /\ LockInv
    BY DEF IInv
  <1>1. /\ pc[s] = "allocate" /\ q \in Payment /\ number[q] = 0 /\ holder[Counter] = s
        /\ Idle(s) /\ UNCHANGED <<status, paid, counter>>
        /\ number' = [number EXCEPT ![q] = counter]
        /\ allocations' = allocations \cup mine[s]
        /\ saved'.status = [i \in Invoice |-> IF holder[i] = s THEN status[i] ELSE saved.status[i]]
        /\ saved'.paid = [i \in Invoice |-> IF holder[i] = s THEN paid[i] ELSE saved.paid[i]]
        /\ saved'.counter = counter
    BY DEF IInv, ControlInv, LockInv, CommitPayment
  <1>2. /\ pc'[s] = "idle" /\ mine'[s] = {}
        /\ \A t \in Session \ {s} : /\ pc'[t] = pc[t] /\ target'[t] = target[t]
                                    /\ line'[t] = line[t] /\ mine'[t] = mine[t]
        /\ \A r \in Invoice \union {Counter} :
             /\ holder[r] = s => holder'[r] = NoSession
             /\ holder[r] # s => holder'[r] = holder[r]
    BY <1>0, <1>1, IdleEffect
  <1> HIDE DEF q
  <1>3. counter = saved.counter + 1 /\ saved.counter \in Nat /\ counter \in Nat
    BY <1>0, <1>1 DEF IInv, NumberInv, TypeOK
  <1>4. \A p \in Payment \ {q} : number'[p] = number[p]
    BY <1>0, <1>1 DEF TypeOK
  <1>5. number'[q] = counter /\ counter > 0
    BY <1>0, <1>1, <1>3 DEF TypeOK
  <1>6. \A t \in Session \ {s} : pc[t] # "allocate" /\ mine[t] = {}
    BY <1>1 DEF IInv, LockInv, RowsInv
  <1>7. TypeOK'
    <2>1. number' \in [Payment -> Nat]
      BY <1>0, <1>1, <1>3 DEF TypeOK
    <2>2. allocations' \subseteq AllocationRow
      BY <1>0, <1>1 DEF TypeOK
    <2>3. saved' \in [status : [Invoice -> Status], paid : [Invoice -> Nat], counter : Nat]
      BY <1>0 DEF TypeOK, CommitPayment
    <2> QED
      BY <2>1, <2>2, <2>3, <1>0, <1>1, IdleEffect DEF TypeOK
  <1>8. ControlInv' /\ LockInv'
    <2>1. \A t \in Session \ {s} : pc[t] \in {"number", "allocate"} =>
            target[t] \in Payment \ {q} /\ number[target[t]] = 0
      BY <1>1 DEF IInv, ControlInv, q
    <2>2. \A t \in Session \ {s} : pc[t] \in {"number", "allocate"} =>
            number'[target[t]] = 0
      BY <2>1, <1>4
    <2> QED
      BY <2>2, <1>1, IdleControl
  <1>9. \A a \in mine[s] : a.payment = q /\ holder[a.invoice] = s /\ a \in AllocationRow
    BY <1>0 DEF IInv, RowsInv, TypeOK, q
  <1>10. allocations \cap mine[s] = {}
    <2>1. \A a \in allocations : number[a.payment] # 0
      BY DEF IInv, RowsInv
    <2> QED
      BY <2>1, <1>1, <1>9
  <1>11. RowsInv'
    <2>1. IsFiniteSet(allocations) /\ IsFiniteSet(mine[s])
      BY DEF IInv, RowsInv
    <2>2. IsFiniteSet(allocations \cup mine[s])
      BY <2>1, FS_Union
    <2>3. ASSUME NEW a \in allocations \cup mine[s]  PROVE number'[a.payment] > 0
      <3>1. a \in allocations => number[a.payment] > 0 /\ a.payment \in Payment
        BY <1>0 DEF IInv, RowsInv, TypeOK, AllocationRow
      <3> QED
        BY <3>1, <1>1, <1>4, <1>5, <1>9
    <2>4. \A t \in Session : mine'[t] = {}
      BY <1>2, <1>6
    <2> QED
      BY <2>2, <2>3, <2>4, <1>1, FS_EmptySet DEF RowsInv
  <1>12. VersionsInv'
    <2> SUFFICES ASSUME NEW i \in Invoice
        PROVE /\ Agrees(i, status[i], paid[i])
              /\ Agrees(i, saved'.status[i], saved'.paid[i])
              /\ saved'.paid[i] = SumTo(allocations', i)
              /\ holder'[i] = NoSession =>
                   status[i] = saved'.status[i] /\ paid[i] = saved'.paid[i]
              /\ \A t \in Session : holder'[i] = t =>
                   /\ paid[i] = saved'.paid[i] + SumTo(mine'[t], i)
                   /\ status[i] \in {"paid", "partially_paid"}
      BY <1>1 DEF VersionsInv
    <2>1. /\ allocations \in SUBSET AllocationRow /\ IsFiniteSet(allocations)
          /\ mine[s] \in SUBSET AllocationRow /\ IsFiniteSet(mine[s])
      BY <1>0 DEF TypeOK, IInv, RowsInv
    <2>2. SumTo(allocations', i) = SumTo(allocations, i) + SumTo(mine[s], i)
      <3>1. SumTo(allocations \cup mine[s], i) = SumTo(allocations, i) + SumTo(mine[s], i)
        <4> HIDE PaymentAssumption
        <4> QED
          BY <2>1, <1>10, SumToUnion, ZenonT(60)
      <3> QED
        BY <3>1, <1>1
    <2>3. holder'[i] = NoSession
      <3>1. holder[i] \in Session \union {NoSession}
        BY <1>0 DEF TypeOK
      <3>2. holder[i] \in {s, NoSession}
        BY <3>1, <1>1, <1>6 DEF IInv, LockInv
      <3> QED
        BY <3>2, <1>2
    <2>4. saved.paid[i] = SumTo(allocations, i)
      BY DEF IInv, VersionsInv
    <2>5. CASE holder[i] = s
      <3>1. /\ saved'.paid[i] = paid[i] /\ saved'.status[i] = status[i]
            /\ paid[i] = saved.paid[i] + SumTo(mine[s], i)
        BY <2>5, <1>1 DEF IInv, VersionsInv
      <3> QED
        BY <2>2, <2>3, <2>4, <3>1 DEF IInv, VersionsInv
    <2>6. CASE holder[i] # s
      <3>1. saved'.paid[i] = saved.paid[i] /\ saved'.status[i] = saved.status[i]
        BY <2>6, <1>1
      <3>2. holder[i] = NoSession
        BY <2>6, <1>0, <1>1 DEF IInv, LockInv, TypeOK
      <3>3. To(mine[s], i) = {}
        BY <2>6, <1>9 DEF To
      <3>4. SumTo(mine[s], i) = 0 /\ SumTo(allocations, i) \in Nat
        BY <2>1, <3>3, SumToType
      <3>5. SumTo(allocations', i) = SumTo(allocations, i)
        <4> DEFINE m == SumTo(allocations, i)
        <4>1. m \in Nat /\ SumTo(allocations', i) = m + 0
          BY <2>2, <3>4
        <4> HIDE DEF m
        <4>2. SumTo(allocations', i) = m
          BY <4>1
        <4> QED
          BY <4>2 DEF m
      <3> QED
        BY <2>3, <2>4, <3>1, <3>2, <3>5 DEF IInv, VersionsInv
    <2> QED
      BY <2>5, <2>6
  <1>13. NumberInv'
    <2>1. Numbered' = Numbered \cup {q} /\ q \notin Numbered
      BY <1>0, <1>1, <1>4, <1>5 DEF Numbered, TypeOK
    <2>2. /\ IsFiniteSet(Numbered) /\ Cardinality(Numbered) = saved.counter
          /\ {number[p] : p \in Numbered} = 1..saved.counter
      BY DEF IInv, NumberInv
    <2>3. IsFiniteSet(Numbered') /\ Cardinality(Numbered') = saved.counter + 1
      BY <2>1, <2>2, FS_AddElement
    <2>4. {number'[p] : p \in Numbered'} = 1..counter
      <3>1. {number'[p] : p \in Numbered'} = {number[p] : p \in Numbered} \cup {counter}
        <4>1. \A p \in Numbered : number'[p] = number[p]
          BY <2>1, <1>4 DEF Numbered
        <4> QED
          BY <2>1, <4>1, <1>5
      <3>2. 1..counter = (1..saved.counter) \cup {counter}
        BY <1>3
      <3> QED
        BY <2>2, <3>1, <3>2
    <2>5. holder'[Counter] = NoSession
      BY <1>1, <1>2
    <2> QED
      BY <2>3, <2>4, <2>5, <1>1, <1>3 DEF NumberInv
  <1> QED
    BY <1>7, <1>8, <1>11, <1>12, <1>13 DEF IInv

-----------------------------------------------------------------------------
(* The invariant is inductive.                                             *)

\* Every step of the specification keeps the invariant.
LEMMA NextPreserves == IInv /\ [Next]_vars => IInv'
  <1> SUFFICES ASSUME IInv, [Next]_vars  PROVE IInv'
    OBVIOUS
  <1> USE PaymentAssumption
  <1>0. TypeOK /\ ControlInv /\ LockInv
    BY DEF IInv
  <1>a. ASSUME NEW i \in Invoice
        PROVE  /\ holder[i] \in Session \union {NoSession}
               /\ status[i] \notin {"paid", "partially_paid"} => holder[i] = NoSession
               /\ paid[i] <= Total[i] /\ paid[i] % 10 = 0
    BY <1>0 DEF TypeOK, IInv, VersionsInv, Agrees
  <1>1. ASSUME NEW i \in Invoice, CreateInvoice(i)  PROVE IInv'
    <2>1. /\ holder[i] = NoSession /\ "draft" \in Status
          /\ Agrees(i, "draft", paid[i]) /\ SetStatus(i, "draft")
          /\ UNCHANGED <<holder, pc, target, line, mine>>
      BY <1>1, <1>a DEF CreateInvoice, IInv, VersionsInv, Agrees, Status
    <2>2. /\ status' \in [Invoice -> Status]
          /\ saved' \in [status : [Invoice -> Status], paid : [Invoice -> Nat], counter : Nat]
          /\ RowsInv' /\ VersionsInv' /\ NumberInv'
      BY <2>1, SetStatusKeeps
    <2>3. TypeOK' /\ ControlInv' /\ LockInv'
      BY <2>1, <2>2, <1>0 DEF TypeOK, ControlInv, LockInv, SetStatus
    <2> QED
      BY <2>2, <2>3 DEF IInv
  <1>2. ASSUME NEW i \in Invoice, DeleteInvoice(i)  PROVE IInv'
    <2>1. /\ holder[i] = NoSession /\ "deleted" \in Status
          /\ Agrees(i, "deleted", paid[i]) /\ SetStatus(i, "deleted")
          /\ UNCHANGED <<holder, pc, target, line, mine>>
      BY <1>2, <1>a DEF DeleteInvoice, IInv, VersionsInv, Agrees, Status
    <2>2. /\ status' \in [Invoice -> Status]
          /\ saved' \in [status : [Invoice -> Status], paid : [Invoice -> Nat], counter : Nat]
          /\ RowsInv' /\ VersionsInv' /\ NumberInv'
      BY <2>1, SetStatusKeeps
    <2>3. TypeOK' /\ ControlInv' /\ LockInv'
      BY <2>1, <2>2, <1>0 DEF TypeOK, ControlInv, LockInv, SetStatus
    <2> QED
      BY <2>2, <2>3 DEF IInv
  <1>3. ASSUME NEW s \in Session, NEW i \in Invoice, BeginApprove(s, i)  PROVE IInv'
    <2>1. TypeOK' /\ ControlInv'
      BY <1>0, <1>3 DEF TypeOK, ControlInv, BeginApprove, rowVars
    <2>2. LockInv'
      BY <1>0, <1>3 DEF TypeOK, LockInv, BeginApprove, rowVars
    <2>3. RowsInv'
      BY <1>0, <1>3 DEF TypeOK, IInv, RowsInv, BeginApprove, rowVars
    <2>4. VersionsInv' /\ NumberInv'
      BY ZenonT(90), <1>3 DEF IInv, VersionsInv, NumberInv, Numbered, BeginApprove, rowVars
    <2> QED
      BY <2>1, <2>2, <2>3, <2>4 DEF IInv
  <1>4. ASSUME NEW s \in Session, NEW p \in Payment, BeginPayment(s, p)  PROVE IInv'
    <2>1. TypeOK' /\ ControlInv'
      BY <1>0, <1>4 DEF TypeOK, ControlInv, BeginPayment, rowVars
    <2>2. LockInv'
      BY <1>0, <1>4 DEF TypeOK, LockInv, BeginPayment, rowVars
    <2>3. RowsInv'
      BY <1>0, <1>4 DEF TypeOK, IInv, RowsInv, BeginPayment, rowVars
    <2>4. VersionsInv' /\ NumberInv'
      BY ZenonT(90), <1>4 DEF IInv, VersionsInv, NumberInv, Numbered, BeginPayment, rowVars
    <2> QED
      BY <2>1, <2>2, <2>3, <2>4 DEF IInv
  <1>5. ASSUME NEW s \in Session, ApproveInvoice(s)  PROVE IInv'
    <2> DEFINE i == target[s]
    <2>1. /\ i \in Invoice /\ Idle(s) /\ SetStatus(i, "approved") /\ "approved" \in Status
          /\ Agrees(i, "approved", paid[i])
      BY <1>0, <1>5, <1>a DEF ApproveInvoice, ControlInv, Agrees, Status
    <2>2. \A r \in Invoice \union {Counter} : holder[r] # s
      BY <1>0, <1>5 DEF ApproveInvoice, LockInv
    <2>3. holder[i] = NoSession
      BY <2>1, <2>2, <1>5 DEF ApproveInvoice, Free
    <2> HIDE DEF i
    <2>4. /\ \A r \in Invoice \union {Counter} : holder'[r] = holder[r]
          /\ pc'[s] = "idle" /\ mine'[s] = {} /\ mine[s] = {} /\ pc[s] = "approve"
          /\ \A t \in Session \ {s} : /\ pc'[t] = pc[t] /\ target'[t] = target[t]
                                      /\ line'[t] = line[t] /\ mine'[t] = mine[t]
      BY SMTT(60), <2>1, <2>2, <1>0, <1>5, IdleEffect DEF ApproveInvoice, IInv, RowsInv
    <2>5. /\ status' \in [Invoice -> Status]
          /\ saved' \in [status : [Invoice -> Status], paid : [Invoice -> Nat], counter : Nat]
          /\ RowsInv' /\ VersionsInv' /\ NumberInv'
      BY <2>1, <2>3, <2>4, SetStatusKeeps
    <2>6. TypeOK'
      BY <2>1, <2>5, <1>0, IdleEffect DEF TypeOK, SetStatus
    <2>7. ControlInv' /\ LockInv'
      BY <2>1, <1>0, IdleControl DEF ControlInv, SetStatus
    <2> QED
      BY <2>5, <2>6, <2>7 DEF IInv
  <1>6. ASSUME NEW s \in Session, TakeNumber(s)  PROVE IInv'
    <2>1. /\ pc[s] = "number" /\ holder[Counter] = NoSession
          /\ \A i \in Invoice : holder[i] # s
      BY <1>0, <1>6 DEF TakeNumber, Free, LockInv
    <2>2. /\ counter' = counter + 1 /\ counter = saved.counter /\ saved.counter \in Nat
          /\ holder'[Counter] = s /\ pc'[s] = "allocate"
          /\ \A i \in Invoice : holder'[i] = holder[i]
          /\ \A t \in Session \ {s} : pc'[t] = pc[t]
          /\ UNCHANGED <<status, paid, saved, number, allocations, target, line, mine>>
      BY <2>1, <1>0, <1>6 DEF TakeNumber, TypeOK, IInv, NumberInv
    <2>3. TypeOK'
      BY <1>0, <1>6 DEF TakeNumber, TypeOK
    <2>4. ControlInv'
      BY ZenonT(90), <2>1, <2>2, <1>0 DEF ControlInv
    <2>8. LockInv'
      <3> SUFFICES ASSUME NEW t \in Session
            PROVE /\ pc'[t] = "allocate" <=> holder'[Counter] = t
                  /\ \A i \in Invoice : holder'[i] = t => pc'[t] = "allocate"
        BY DEF LockInv
      <3>1. /\ pc[t] = "allocate" <=> holder[Counter] = t
            /\ \A i \in Invoice : holder[i] = t => pc[t] = "allocate"
        BY <1>0 DEF LockInv
      <3>2. NoSession # t
        OBVIOUS
      <3> QED
        BY <2>1, <2>2, <3>1, <3>2
    <2>5. RowsInv'
      <3>1. mine[s] = {}
        BY <2>1 DEF IInv, RowsInv
      <3>2. \A t \in Session : \A a \in mine[t] : a.invoice \in Invoice
        BY <1>0 DEF TypeOK, AllocationRow
      <3> QED
        BY <3>1, <3>2, <2>2 DEF IInv, RowsInv
    <2>6. VersionsInv'
      BY <2>2 DEF IInv, VersionsInv
    <2>7. NumberInv'
      <3>1. Numbered' = Numbered
        BY <2>2 DEF Numbered
      <3>2. {number'[p] : p \in Numbered'} = {number[p] : p \in Numbered}
        BY <3>1, <2>2
      <3> QED
        BY <3>1, <3>2, <2>2 DEF IInv, NumberInv
    <2> QED
      BY <2>3, <2>4, <2>5, <2>6, <2>7, <2>8 DEF IInv
  <1>7. CASE UNCHANGED vars
    <2>1. TypeOK' /\ ControlInv' /\ LockInv'
      BY <1>0, <1>7 DEF vars, rowVars, TypeOK, ControlInv, LockInv
    <2>2. RowsInv'
      BY <1>7 DEF vars, rowVars, IInv, RowsInv
    <2>3. VersionsInv'
      BY <1>7 DEF vars, rowVars, IInv, VersionsInv
    <2>4. NumberInv'
      <3>1. Numbered' = Numbered /\ number' = number
        BY <1>7 DEF vars, rowVars, Numbered
      <3>2. {number'[p] : p \in Numbered'} = {number[p] : p \in Numbered}
        BY <3>1
      <3> QED
        BY <3>1, <3>2, <1>7 DEF vars, rowVars, IInv, NumberInv
    <2> QED
      BY <2>1, <2>2, <2>3, <2>4 DEF IInv
  <1>8. ASSUME NEW s \in Session, Step(s) \/ Fail(s)  PROVE IInv'
    <2>1. (InvoiceGone(s) \/ RefuseAllocation(s) \/ Fail(s)) => Rollback(s)
      BY DEF InvoiceGone, RefuseAllocation, Fail
    <2> QED
      BY <2>1, <1>5, <1>6, <1>8, AllocatePreserves, CommitPreserves, RollbackPreserves DEF Step
  <1> QED
    BY <1>1, <1>2, <1>3, <1>4, <1>7, <1>8 DEF Next

\* The inductive invariant holds in every reachable state.
THEOREM PaymentInvariant == Spec => []IInv
  <1> QED
    BY InitEstablishes, NextPreserves, PTL DEF Spec

-----------------------------------------------------------------------------
(* The properties.                                                         *)

(***************************************************************************)
(* The invoice, payment and counter rows and the state of every request    *)
(* keep their types.                                                       *)
(***************************************************************************)
THEOREM PaymentTypes == Spec => []TypeOK
  <1>1. IInv => TypeOK
    BY DEF IInv
  <1> QED
    BY <1>1, PaymentInvariant, PTL

(***************************************************************************)
(* The paid amount others see is the sum of the allocations they see, for  *)
(* any number of payments in any order, that fail at any statement.        *)
(***************************************************************************)
THEOREM PaidIsAllocated == Spec => []PaidIsSumOfAllocations
  <1>1. IInv => PaidIsSumOfAllocations
    BY AllocatedIsSumTo DEF IInv, VersionsInv, PaidIsSumOfAllocations
  <1> QED
    BY <1>1, PaymentInvariant, PTL

(***************************************************************************)
(* No invoice is paid beyond its total, although each payment looks at the *)
(* outstanding amount before the database rounds what it adds.             *)
(***************************************************************************)
THEOREM InvoicesAreNotOverpaid == Spec => []NeverOverpaid
  <1>1. IInv => NeverOverpaid
    BY DEF IInv, VersionsInv, Agrees, NeverOverpaid
  <1> QED
    BY <1>1, PaymentInvariant, PTL

(***************************************************************************)
(* A paid invoice owes nothing, a partially paid one has a payment, and    *)
(* one that was never approved has none.                                   *)
(***************************************************************************)
THEOREM StatusIsPayments == Spec => []StatusAgreesWithPayments
  <1>1. IInv => StatusAgreesWithPayments
    BY AllocatedIsSumTo DEF IInv, VersionsInv, Agrees, StatusAgreesWithPayments
  <1> QED
    BY <1>1, PaymentInvariant, PTL

(***************************************************************************)
(* Payment numbers are 1, 2, 3, ... without gaps: the counter row stays    *)
(* locked until the payment that took the number commits or fails.         *)
(***************************************************************************)
THEOREM NoGaps == Spec => []NumbersHaveNoGaps
  <1>1. IInv => NumbersHaveNoGaps
    BY DEF IInv, NumberInv, Numbered, NumbersHaveNoGaps
  <1> QED
    BY <1>1, PaymentInvariant, PTL

-----------------------------------------------------------------------------
(* The reports.                                                            *)

\* A stored amount is at most half a cent off.
LEMMA HalfACent ==
  ASSUME NEW x \in Int
  PROVE  Stored(x) \in Int /\ Stored(x) - x \in -5..5
  <1> DEFINE k == (x + 5) \div 10
  <1>1. k \in Int /\ 10 * k <= x + 5 /\ x + 5 < 10 * k + 10
    OBVIOUS
  <1>2. Stored(x) = k * 10
    BY DEF Stored
  <1> HIDE DEF k
  <1> QED
    BY <1>1, <1>2

\* The lines of an invoice are finite, and natural numbers of tenths of a cent.
LEMMA LineFacts ==
  ASSUME NEW i \in Invoice
  PROVE  /\ IsFiniteSet(LineIds(i))
         /\ \A id \in LineIds(i) : id[1] = i /\ LineOf(id).net \in Nat /\ LineOf(id).tax \in Nat
  <1> DEFINE s == Lines[i]
             n == Len(s)
             row == [k \in 1..n |-> <<i, k>>]
             ks == 1..n
             Line == [product : STRING, gst : STRING, net : Nat, tax : Nat]
  <1>1. s \in Seq(Line)
    BY ReportsAssumption
  <1>2. LineIds(i) = {row[k] : k \in ks}
    BY DEF LineIds
  <1>3. \A k \in ks : row[k] = <<i, k>> /\ LineOf(<<i, k>>) = s[k]
    BY DEF LineOf
  <1> HIDE DEF s, Line
  <1>4. n \in Nat /\ \A k \in ks : s[k] \in Line
    BY <1>1, LenProperties, ElementOfSeq
  <1> HIDE DEF n
  <1>5. IsFiniteSet(ks)
    BY <1>4, FS_Interval
  <1> HIDE DEF row, ks
  <1>6. ASSUME NEW id \in LineIds(i)
        PROVE  id[1] = i /\ LineOf(id).net \in Nat /\ LineOf(id).tax \in Nat
    <2>1. PICK k \in ks : id = row[k]
      BY <1>2
    <2>2. id = <<i, k>> /\ LineOf(id) = s[k]
      BY <1>3, <2>1
    <2>3. s[k] \in Line
      BY <1>4
    <2> QED
      BY <2>2, <2>3 DEF Line
  <1>7. IsFiniteSet({row[k] : k \in ks})
    BY <1>5, ImageFinite
  <1> QED
    BY <1>2, <1>6, <1>7

\* The lines of some invoices.
LEMMA LinesOfFacts ==
  ASSUME NEW J \in SUBSET Invoice
  PROVE  /\ IsFiniteSet(J) /\ IsFiniteSet(LinesOf(J))
         /\ \A id \in LinesOf(J) :
              /\ id[1] \in J /\ LineOf(id).net \in Nat /\ LineOf(id).tax \in Nat
              /\ \A i \in J : id[1] = i <=> id \in LineIds(i)
  <1>1. IsFiniteSet(J)
    BY ReportsAssumption, FS_Subset
  <1> DEFINE row == [i \in J |-> LineIds(i)]
             T == {row[i] : i \in J}
  <1>2. LinesOf(J) = UNION T /\ \A t \in T : IsFiniteSet(t)
    BY LineFacts DEF LinesOf
  <1>3. IsFiniteSet(T)
    <2> HIDE DEF row
    <2> QED
      BY <1>1, ImageFinite
  <1> HIDE DEF T
  <1>4. IsFiniteSet(LinesOf(J))
    BY <1>2, <1>3, FS_UNION
  <1>5. ASSUME NEW id \in LinesOf(J)
        PROVE  /\ id[1] \in J /\ LineOf(id).net \in Nat /\ LineOf(id).tax \in Nat
               /\ \A i \in J : id[1] = i <=> id \in LineIds(i)
    <2>1. PICK j \in J : id \in LineIds(j)
      BY DEF LinesOf
    <2>2. id[1] = j /\ LineOf(id).net \in Nat /\ LineOf(id).tax \in Nat
      BY <2>1, LineFacts
    <2>3. \A i \in J : id \in LineIds(i) => id[1] = i
      BY LineFacts
    <2> QED
      BY <2>1, <2>2, <2>3
  <1> QED
    BY <1>1, <1>4, <1>5

\* What a line adds to a report is an integer.
LEMMA LineAmounts ==
  ASSUME NEW J \in SUBSET Invoice, NEW id \in LinesOf(J)
  PROVE  /\ LineTotal(id) \in Int /\ LineTax(id) \in Int
         /\ LineOf(id).net + LineOf(id).tax \in Int
         /\ LineTotal(id) - (LineOf(id).net + LineOf(id).tax) \in -5..5
  <1>1. LineOf(id).net + LineOf(id).tax \in Int /\ LineOf(id).tax \in Int
    BY LinesOfFacts
  <1> QED
    BY <1>1, HalfACent DEF LineTotal, LineTax

\* Totals are natural numbers.
LEMMA InvoiceAmounts ==
  ASSUME NEW i \in Invoice
  PROVE  Total[i] \in Int /\ Discount[i] \in Int
BY PaymentAssumption, ReportsAssumption

\* The register adds up to the totals of what it lists.
LEMMA RegisterSum ==
  ASSUME NEW days
  PROVE  SumFunctionOnSet([r \in Register(days) |-> r.total], Register(days)) = SumTotals(Counted(days))
  <1> DEFINE C == Counted(days)
             R == Register(days)
             row == [i \in C |-> [invoice |-> i, party |-> Party[i], total |-> Total[i],
                                  paid |-> saved.paid[i]]]
             f == [r \in R |-> r.total]
  <1>1. C \in SUBSET Invoice /\ IsFiniteSet(C)
    BY LinesOfFacts DEF Counted
  <1>2. R = {row[i] : i \in C}
    BY DEF Register
  <1>3. \A i \in C : row[i].invoice = i /\ row[i].total = Total[i] /\ row[i] \in R
    BY <1>2
  <1>4. \A i \in C : Total[i] \in Int /\ f[row[i]] = Total[i]
    BY <1>1, <1>3, InvoiceAmounts
  <1>5. \A i, j \in C : row[i] = row[j] => i = j
    BY <1>3
  <1> HIDE DEF C, R, row, f
  <1>6. SumFunctionOnSet(f, {row[i] : i \in C}) = SumFunctionOnSet(Total, C)
    BY <1>1, <1>4, <1>5, SumRows
  <1> QED
    BY <1>2, <1>6 DEF SumTotals, C, R, f

\* The rows of a GROUP BY add up to what was grouped.
LEMMA GroupedSum ==
  ASSUME NEW ids, IsFiniteSet(ids), NEW key, NEW amount, \A x \in ids : amount[x] \in Int
  PROVE  LET rows == Grouped(ids, key, amount)
         IN  SumFunctionOnSet([g \in rows |-> g.amount], rows) = SumFunctionOnSet(amount, ids)
  <1> DEFINE K == {key[x] : x \in ids}
             g == [k \in K |-> SumFunctionOnSet(amount, {x \in ids : key[x] = k})]
             row == [k \in K |-> [key |-> k, amount |-> g[k]]]
             rows == Grouped(ids, key, amount)
             f == [r \in rows |-> r.amount]
  <1>1. IsFiniteSet(K)
    BY ImageFinite
  <1>2. \A k \in K : g[k] \in Int
    <2> SUFFICES ASSUME NEW k \in K  PROVE SumFunctionOnSet(amount, {x \in ids : key[x] = k}) \in Int
      OBVIOUS
    <2> DEFINE G == {x \in ids : key[x] = k}
    <2>1. IsFiniteSet(G) /\ \A x \in G : amount[x] \in Int
      BY FS_Subset
    <2> HIDE DEF G
    <2> QED
      BY <2>1, SumType DEF G
  <1>3. rows = {row[k] : k \in K}
    BY DEF Grouped
  <1>4. \A k \in K : row[k].key = k /\ row[k].amount = g[k] /\ row[k] \in rows
    BY <1>3
  <1>5. \A k \in K : f[row[k]] = g[k]
    BY <1>4
  <1>6. \A k, l \in K : row[k] = row[l] => k = l
    BY <1>4
  <1>7. SumFunctionOnSet(g, K) = SumFunctionOnSet(amount, ids)
    <2>1. \A x \in ids : key[x] \in K
      OBVIOUS
    <2> HIDE DEF K
    <2> QED
      BY <1>1, <2>1, SumGroups
  <1> HIDE DEF K, g, row, rows, f
  <1>8. SumFunctionOnSet(f, {row[k] : k \in K}) = SumFunctionOnSet(g, K)
    BY <1>1, <1>2, <1>5, <1>6, SumRows
  <1> QED
    BY <1>3, <1>7, <1>8 DEF rows, f

\* The rows of the GST summary add up to the lines.
LEMMA GstSum ==
  ASSUME NEW days
  PROVE  LET rates == GstSummary(days)
             ids == LinesOf(Counted(days))
         IN  SumFunctionOnSet([g \in rates |-> g.taxable + g.tax], rates)
               = SumFunctionOnSet([id \in ids |-> LineTotal(id)], ids)
  <1> DEFINE ids == LinesOf(Counted(days))
             rates == GstSummary(days)
             key == [id \in ids |-> LineOf(id).gst]
             K == {LineOf(id).gst : id \in ids}
             Of(k) == {id \in ids : LineOf(id).gst = k}
             net == [id \in ids |-> LineTotal(id) - LineTax(id)]
             tax == [id \in ids |-> LineTax(id)]
             all == [id \in ids |-> LineTotal(id)]
             none == [id \in ids |-> 0]
             row == [k \in K |-> [gst |-> k, taxable |-> SumFunctionOnSet(net, Of(k)),
                                  tax |-> SumFunctionOnSet(tax, Of(k))]]
             g == [k \in K |-> SumFunctionOnSet(all, Of(k))]
             f == [r \in rates |-> r.taxable + r.tax]
  <1>1. Counted(days) \in SUBSET Invoice /\ IsFiniteSet(ids)
    BY LinesOfFacts DEF Counted
  <1>2. \A id \in ids : /\ net[id] \in Int /\ tax[id] \in Int /\ all[id] \in Int /\ none[id] = 0
                        /\ net[id] + tax[id] = all[id] + none[id]
    BY <1>1, LineAmounts
  <1>3. IsFiniteSet(K)
    <2>1. K = {key[id] : id \in ids}
      OBVIOUS
    <2> HIDE DEF ids, key, K
    <2>2. IsFiniteSet({key[id] : id \in ids})
      BY <1>1, ImageFinite
    <2> QED
      BY <2>1, <2>2
  <1>4. /\ \A id \in ids : key[id] \in K
        /\ \A k \in K : Of(k) = {id \in ids : key[id] = k}
    OBVIOUS
  <1>5. rates = {row[k] : k \in K}
    <2>1. rates = {[gst |-> k, taxable |-> SumFunctionOnSet(net, Of(k)),
                    tax |-> SumFunctionOnSet(tax, Of(k))] : k \in K}
      BY DEF GstSummary
    <2> HIDE DEF K, Of, net, tax, rates
    <2> QED
      BY <2>1
  <1> HIDE DEF ids, key, net, tax, all, none
  <1>6. ASSUME NEW k \in K
        PROVE  /\ g[k] \in Int
               /\ SumFunctionOnSet(net, Of(k)) + SumFunctionOnSet(tax, Of(k)) = g[k]
    <2>1. IsFiniteSet(Of(k)) /\ \A id \in Of(k) : id \in ids
      BY <1>1, FS_Subset
    <2>2. \A id \in Of(k) : /\ net[id] \in Int /\ tax[id] \in Int /\ all[id] \in Int /\ none[id] \in Int
                            /\ net[id] + tax[id] = all[id] + none[id] /\ none[id] = 0
      BY <1>2, <2>1
    <2>3. g[k] = SumFunctionOnSet(all, Of(k))
      OBVIOUS
    <2> HIDE DEF Of, g
    <2>4. SumFunctionOnSet(none, Of(k)) = 0
      BY <2>1, <2>2, SumZero
    <2>5. SumFunctionOnSet(net, Of(k)) + SumFunctionOnSet(tax, Of(k))
            = SumFunctionOnSet(all, Of(k)) + SumFunctionOnSet(none, Of(k))
      BY <2>1, <2>2, SumLinear
    <2>6. SumFunctionOnSet(all, Of(k)) \in Int
      BY <2>1, <2>2, SumType
    <2> QED
      BY <2>3, <2>4, <2>5, <2>6
  <1>7. \A k \in K : /\ row[k].gst = k /\ row[k] \in rates
                     /\ row[k].taxable + row[k].tax = g[k]
    BY <1>5, <1>6
  <1>8. \A k \in K : f[row[k]] = g[k]
    BY <1>7
  <1>9. \A k, l \in K : row[k] = row[l] => k = l
    BY <1>7
  <1>10. SumFunctionOnSet(g, K) = SumFunctionOnSet(all, ids)
    <2> DEFINE h == [k \in K |-> SumFunctionOnSet(all, {id \in ids : key[id] = k})]
    <2>1. h = g
      <3> HIDE DEF Of, K
      <3> QED
        BY <1>4
    <2> HIDE DEF K, g
    <2>2. SumFunctionOnSet(h, K) = SumFunctionOnSet(all, ids)
      BY <1>1, <1>2, <1>3, <1>4, SumGroups
    <2> QED
      BY <2>1, <2>2
  <1>11. \A k \in K : g[k] \in Int
    BY <1>6
  <1> HIDE DEF K, g, row, rates, f, Of
  <1>12. SumFunctionOnSet(f, {row[k] : k \in K}) = SumFunctionOnSet(g, K)
    BY <1>3, <1>8, <1>9, <1>11, SumRows
  <1> QED
    BY <1>5, <1>10, <1>12 DEF ids, rates, f, all

\* The months from one to another are those of the days between them.
LEMMA MonthsInOrder ==
  ASSUME NEW d \in Nat, NEW first \in Int, NEW last \in Int
  PROVE  /\ MonthOf(d) \in first..last <=> d \in Months(first, last).from..Months(first, last).to
         /\ MonthOf(d) \in Nat
  <1> DEFINE n == MonthLength
             a == d \div n
  <1>1. n \in Nat /\ n > 0
    BY ReportsAssumption
  <1>2. Months(first, last).from = first * n /\ Months(first, last).to = last * n + (n - 1)
    BY DEF Months
  <1> HIDE DEF n
  <1>3. a \in Int /\ n * a <= d /\ d < n * a + n
    BY <1>1
  <1> HIDE DEF a
  <1>4. ASSUME NEW b \in Int, NEW c \in Int, b < c  PROVE n * b + n <= n * c
    <2>1. c - b - 1 \in Nat
      BY <1>4
    <2>2. n * (c - b - 1) \in Nat
      BY <1>1, <2>1
    <2>3. n * (c - b - 1) = n * c - n * b - n
      BY <1>1
    <2>4. n * b \in Int /\ n * c \in Int
      BY <1>1
    <2> QED
      BY <1>1, <2>2, <2>3, <2>4
  <1>5. /\ n * a \in Int /\ n * first \in Int /\ n * last \in Int /\ n * (-1) = -n
        /\ first * n = n * first /\ last * n = n * last
    BY <1>1, <1>3
  <1>6. a >= first <=> first * n <= d
    <2>1. a < first => n * a + n <= n * first
      BY <1>3, <1>4
    <2>2. first < a => n * first + n <= n * a
      BY <1>3, <1>4
    <2> QED
      BY <1>1, <1>3, <1>5, <2>1, <2>2
  <1>7. a <= last <=> d <= last * n + (n - 1)
    <2>1. last < a => n * last + n <= n * a
      BY <1>3, <1>4
    <2>2. a < last => n * a + n <= n * last
      BY <1>3, <1>4
    <2> QED
      BY <1>1, <1>3, <1>5, <2>1, <2>2
  <1>8. a >= 0
    <2>1. a < 0 => a = -1 \/ n * a + n <= n * (-1)
      BY <1>3, <1>4
    <2> QED
      BY <1>1, <1>3, <1>5, <2>1
  <1>9. first * n \in Int /\ last * n + (n - 1) \in Int
    BY <1>1, <1>5
  <1> QED
    BY <1>2, <1>3, <1>6, <1>7, <1>8, <1>9 DEF MonthOf, a, n

\* The months of the graph add up to what is counted from the first of their days to the last.
LEMMA MonthSum ==
  ASSUME NEW today \in Nat, NEW first \in 0..MonthOf(today)
  PROVE  SumFunctionOnSet(MonthlyGraph(today, MonthOf(today) - first + 1), first..MonthOf(today))
           = SumTotals(Counted(Months(first, MonthOf(today))))
  <1> DEFINE M == MonthOf(today)
             C == Counted(Months(first, M))
             key == [i \in C |-> MonthOf(Day[i])]
             graph == MonthlyGraph(today, M - first + 1)
             ms == first..M
             g == [m \in ms |-> SumFunctionOnSet(Total, {i \in C : key[i] = m})]
  <1>1. C \in SUBSET Invoice /\ IsFiniteSet(C) /\ \A i \in C : Total[i] \in Int
    BY LinesOfFacts, InvoiceAmounts DEF Counted
  <1>2. M \in Nat /\ first \in Int
    BY MonthsInOrder
  <1>3. IsFiniteSet(ms)
    <2> HIDE DEF M
    <2> QED
      BY <1>2, FS_Interval
  <1>4. \A i \in Invoice : Day[i] \in Nat
    BY ReportsAssumption
  <1>5. \A i \in Invoice : In(i, Months(first, M)) <=> MonthOf(Day[i]) \in ms
    <2> HIDE DEF M
    <2> QED
      BY <1>2, <1>4, MonthsInOrder DEF In
  <1>6. \A i \in C : key[i] \in ms
    BY <1>1, <1>5 DEF Counted
  <1>7. graph = g
    <2>1. M - ((M - first + 1) - 1) = first
      BY <1>2
    <2>2. \A m \in ms :
            {i \in Invoice : Exists(i) /\ saved.status[i] # "cancelled" /\ MonthOf(Day[i]) = m}
              = {i \in C : key[i] = m}
      BY <1>5 DEF Counted
    <2>3. graph = [m \in M - ((M - first + 1) - 1)..M |->
                     SumTotals({i \in Invoice : Exists(i) /\ saved.status[i] # "cancelled"
                                                  /\ MonthOf(Day[i]) = m})]
      BY DEF MonthlyGraph
    <2> HIDE DEF M, C, key, graph
    <2> QED
      BY <2>1, <2>2, <2>3 DEF SumTotals
  <1> HIDE DEF M, C, key, ms
  <1>8. SumFunctionOnSet(g, ms) = SumFunctionOnSet(Total, C)
    BY <1>1, <1>3, <1>6, SumGroups
  <1> HIDE DEF g, graph
  <1> QED
    BY <1>7, <1>8 DEF graph, M, C, ms, SumTotals

\* What is counted until today is of today or of the days before.
LEMMA TodaySum ==
  ASSUME NEW today \in Nat
  PROVE  SumTotals(Counted(Until(today - 1))) + TodayFigures(today) = SumTotals(Counted(Until(today)))
  <1> DEFINE A == Counted(Until(today - 1))
             B == Counted([from |-> today, to |-> today])
  <1>1. \A i \in Invoice : Day[i] \in Nat
    BY ReportsAssumption
  <1>2. \A i \in Invoice : Day[i] \in 0..today <=> Day[i] \in 0..today - 1 \/ Day[i] \in today..today
    BY <1>1
  <1>3. \A i \in Invoice : ~(Day[i] \in 0..today - 1 /\ Day[i] \in today..today)
    BY <1>1
  <1>4. Counted(Until(today)) = A \cup B /\ A \cap B = {}
    BY <1>2, <1>3 DEF Counted, In, Until
  <1>5. IsFiniteSet(A) /\ IsFiniteSet(B) /\ \A i \in A \cup B : Total[i] \in Int
    BY LinesOfFacts, InvoiceAmounts DEF Counted
  <1> HIDE DEF A, B
  <1>6. SumFunctionOnSet(Total, A \cup B) = SumFunctionOnSet(Total, A) + SumFunctionOnSet(Total, B)
    BY <1>4, <1>5, SumUnion
  <1> QED
    BY <1>4, <1>6 DEF SumTotals, TodayFigures, A, B

\* Lines and headers differ by their roundings.
LEMMA RoundingSum ==
  ASSUME NEW J \in SUBSET Invoice
  PROVE  LET ids == LinesOf(J)
             gap == SumFunctionOnSet([id \in ids |-> LineTotal(id)], ids)
                      - SumFunctionOnSet(Discount, J) - SumTotals(J)
             most == Rounding * (Cardinality(ids) + Cardinality(J))
         IN  gap \in -most..most
  <1> DEFINE ids == LinesOf(J)
             lines == [id \in ids |-> LineTotal(id)]
             exact == [id \in ids |-> LineOf(id).net + LineOf(id).tax]
             e1 == [id \in ids |-> lines[id] - exact[id]]
             none == [id \in ids |-> 0]
             key == [id \in ids |-> id[1]]
             x == [i \in J |-> SumFunctionOnSet(exact, {id \in ids : key[id] = i})]
             e2 == [i \in J |-> Total[i] - (x[i] - Discount[i])]
  <1>1. IsFiniteSet(J) /\ IsFiniteSet(ids)
    BY LinesOfFacts
  <1>2. \A id \in ids : /\ lines[id] \in Int /\ exact[id] \in Int /\ none[id] = 0
                        /\ e1[id] \in -5..5 /\ lines[id] + none[id] = e1[id] + exact[id]
                        /\ key[id] \in J
    <2> SUFFICES ASSUME NEW id \in ids
                 PROVE  /\ LineTotal(id) \in Int /\ exact[id] \in Int
                        /\ LineTotal(id) - exact[id] \in -5..5
                        /\ LineTotal(id) + 0 = (LineTotal(id) - exact[id]) + exact[id]
                        /\ id[1] \in J
      OBVIOUS
    <2>1. LineTotal(id) \in Int /\ exact[id] \in Int /\ LineTotal(id) - exact[id] \in -5..5
      BY LineAmounts
    <2>2. id[1] \in J
      BY LinesOfFacts
    <2> HIDE DEF exact
    <2> QED
      BY <2>1, <2>2
  <1>3. ASSUME NEW i \in J
        PROVE  x[i] \in Int /\ Total[i] \in Int /\ Discount[i] \in Int /\ e2[i] \in -5..5
               /\ Total[i] + Discount[i] = x[i] + e2[i]
    <2> DEFINE own == [id \in LineIds(i) |-> LineOf(id).net + LineOf(id).tax]
    <2>1. IsFiniteSet(LineIds(i)) /\ \A id \in LineIds(i) : id \in ids
      BY LineFacts DEF LinesOf
    <2>2. {id \in ids : key[id] = i} = LineIds(i)
      <3>1. \A id \in ids : key[id] = i <=> id \in LineIds(i)
        BY LinesOfFacts
      <3> HIDE DEF ids, key
      <3> QED
        BY <2>1, <3>1
    <2>3. \A id \in LineIds(i) : exact[id] \in Int /\ exact[id] = own[id]
      BY <1>2, <2>1
    <2>4. x[i] = SumFunctionOnSet(exact, LineIds(i))
      BY <2>2
    <2>5. e2[i] = Total[i] - (x[i] - Discount[i])
      OBVIOUS
    <2> HIDE DEF ids, exact, own, x, e2
    <2>6. x[i] \in Int /\ x[i] = SumFunctionOnSet(own, LineIds(i))
      BY <2>1, <2>3, <2>4, SumType, SumSame
    <2>7. Total[i] = Stored(x[i] - Discount[i])
      BY <2>6, ReportsAssumption DEF ComputedTotal, own
    <2>8. Total[i] \in Int /\ Discount[i] \in Int
      BY InvoiceAmounts
    <2>9. x[i] - Discount[i] \in Int
      BY <2>6, <2>8
    <2>10. Total[i] - (x[i] - Discount[i]) \in -5..5
      BY <2>7, <2>9, HalfACent
    <2> QED
      BY <2>5, <2>6, <2>8, <2>10
  <1>4. SumFunctionOnSet(x, J) = SumFunctionOnSet(exact, ids)
    <2> HIDE DEF ids, exact, key
    <2> QED
      BY <1>1, <1>2, SumGroups
  <1> HIDE DEF ids, lines, exact, e1, none, key, x, e2
  <1>5. \A id \in ids : none[id] \in Int /\ e1[id] \in Int
    BY <1>2
  <1>6. SumFunctionOnSet(lines, ids) + SumFunctionOnSet(none, ids)
          = SumFunctionOnSet(e1, ids) + SumFunctionOnSet(exact, ids)
    BY <1>1, <1>2, <1>5, SumLinear
  <1>7. SumFunctionOnSet(none, ids) = 0
    BY <1>1, <1>2, SumZero
  <1>8. \A i \in J : e2[i] \in Int
    BY <1>3
  <1>9. SumFunctionOnSet(Total, J) + SumFunctionOnSet(Discount, J)
          = SumFunctionOnSet(x, J) + SumFunctionOnSet(e2, J)
    BY <1>1, <1>3, <1>8, SumLinear
  <1> DEFINE S1 == SumFunctionOnSet(lines, ids)
             S2 == SumFunctionOnSet(exact, ids)
             D == SumFunctionOnSet(Discount, J)
             T == SumFunctionOnSet(Total, J)
             E1 == SumFunctionOnSet(e1, ids)
             E2 == SumFunctionOnSet(e2, J)
             p == Cardinality(ids)
             q == Cardinality(J)
  <1>10. S1 \in Int /\ S2 \in Int
    BY <1>1, <1>2, SumType
  <1>11. D \in Int /\ T \in Int
    BY <1>1, <1>3, SumType
  <1>12. E1 \in -(5 * p)..(5 * p)
    BY <1>1, <1>2, SumBound
  <1>13. E2 \in -(5 * q)..(5 * q)
    BY <1>1, <1>3, SumBound
  <1>14. p \in Nat /\ q \in Nat
    BY <1>1, FS_CardinalityType
  <1>15. S1 = E1 + S2 /\ T + D = S2 + E2
    <2>1. S1 + 0 = E1 + S2
      BY <1>6, <1>7
    <2> HIDE DEF S1
    <2> QED
      BY <1>4, <1>9, <1>10, <2>1
  <1> HIDE DEF S1, S2, D, T, E1, E2, p, q
  <1>16. S1 - D - T = E1 - E2 /\ E1 \in Int /\ E2 \in Int
    BY <1>10, <1>11, <1>12, <1>13, <1>15
  <1>17. S1 - D - T \in -(5 * (p + q))..(5 * (p + q))
    BY <1>12, <1>13, <1>14, <1>16
  <1> QED
    BY <1>17 DEF S1, D, T, p, q, ids, lines, SumTotals, Rounding

\* What is outstanding is what was approved less what was paid for it.
LEMMA OutstandingSum ==
  ASSUME IInv
  PROVE  LET owed == {i \in Invoice : saved.status[i] \in {"approved", "partially_paid", "paid"}}
         IN  SumFunctionOnSet([r \in OutstandingView |-> r.outstanding], OutstandingView)
               = SumTotals(owed) - SumFunctionOnSet([i \in owed |-> AllocatedTo(i)], owed)
  <1> DEFINE owed == {i \in Invoice : saved.status[i] \in {"approved", "partially_paid", "paid"}}
             V == {j \in Invoice : saved.status[j] \in {"approved", "partially_paid"}
                                     /\ Total[j] > saved.paid[j]}
             R == owed \ V
             row == [i \in V |-> [invoice |-> i, party |-> Party[i],
                                  outstanding |-> Total[i] - saved.paid[i]]]
             f == [r \in OutstandingView |-> r.outstanding]
             h == [i \in Invoice |-> Total[i] - saved.paid[i]]
             alloc == [i \in owed |-> AllocatedTo(i)]
             none == [i \in owed |-> 0]
  <1>1. IsFiniteSet(owed) /\ IsFiniteSet(V) /\ IsFiniteSet(R)
    BY LinesOfFacts
  <1>2. V \cup R = owed /\ V \cap R = {}
    OBVIOUS
  <1>3. \A i \in Invoice : /\ saved.paid[i] \in Int /\ Total[i] \in Int /\ saved.paid[i] <= Total[i]
                           /\ saved.status[i] = "paid" => saved.paid[i] = Total[i]
                           /\ AllocatedTo(i) = saved.paid[i]
    <2>1. \A i \in Invoice : Agrees(i, saved.status[i], saved.paid[i])
      BY DEF IInv, VersionsInv
    <2>2. \A i \in Invoice : AllocatedTo(i) = saved.paid[i]
      BY AllocatedIsSumTo DEF IInv, VersionsInv
    <2>3. \A i \in Invoice : saved.paid[i] \in Int
      BY DEF IInv, TypeOK
    <2> QED
      BY <2>1, <2>2, <2>3, InvoiceAmounts DEF Agrees
  <1>4. OutstandingView = {row[i] : i \in V}
    BY DEF OutstandingView
  <1>5. \A i \in V : row[i].invoice = i /\ row[i].outstanding = h[i] /\ row[i] \in OutstandingView
    BY <1>4
  <1>6. \A i \in V : h[i] \in Int /\ f[row[i]] = h[i]
    <2>1. \A i \in V : h[i] \in Int
      BY <1>3
    <2>2. \A i \in V : f[row[i]] = row[i].outstanding
      <3>1. \A r \in OutstandingView : f[r] = r.outstanding
        OBVIOUS
      <3> HIDE DEF V, row, f
      <3> QED
        BY <1>5, <3>1
    <2> HIDE DEF V, row, f, h
    <2> QED
      BY <1>5, <2>1, <2>2
  <1>7. \A i, j \in V : row[i] = row[j] => i = j
    BY <1>5
  <1>8. \A i \in R : h[i] = 0
    <2> SUFFICES ASSUME NEW i \in R  PROVE Total[i] - saved.paid[i] = 0
      OBVIOUS
    <2>1. saved.status[i] = "paid" \/ ~(Total[i] > saved.paid[i])
      OBVIOUS
    <2> QED
      BY <1>3, <2>1
  <1>9. \A i \in owed : /\ h[i] \in Int /\ alloc[i] \in Int /\ Total[i] \in Int /\ none[i] = 0
                        /\ none[i] \in Int /\ h[i] + alloc[i] = Total[i] + none[i]
    BY <1>3
  <1> HIDE DEF owed, V, R, row, f, h, alloc, none
  <1>10. SumFunctionOnSet(f, {row[i] : i \in V}) = SumFunctionOnSet(h, V)
    BY <1>1, <1>6, <1>7, SumRows
  <1>11. SumFunctionOnSet(h, owed) = SumFunctionOnSet(h, V) + SumFunctionOnSet(h, R)
    <2>1. \A i \in V \cup R : h[i] \in Int
      BY <1>2, <1>9
    <2>2. SumFunctionOnSet(h, V \cup R) = SumFunctionOnSet(h, V) + SumFunctionOnSet(h, R)
      BY <1>1, <1>2, <2>1, SumUnion
    <2> QED
      BY <1>2, <2>2
  <1>12. SumFunctionOnSet(h, R) = 0 /\ SumFunctionOnSet(none, owed) = 0
    BY <1>1, <1>8, <1>9, SumZero
  <1>13. SumFunctionOnSet(h, owed) + SumFunctionOnSet(alloc, owed)
           = SumFunctionOnSet(Total, owed) + SumFunctionOnSet(none, owed)
    BY <1>1, <1>9, SumLinear
  <1> DEFINE a == SumFunctionOnSet(h, V)
             b == SumFunctionOnSet(alloc, owed)
             c == SumFunctionOnSet(Total, owed)
  <1>14. a \in Int /\ b \in Int /\ c \in Int
    BY <1>1, <1>6, <1>9, SumType
  <1>15. SumFunctionOnSet(h, owed) = a + 0 /\ SumFunctionOnSet(h, owed) + b = c + 0
    BY <1>11, <1>12, <1>13
  <1> HIDE DEF a, b, c
  <1>16. a = c - b
    BY <1>14, <1>15
  <1> QED
    BY <1>4, <1>10, <1>16 DEF a, b, c, owed, f, alloc, SumTotals

\* Register, totals by party and by product and GST summary of one period.
LEMMA PeriodAgrees ==
  ASSUME NEW days
  PROVE  LET Listed   == SumFunctionOnSet([r \in Register(days) |-> r.total], Register(days))
             counted  == Counted(days)
             parties  == ByParty(days)
             products == ByProduct(days)
             rates    == GstSummary(days)
             lineSum  == SumFunctionOnSet([g \in products |-> g.amount], products)
             gap      == lineSum - SumFunctionOnSet(Discount, counted) - Listed
             most     == Rounding * (Cardinality(LinesOf(counted)) + Cardinality(counted))
         IN  /\ SumFunctionOnSet([g \in parties |-> g.amount], parties) = Listed
             /\ SumFunctionOnSet([g \in rates |-> g.taxable + g.tax], rates) = lineSum
             /\ gap \in -most..most
  <1> DEFINE counted == Counted(days)
             ids == LinesOf(counted)
             all == [id \in ids |-> LineTotal(id)]
             product == [id \in ids |-> LineOf(id).product]
             parties == ByParty(days)
             products == ByProduct(days)
             rates == GstSummary(days)
             listed == SumFunctionOnSet([r \in Register(days) |-> r.total], Register(days))
             lineSum == SumFunctionOnSet([g \in products |-> g.amount], products)
  <1>1. counted \in SUBSET Invoice /\ IsFiniteSet(counted) /\ IsFiniteSet(ids)
    BY LinesOfFacts DEF Counted
  <1>2. listed = SumTotals(counted)
    BY RegisterSum
  <1>3. SumFunctionOnSet([g \in parties |-> g.amount], parties) = listed
    <2>1. \A i \in counted : Total[i] \in Int
      BY <1>1, InvoiceAmounts
    <2>2. parties = Grouped(counted, Party, Total)
      BY DEF ByParty
    <2> HIDE DEF counted, parties, listed
    <2> QED
      BY <1>1, <1>2, <2>1, <2>2, GroupedSum DEF SumTotals
  <1>4. lineSum = SumFunctionOnSet(all, ids)
    <2>1. \A id \in ids : all[id] \in Int
      BY <1>1, LineAmounts
    <2>2. products = Grouped(ids, product, all)
      BY DEF ByProduct
    <2> HIDE DEF ids, all, product, products
    <2> QED
      BY <1>1, <2>1, <2>2, GroupedSum
  <1>5. SumFunctionOnSet([g \in rates |-> g.taxable + g.tax], rates) = lineSum
    BY <1>4, GstSum
  <1>6. LET gap == lineSum - SumFunctionOnSet(Discount, counted) - listed
            most == Rounding * (Cardinality(ids) + Cardinality(counted))
        IN  gap \in -most..most
    <2>1. LET gap == SumFunctionOnSet(all, ids) - SumFunctionOnSet(Discount, counted) - SumTotals(counted)
              most == Rounding * (Cardinality(ids) + Cardinality(counted))
          IN  gap \in -most..most
      BY <1>1, RoundingSum
    <2> HIDE DEF lineSum, listed, counted, ids, all
    <2> QED
      BY <1>2, <1>4, <2>1
  <1> QED
    BY <1>3, <1>5, <1>6

(***************************************************************************)
(* The reports of any period, the dashboard of any day and the outstanding *)
(* views tell one story, for any invoices and lines, whatever dates they   *)
(* bear, in the middle of any approvals and payments: the parts of a       *)
(* period add up to its register, today's figures to the difference of two *)
(* registers, the months to the register until the end of this month, and  *)
(* what is outstanding is what was approved less what was allocated to it. *)
(***************************************************************************)
THEOREM ReportsTellOneStory == Spec => []ReportsAgree
  <1>1. ASSUME IInv  PROVE ReportsAgree
    <2>1. ASSUME NEW today \in Date
          PROVE  SumFunctionOnSet([r \in Register(Until(today - 1)) |-> r.total], Register(Until(today - 1)))
                     + TodayFigures(today)
                   = SumFunctionOnSet([r \in Register(Until(today)) |-> r.total], Register(Until(today)))
      BY <2>1, ReportsAssumption, RegisterSum, TodaySum
    <2>2. ASSUME NEW today \in Date, NEW first \in 0..MonthOf(today)
          PROVE  SumFunctionOnSet(MonthlyGraph(today, MonthOf(today) - first + 1), first..MonthOf(today))
                   = SumFunctionOnSet([r \in Register(Months(first, MonthOf(today))) |-> r.total],
                                      Register(Months(first, MonthOf(today))))
      BY <2>2, ReportsAssumption, RegisterSum, MonthSum
    <2>3. LET owed == {i \in Invoice : saved.status[i] \in {"approved", "partially_paid", "paid"}}
          IN  SumFunctionOnSet([r \in OutstandingView |-> r.outstanding], OutstandingView)
                = SumTotals(owed) - SumFunctionOnSet([i \in owed |-> AllocatedTo(i)], owed)
      BY <1>1, OutstandingSum
    <2> QED
      BY <2>1, <2>2, <2>3, PeriodAgrees DEF ReportsAgree
  <1> QED
    BY <1>1, PaymentInvariant, PTL
=============================================================================

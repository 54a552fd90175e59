----------------------- MODULE OrderFulfilmentProofs -----------------------
(***************************************************************************)
(* Proofs about OrderFulfilment, for any number of orders, notes, lines,   *)
(* dimensions and connections: the types, the status of an order, the      *)
(* quantities counted on its lines, and stock against orders.              *)
(*                                                                         *)
(* The invariant says what an uncommitted transaction has written so far:  *)
(* its note once it has judged the order, the order lines its note names   *)
(* up to where it is, each with the quantities of those lines on top of    *)
(* the committed one.  So a commit adds the whole note or nothing.         *)
(***************************************************************************)
EXTENDS OrderFulfilment, Sums

Writing == {"stock", "count", "progress", "order"}
Working == Writing \union {"lines"}
Changing == {"approve", "cancel"}   \* the status of an order, by a request

\* How many lines of its note a session has finished.
Past(s) == Len(NoteLines[target[s]]) - Len(todo[s])

\* What the first k lines of note n carry for order line l.
CarriedUpTo(n, l, k) ==
  SumFunctionOnSet([i \in 1..Len(NoteLines[n]) |-> NoteLines[n][i].qty],
                   {i \in 1..k : NoteLines[n][i].line = l})

RowsInv ==
  /\ latest = [r \in Row |-> latest[r]]
  /\ committed = [r \in Row |-> committed[r]]
  /\ \A r \in Row : holder[r] = NoSession => latest[r] = committed[r]
  /\ \A o \in Order : holder[o] = NoSession

\* Where a session is in its request.
Place(s) ==
  /\ pc[s] \in Changing => target[s] \in Order
  /\ pc[s] \in Working => target[s] \in Note /\ committed[target[s]] # "absent"
  /\ pc[s] \in Writing =>
       /\ Len(todo[s]) <= Len(NoteLines[target[s]])
       /\ \A i \in 1..Len(todo[s]) : todo[s][i] = NoteLines[target[s]][Past(s) + i]
  /\ pc[s] = "count" => todo[s] # <<>> /\ Cur(s).line # NoLine
  /\ pc[s] \in {"progress", "order"} => todo[s] = <<>>
  /\ pc[s] = "order" => verdict[s] \in {"completed", Partial(NoteOrder[target[s]])}

\* Which rows its transaction has written, other than order lines.
Holds(s) ==
  /\ \A r \in Row : holder[r] = s => pc[s] \in Writing
  /\ \A n \in Note : holder[n] = s <=> pc[s] \in {"progress", "order"} /\ n = target[s]
  /\ pc[s] \in {"progress", "order"} =>
       latest[target[s]] = Done(target[s]) /\ committed[target[s]] # "deleted"

\* Which order lines, and what they are now.
HasCounted(s) ==
  pc[s] \in Writing /\ committed[target[s]] # "deleted" => \A l \in Line :
    /\ holder[l] = s <=> \E i \in 1..Past(s) : NoteLines[target[s]][i].line = l
    /\ holder[l] = s => latest[l] = committed[l] + CarriedUpTo(target[s], l, Past(s))

SessionInv(s) == Place(s) /\ Holds(s) /\ HasCounted(s)

\* The verdict on an order is still true when it is written.
Verdict(s) ==
  LET o == NoteOrder[target[s]]
  IN  pc[s] = "order" =>
        /\ verdict[s] = "completed" => \A l \in LinesOf(o) : Seen(s, l) >= Ordered[l]
        /\ verdict[s] = Partial(o) =>
             /\ \E l \in LinesOf(o) : Seen(s, l) > 0
             /\ OwnLines(o) /\ o \notin met => \E l \in LinesOf(o) : Seen(s, l) < Ordered[l]

\* Two sessions that have judged the same order.
MetInv ==
  \A s, t \in Session :
    /\ s # t /\ pc[s] = "order" /\ pc[t] = "order"
    /\ NoteOrder[target[s]] = NoteOrder[target[t]]
    => NoteOrder[target[s]] \in met

IInv ==
  /\ TypeOK
  /\ RowsInv
  /\ \A s \in Session : SessionInv(s)
  /\ CompletionsAreCounted
  /\ MetInv
  /\ \A s \in Session : Verdict(s)
  /\ StatusAgreesWithLines

-----------------------------------------------------------------------------
(* Stock against orders.                                                   *)

\* The balances and order lines that are compared, and their weights.
Compared == Linked \union Line
Weight(r) == IF r \in Linked THEN 1
             ELSE IF LineOrder[r] \in PurchaseOrder THEN 0 - Unit[r] ELSE Unit[r]

\* By how much the stock of a version v of the rows exceeds the orders.
Gap(v) == SumFunctionOnSet([r \in Compared |-> Weight(r) * v[r]], Compared)

SeenBy(s) == [r \in Row |-> Seen(s, r)]

\* What a session has moved and not yet counted.
InFlight(s) ==
  IF pc[s] # "count" THEN 0 ELSE IF target[s] \in Grn THEN Base(s) ELSE 0 - Base(s)

GapInv ==
  Comparable =>
    /\ Gap(committed) = 0
    /\ \A s \in Session : pc[s] \in Writing => Gap(SeenBy(s)) = InFlight(s)

-----------------------------------------------------------------------------
(* The tables.                                                             *)

\* No row is in two tables.
LEMMA Tables ==
  /\ Order \subseteq Row /\ Note \subseteq Row /\ Line \subseteq Row /\ Dim \subseteq Row
  /\ \A r \in Order : r \notin Note /\ r \notin Line /\ r \notin Dim
  /\ \A r \in Note : r \notin Order /\ r \notin Line /\ r \notin Dim
  /\ \A r \in Line : r \notin Order /\ r \notin Note /\ r \notin Dim
  /\ \A r \in Dim : r \notin Order /\ r \notin Note /\ r \notin Line
  <1>1. Note \intersect Order = {} /\ Note \intersect Line = {} /\ Note \intersect Dim = {}
    BY FulfilmentAssumption DEF FulfilmentAssumption
  <1>2. Order \intersect Line = {} /\ Order \intersect Dim = {} /\ Line \intersect Dim = {}
    BY FulfilmentAssumption DEF FulfilmentAssumption
  <1> QED  BY <1>1, <1>2 DEF Row

\* What a version of all rows has to be.
LEMMA RowsTyped ==
  ASSUME NEW v
  PROVE  (\A r \in Row : RowOK(r, v[r])) <=>
           /\ \A r \in Order : v[r] \in OrderStatus
           /\ \A r \in Note : v[r] \in NoteStatus
           /\ \A r \in Line \union Dim : v[r] \in Nat
  BY Tables DEF RowOK, Row

\* A line of a note names a line of an order of its kind, or none.
LEMMA LinesOfNotes ==
  ASSUME NEW n \in Note
  PROVE  /\ Len(NoteLines[n]) \in Nat /\ NoteLines[n] \in Seq(NoteLine)
         /\ \A i \in 1..Len(NoteLines[n]) :
              /\ NoteLines[n][i] \in NoteLine
              /\ NoteLines[n][i].line \in Line \union {NoLine}
              /\ NoteLines[n][i].dim \in Dim
              /\ NoteLines[n][i].qty \in Nat /\ NoteLines[n][i].qty > 0
              /\ NoteLines[n][i].factor \in Nat /\ NoteLines[n][i].factor > 0
              /\ NoteLines[n][i].qty * NoteLines[n][i].factor \in Nat
  <1>1. NoteLines[n] \in Seq(NoteLine)
    BY FulfilmentAssumption DEF FulfilmentAssumption
  <1>2. Len(NoteLines[n]) \in Nat
    BY <1>1
  <1>3. \A i \in 1..Len(NoteLines[n]) : NoteLines[n][i] \in NoteLine
    BY <1>1
  <1>4. \A e \in NoteLine : /\ e.line \in Line \union {NoLine} /\ e.dim \in Dim
                            /\ e.qty \in Nat /\ e.qty > 0 /\ e.factor \in Nat /\ e.factor > 0
                            /\ e.qty * e.factor \in Nat
    BY DEF NoteLine
  <1> QED  BY <1>1, <1>2, <1>3, <1>4

\* What a note carries for an order line, one line after the other.
LEMMA CarriedLineByLine ==
  ASSUME NEW n \in Note, NEW l \in Line, NEW k \in 0..Len(NoteLines[n])
  PROVE  /\ CarriedUpTo(n, l, k) \in Nat
         /\ (\A i \in 1..k : NoteLines[n][i].line # l) => CarriedUpTo(n, l, k) = 0
         /\ k < Len(NoteLines[n]) /\ NoteLines[n][k + 1].line = l =>
              CarriedUpTo(n, l, k + 1) = CarriedUpTo(n, l, k) + NoteLines[n][k + 1].qty
         /\ k < Len(NoteLines[n]) /\ NoteLines[n][k + 1].line # l =>
              CarriedUpTo(n, l, k + 1) = CarriedUpTo(n, l, k)
  <1> DEFINE len == Len(NoteLines[n])
             f == [i \in 1..len |-> NoteLines[n][i].qty]
             S(j) == {i \in 1..j : NoteLines[n][i].line = l}
  <1>1. len \in Nat
    BY LinesOfNotes
  <1>2. \A i \in 1..len : f[i] \in Nat
    BY LinesOfNotes
  <1>3. \A j \in 0..len : IsFiniteSet(S(j)) /\ S(j) \subseteq 1..len
    <2> TAKE j \in 0..len
    <2>1. j \in Int /\ 1..j \subseteq 1..len
      BY <1>1
    <2>2. S(j) \in SUBSET (1..j)
      OBVIOUS
    <2>3. IsFiniteSet(1..j)
      BY <2>1, FS_Interval
    <2> HIDE DEF S
    <2> QED  BY <2>1, <2>2, <2>3, FS_Subset
  <1>4. \A j \in 0..len : CarriedUpTo(n, l, j) = SumFunctionOnSet(f, S(j))
    BY DEF CarriedUpTo
  <1>5. CarriedUpTo(n, l, k) \in Nat
    BY <1>2, <1>3, <1>4, SumNat
  <1>6. ASSUME \A i \in 1..k : NoteLines[n][i].line # l  PROVE CarriedUpTo(n, l, k) = 0
    <2>1. S(k) = {}
      BY <1>6
    <2> HIDE DEF f, S
    <2> QED  BY <2>1, <1>3, <1>4, SumType
  <1>7. ASSUME k < len, NoteLines[n][k + 1].line = l
        PROVE  CarriedUpTo(n, l, k + 1) = CarriedUpTo(n, l, k) + NoteLines[n][k + 1].qty
    <2>1. k + 1 \in 1..len /\ k + 1 \in 0..len /\ k \in 0..len
      BY <1>1, <1>7
    <2>2. S(k + 1) = S(k) \union {k + 1} /\ k + 1 \notin S(k)
      BY <1>7, <2>1, <1>1
    <2>3. f[k + 1] = NoteLines[n][k + 1].qty
      BY <2>1
    <2>4. \A i \in S(k) \union {k + 1} : f[i] \in Int
      <3>1. S(k) \union {k + 1} \subseteq 1..len
        BY <1>3, <2>1
      <3> HIDE DEF f, S
      <3> QED  BY <3>1, <1>2
    <2>5. IsFiniteSet(S(k))
      BY <1>3, <2>1
    <2> HIDE DEF f, S
    <2>6. SumFunctionOnSet(f, S(k) \union {k + 1}) = SumFunctionOnSet(f, S(k)) + f[k + 1]
      <3> DEFINE A == S(k)
                 y == k + 1
      <3>1. IsFiniteSet(A) /\ y \notin A /\ \A i \in A \union {y} : f[i] \in Int
        BY <2>2, <2>4, <2>5
      <3> HIDE DEF A, y
      <3>2. SumFunctionOnSet(f, A \union {y}) = SumFunctionOnSet(f, A) + f[y]
        BY <3>1, SumAdd
      <3> QED  BY <3>2 DEF A, y
    <2> QED  BY <2>1, <2>2, <2>3, <2>6, <1>4
  <1>8. ASSUME k < len, NoteLines[n][k + 1].line # l
        PROVE  CarriedUpTo(n, l, k + 1) = CarriedUpTo(n, l, k)
    <2>1. S(k + 1) = S(k) /\ k + 1 \in 0..len
      BY <1>8, <1>1
    <2> QED  BY <2>1, <1>4
  <1> QED  BY <1>5, <1>6, <1>7, <1>8

-----------------------------------------------------------------------------
(* The kinds of steps.                                                     *)

\* A row is created or deleted by a statement of its own.
Sets(r) == CreateOrder(r) \/ DeleteOrder(r) \/ CreateNote(r) \/ DeleteNote(r)

\* A line of a note moves stock, by the signed amount Delta.
Delta(s) == IF target[s] \in Grn THEN Base(s) ELSE 0 - Base(s)
Posts(s) ==
  /\ AtLine(s)
  /\ latest[Cur(s).dim] + Delta(s) \in Nat
  /\ Write(s, Cur(s).dim, latest[Cur(s).dim] + Delta(s))
  /\ ToOrderLine(s)

\* A session decides on the status of the order of its note.
Judges(s) ==
  LET o == NoteOrder[target[s]]
  IN  /\ pc[s] = "progress" /\ Progress(s, o) # "none"
      /\ verdict' = [verdict EXCEPT ![s] = Progress(s, o)]
      /\ met' = met \union {q \in {o} : \E t \in Session :
                                  pc[t] = "order" /\ NoteOrder[target[t]] = o}
      /\ pc' = [pc EXCEPT ![s] = "order"]
      /\ UNCHANGED <<rowVars, target, todo>>

\* A note is committed, after judging the order or without.
CommitsUnjudged(s) ==
  pc[s] = "progress" /\ Progress(s, NoteOrder[target[s]]) = "none" /\ Commit(s)

\* Every step is of one of these kinds.
LEMMA Kinds ==
  ASSUME TypeOK, \A s \in Session : Place(s), [Next]_vars
  PROVE  \/ UNCHANGED vars
         \/ \E r \in Order : CreateOrder(r) \/ DeleteOrder(r)
         \/ \E r \in Note : CreateNote(r) \/ DeleteNote(r)
         \/ \E s \in Session :
              \/ \E o \in Order : BeginApprove(s, o) \/ BeginCancel(s, o)
              \/ \E n \in Note : BeginNote(s, n)
              \/ ApproveOrder(s) \/ CancelOrder(s)
              \/ ReadLines(s) \/ Posts(s) \/ CountLine(s) \/ CompleteNote(s)
              \/ Judges(s) \/ CommitsUnjudged(s) \/ UpdateOrder(s)
              \/ Rollback(s)
  <1> SUFFICES ASSUME NEW s \in Session, Step(s) \/ Fail(s)
               PROVE  \/ ApproveOrder(s) \/ CancelOrder(s)
                      \/ ReadLines(s) \/ Posts(s) \/ CountLine(s) \/ CompleteNote(s)
                      \/ Judges(s) \/ CommitsUnjudged(s) \/ UpdateOrder(s)
                      \/ Rollback(s)
    BY DEF Next
  <1>1. ASSUME AtLine(s)
        PROVE  /\ latest[Cur(s).dim] \in Nat /\ Base(s) \in Nat
               /\ target[s] \in Grn \/ target[s] \in Challan
               /\ target[s] \in Challan => target[s] \notin Grn
    <2>1. target[s] \in Note
      BY <1>1 DEF AtLine, Place, Working, Writing
    <2>2. Cur(s) \in NoteLine
      <3>1. todo[s] \in Seq(NoteLine) /\ todo[s] # <<>>
        BY <1>1 DEF AtLine, TypeOK
      <3> QED  BY <3>1 DEF Cur
    <2>3. Cur(s).dim \in Dim /\ Cur(s).qty \in Nat /\ Cur(s).factor \in Nat
      BY <2>2 DEF NoteLine
    <2>4. Base(s) \in Nat
      BY <2>3 DEF Base
    <2>5. latest[Cur(s).dim] \in Nat
      BY <2>3, RowsTyped DEF TypeOK
    <2>6. Grn \intersect Challan = {}
      BY FulfilmentAssumption DEF FulfilmentAssumption
    <2> QED  BY <2>1, <2>4, <2>5, <2>6 DEF Note
  <1>2. ASSUME ReceiveGoods(s)  PROVE Posts(s)
    <2>1. AtLine(s) /\ target[s] \in Grn /\ ToOrderLine(s)
          /\ Write(s, Cur(s).dim, latest[Cur(s).dim] + Base(s))
      BY <1>2 DEF ReceiveGoods
    <2>2. Delta(s) = Base(s)
      BY <2>1 DEF Delta
    <2>3. latest[Cur(s).dim] + Base(s) \in Nat
      BY <1>1, <2>1
    <2> QED  BY <2>1, <2>2, <2>3 DEF Posts
  <1>3. ASSUME IssueGoods(s)  PROVE Posts(s)
    <2>1. AtLine(s) /\ target[s] \in Challan /\ ToOrderLine(s)
          /\ latest[Cur(s).dim] >= Base(s)
          /\ Write(s, Cur(s).dim, latest[Cur(s).dim] - Base(s))
      BY <1>3 DEF IssueGoods
    <2> DEFINE a == latest[Cur(s).dim]
               b == Base(s)
    <2>2. Delta(s) = 0 - b /\ a \in Nat /\ b \in Nat /\ a >= b
      BY <1>1, <2>1 DEF Delta
    <2>3. Write(s, Cur(s).dim, a - b)
      BY <2>1
    <2> HIDE DEF a, b
    <2>4. a - b = a + Delta(s) /\ a + Delta(s) \in Nat
      BY <2>2
    <2>5. Write(s, Cur(s).dim, a + Delta(s))
      BY <2>3, <2>4
    <2> QED  BY <2>1, <2>4, <2>5 DEF Posts, a
  <1>4. ASSUME ReadProgress(s)  PROVE Judges(s) \/ CommitsUnjudged(s)
    BY <1>4 DEF ReadProgress, Judges, CommitsUnjudged
  <1> QED  BY <1>2, <1>3, <1>4 DEF Step, Fail, OrderGone, NoteGone, RefuseIssue, DeadlockVictim

-----------------------------------------------------------------------------
(* The rows: types, and who holds what.                                    *)

RowsOK ==
  /\ \A r \in Row : RowOK(r, latest[r]) /\ RowOK(r, committed[r])
  /\ holder \in [Row -> Session \union {NoSession}]
  /\ RowsInv

\* A statement of its own, on a row nobody has written.
LEMMA SetStatusRows ==
  ASSUME RowsOK, NEW r \in Row, NEW v, RowOK(r, v), SetStatus(r, v)
  PROVE  RowsOK'
  <1>1. /\ latest' = [latest EXCEPT ![r] = v] /\ committed' = [committed EXCEPT ![r] = v]
        /\ holder' = holder
    BY DEF SetStatus
  <1>2. DOMAIN latest = Row /\ DOMAIN committed = Row
    BY DEF RowsOK, RowsInv
  <1>3. \A q \in Row : /\ latest'[q] = IF q = r THEN v ELSE latest[q]
                       /\ committed'[q] = IF q = r THEN v ELSE committed[q]
    BY <1>1, <1>2
  <1>4. \A q \in Row : RowOK(q, latest'[q]) /\ RowOK(q, committed'[q])
    BY <1>3 DEF RowsOK
  <1>5. /\ latest' = [q \in Row |-> latest'[q]]
        /\ committed' = [q \in Row |-> committed'[q]]
    BY <1>1, <1>2
  <1>6. \A q \in Row : holder'[q] = NoSession => latest'[q] = committed'[q]
    BY <1>1, <1>3 DEF RowsOK, RowsInv
  <1>7. \A o \in Order : holder'[o] = NoSession
    BY <1>1 DEF RowsOK, RowsInv
  <1> QED  BY <1>1, <1>4, <1>5, <1>6, <1>7 DEF RowsOK, RowsInv, RowOK

\* A statement inside a transaction; never on an order.
LEMMA WriteRows ==
  ASSUME RowsOK, NEW s \in Session, NEW r \in Row \ Order, NEW v, RowOK(r, v),
         Write(s, r, v)
  PROVE  /\ RowsOK'
         /\ \A q \in Row : /\ latest'[q] = IF q = r THEN v ELSE latest[q]
                           /\ holder'[q] = IF q = r THEN s ELSE holder[q]
         /\ committed' = committed
         /\ holder[r] = NoSession \/ holder[r] = s
  <1>1. /\ latest' = [latest EXCEPT ![r] = v] /\ holder' = [holder EXCEPT ![r] = s]
        /\ committed' = committed /\ (holder[r] = NoSession \/ holder[r] = s)
    BY DEF Write, Free
  <1>2. DOMAIN latest = Row /\ DOMAIN committed = Row
    BY DEF RowsOK, RowsInv
  <1>3. \A q \in Row : /\ latest'[q] = IF q = r THEN v ELSE latest[q]
                       /\ holder'[q] = IF q = r THEN s ELSE holder[q]
    BY <1>1, <1>2 DEF RowsOK
  <1>4. \A q \in Row : RowOK(q, latest'[q]) /\ RowOK(q, committed'[q])
    BY <1>1, <1>3 DEF RowsOK
  <1>5. /\ latest' = [q \in Row |-> latest'[q]]
        /\ committed' = [q \in Row |-> committed'[q]]
    BY <1>1, <1>2 DEF RowsOK, RowsInv
  <1>8. holder' \in [Row -> Session \union {NoSession}]
    <2>1. holder \in [Row -> Session \union {NoSession}] /\ s \in Session \union {NoSession}
      BY DEF RowsOK
    <2> QED  BY <2>1, <1>1
  <1>6. \A q \in Row : holder'[q] = NoSession => latest'[q] = committed'[q]
    BY <1>1, <1>3, FulfilmentAssumption DEF RowsOK, RowsInv, FulfilmentAssumption
  <1>7. \A o \in Order : holder'[o] = NoSession
    BY <1>3 DEF RowsOK, RowsInv, Row
  <1> QED  BY <1>1, <1>3, <1>4, <1>5, <1>6, <1>7, <1>8 DEF RowsOK, RowsInv, RowOK

\* The end of a request: its rows are everybody's again.
LEMMA IdleRows ==
  ASSUME RowsOK, NEW s \in Session, Idle(s)
  PROVE  /\ holder' \in [Row -> Session \union {NoSession}]
         /\ \A q \in Row : holder'[q] = IF holder[q] = s THEN NoSession ELSE holder[q]
         /\ \A q \in Row : holder'[q] # s
         /\ \A o \in Order : holder'[o] = NoSession
         /\ \A q \in Row, t \in Session : t # s => (holder'[q] = t <=> holder[q] = t)
  <1>1. holder' = [r \in Row |-> IF holder[r] = s THEN NoSession ELSE holder[r]]
    BY DEF Idle
  <1>2. \A q \in Row : holder[q] \in Session \union {NoSession}
    BY DEF RowsOK
  <1>3. NoSession \notin Session
    BY FulfilmentAssumption DEF FulfilmentAssumption
  <1>4. \A o \in Order : holder[o] = NoSession /\ o \in Row
    BY DEF RowsOK, RowsInv, Row
  <1> QED  BY <1>1, <1>2, <1>3, <1>4

LEMMA RollbackRows ==
  ASSUME RowsOK, NEW s \in Session, Rollback(s)
  PROVE  RowsOK'
  <1>1. /\ latest' = [r \in Row |-> IF holder[r] = s THEN committed[r] ELSE latest[r]]
        /\ committed' = committed /\ Idle(s)
    BY DEF Rollback
  <1>2. \A q \in Row : RowOK(q, latest'[q]) /\ RowOK(q, committed'[q])
    BY <1>1 DEF RowsOK
  <1>3. /\ latest' = [q \in Row |-> latest'[q]]
        /\ committed' = [q \in Row |-> committed'[q]]
    BY <1>1 DEF RowsOK, RowsInv
  <1>4. \A q \in Row : holder'[q] = NoSession => latest'[q] = committed'[q]
    BY <1>1, IdleRows DEF RowsOK, RowsInv
  <1> QED  BY <1>1, <1>2, <1>3, <1>4, IdleRows DEF RowsOK, RowsInv, RowOK

LEMMA CommitRows ==
  ASSUME RowsOK, NEW s \in Session, Commit(s)
  PROVE  /\ RowsOK'
         /\ \A q \in Row : committed'[q] = Seen(s, q)
  <1>1. latest' = latest /\ committed' = [r \in Row |-> Seen(s, r)] /\ Idle(s)
    BY DEF Commit
  <1>2. \A q \in Row : committed'[q] = IF holder[q] = s THEN latest[q] ELSE committed[q]
    BY <1>1 DEF Seen
  <1>3. \A q \in Row : RowOK(q, latest'[q]) /\ RowOK(q, committed'[q])
    BY <1>1, <1>2 DEF RowsOK
  <1>4. /\ latest' = [q \in Row |-> latest'[q]]
        /\ committed' = [q \in Row |-> committed'[q]]
    BY <1>1 DEF RowsOK, RowsInv
  <1>5. \A q \in Row : holder'[q] = NoSession => latest'[q] = committed'[q]
    BY <1>1, <1>2, IdleRows DEF RowsOK, RowsInv
  <1> QED  BY <1>1, <1>3, <1>4, <1>5, IdleRows DEF RowsOK, RowsInv, RowOK

LEMMA WriteAndCommitRows ==
  ASSUME RowsOK, NEW s \in Session, NEW o \in Order, NEW v \in OrderStatus,
         WriteAndCommit(s, o, v)
  PROVE  /\ RowsOK'
         /\ \A q \in Row : /\ latest'[q] = IF q = o THEN v ELSE latest[q]
                           /\ committed'[q] = IF q = o THEN v ELSE Seen(s, q)
  <1>1. /\ latest' = [latest EXCEPT ![o] = v] /\ Idle(s)
        /\ committed' = [q \in Row |-> IF q = o THEN v ELSE Seen(s, q)]
    BY DEF WriteAndCommit
  <1>2. DOMAIN latest = Row /\ DOMAIN committed = Row
    BY DEF RowsOK, RowsInv
  <1>3. \A q \in Row : /\ latest'[q] = IF q = o THEN v ELSE latest[q]
                       /\ committed'[q] = IF q = o THEN v ELSE Seen(s, q)
    BY <1>1, <1>2
  <1>4. \A q \in Row : RowOK(q, latest'[q]) /\ RowOK(q, committed'[q])
    <2>1. RowOK(o, v)
      BY Tables DEF RowOK
    <2> QED  BY <1>3, <2>1 DEF RowsOK, Seen
  <1>5. /\ latest' = [q \in Row |-> latest'[q]]
        /\ committed' = [q \in Row |-> committed'[q]]
    BY <1>1, <1>2
  <1>6. ASSUME NEW q \in Row, holder'[q] = NoSession  PROVE latest'[q] = committed'[q]
    <2>1. holder[q] = s \/ holder[q] = NoSession
      BY <1>1, <1>6, IdleRows
    <2>2. holder[q] = NoSession => latest[q] = committed[q]
      BY DEF RowsOK, RowsInv
    <2> QED  BY <1>3, <2>1, <2>2 DEF Seen
  <1> QED  BY <1>1, <1>3, <1>4, <1>5, <1>6, IdleRows DEF RowsOK, RowsInv, RowOK

\* What is written of a line that moves stock, counts or completes a note.
LEMMA PostsRows ==
  ASSUME RowsOK, NEW s \in Session, todo \in [Session -> Seq(NoteLine)], Posts(s)
  PROVE  /\ RowsOK'
         /\ Cur(s) \in NoteLine /\ Cur(s).dim \in Dim
         /\ \A q \in Row : /\ latest'[q] = IF q = Cur(s).dim THEN latest[q] + Delta(s) ELSE latest[q]
                           /\ holder'[q] = IF q = Cur(s).dim THEN s ELSE holder[q]
         /\ committed' = committed
         /\ holder[Cur(s).dim] = NoSession \/ holder[Cur(s).dim] = s
  <1>1. /\ AtLine(s) /\ latest[Cur(s).dim] + Delta(s) \in Nat
        /\ Write(s, Cur(s).dim, latest[Cur(s).dim] + Delta(s))
    BY DEF Posts
  <1>2. Cur(s) \in NoteLine
    <2>1. todo[s] \in Seq(NoteLine) /\ todo[s] # <<>>
      BY <1>1 DEF AtLine
    <2> QED  BY <2>1 DEF Cur
  <1>3. Cur(s).dim \in Dim
    BY <1>2 DEF NoteLine
  <1>4. Cur(s).dim \in Row \ Order /\ RowOK(Cur(s).dim, latest[Cur(s).dim] + Delta(s))
    BY <1>1, <1>3, Tables DEF RowOK
  <1> QED  BY <1>1, <1>2, <1>3, <1>4, WriteRows

LEMMA CountLineRows ==
  ASSUME RowsOK, NEW s \in Session, todo \in [Session -> Seq(NoteLine)], Place(s),
         CountLine(s)
  PROVE  /\ RowsOK'
         /\ Cur(s) \in NoteLine /\ Cur(s).line \in Line
         /\ \A q \in Row : /\ latest'[q] = IF q = Cur(s).line THEN latest[q] + Cur(s).qty ELSE latest[q]
                           /\ holder'[q] = IF q = Cur(s).line THEN s ELSE holder[q]
         /\ committed' = committed
         /\ holder[Cur(s).line] = NoSession \/ holder[Cur(s).line] = s
  <1>1. pc[s] = "count" /\ Write(s, Cur(s).line, latest[Cur(s).line] + Cur(s).qty)
    BY DEF CountLine
  <1>2. Cur(s) \in NoteLine /\ Cur(s).line # NoLine
    <2>1. todo[s] \in Seq(NoteLine) /\ todo[s] # <<>> /\ Cur(s).line # NoLine
      BY <1>1 DEF Place
    <2> QED  BY <2>1 DEF Cur
  <1>3. Cur(s).line \in Line /\ Cur(s).qty \in Nat
    BY <1>2 DEF NoteLine
  <1>4. latest[Cur(s).line] \in Nat
    BY <1>3, RowsTyped DEF RowsOK
  <1>5. Cur(s).line \in Row \ Order /\ RowOK(Cur(s).line, latest[Cur(s).line] + Cur(s).qty)
    BY <1>3, <1>4, Tables DEF RowOK
  <1> QED  BY <1>1, <1>2, <1>3, <1>5, WriteRows

LEMMA CompleteNoteRows ==
  ASSUME RowsOK, NEW s \in Session, Place(s), CompleteNote(s)
  PROVE  /\ RowsOK'
         /\ target[s] \in Note
         /\ \A q \in Row : /\ latest'[q] = IF q = target[s] THEN Done(q) ELSE latest[q]
                           /\ holder'[q] = IF q = target[s] THEN s ELSE holder[q]
         /\ committed' = committed
         /\ holder[target[s]] = NoSession \/ holder[target[s]] = s
  <1>1. pc[s] = "stock" /\ Write(s, target[s], Done(target[s]))
    BY DEF CompleteNote, AtHeader
  <1>2. target[s] \in Note
    BY <1>1 DEF Place, Working, Writing
  <1>3. target[s] \in Row \ Order /\ RowOK(target[s], Done(target[s]))
    BY <1>2, Tables DEF RowOK, NoteStatus, Done
  <1> QED  BY <1>1, <1>2, <1>3, WriteRows

\* The rows keep their types, and only transactions hold any.
LEMMA RowsStep ==
  ASSUME TypeOK, RowsInv, \A s \in Session : SessionInv(s), [Next]_vars
  PROVE  RowsOK'
  <1>1. RowsOK /\ todo \in [Session -> Seq(NoteLine)] /\ verdict \in [Session -> OrderStatus \union {"none"}]
    BY DEF TypeOK, RowsOK
  <1>2. \A s \in Session : Place(s) /\ Holds(s)
    BY DEF SessionInv
  <1>3. \A o \in Order : o \in Row /\ holder[o] = NoSession /\ committed[o] \in OrderStatus
                        /\ latest[o] \in OrderStatus
                        /\ \A v \in OrderStatus : RowOK(o, v)
    BY <1>1, RowsTyped, Tables DEF RowsOK, RowsInv, RowOK
  <1>4. CASE UNCHANGED vars
    BY <1>1, <1>4 DEF vars, rowVars, RowsOK, RowsInv, RowOK
  <1>5. ASSUME NEW o \in Order, CreateOrder(o) \/ DeleteOrder(o)  PROVE RowsOK'
    <2>1. PICK v \in OrderStatus : SetStatus(o, v)
      BY <1>5 DEF CreateOrder, DeleteOrder, OrderStatus
    <2> QED  BY <2>1, <1>1, <1>3, SetStatusRows
  <1>6. ASSUME NEW n \in Note, CreateNote(n) \/ DeleteNote(n)  PROVE RowsOK'
    <2>1. PICK v \in NoteStatus : SetStatus(n, v)
      BY <1>6 DEF CreateNote, DeleteNote, NoteStatus
    <2>2. n \in Row /\ RowOK(n, v)
      BY Tables DEF RowOK
    <2> QED  BY <2>1, <2>2, <1>1, SetStatusRows
  <1>7. ASSUME NEW s \in Session, Rollback(s)  PROVE RowsOK'
    BY <1>1, <1>7, RollbackRows
  <1>8. ASSUME NEW s \in Session, ApproveOrder(s) \/ CancelOrder(s)  PROVE RowsOK'
    <2>1. target[s] \in Order
      BY <1>2, <1>8 DEF Place, Changing, ApproveOrder, CancelOrder
    <2>2. PICK v \in OrderStatus : WriteAndCommit(s, target[s], v)
      BY <1>8 DEF ApproveOrder, CancelOrder, OrderStatus
    <2> QED  BY <2>1, <2>2, <1>1, WriteAndCommitRows
  <1>9. ASSUME NEW s \in Session, UpdateOrder(s)  PROVE RowsOK'
    <2> DEFINE o == NoteOrder[target[s]]
               v == IF latest[o] \in {"approved", Partial(o)} THEN verdict[s] ELSE latest[o]
    <2>1. pc[s] = "order" /\ WriteAndCommit(s, o, v)
      BY <1>9 DEF UpdateOrder
    <2>2. o \in Order
      <3>1. target[s] \in Note
        BY <1>2, <2>1 DEF Place, Working, Writing
      <3> QED  BY <3>1, FulfilmentAssumption DEF FulfilmentAssumption
    <2>3. v \in OrderStatus
      <3>1. verdict[s] \in OrderStatus
        BY <1>2, <2>1 DEF Place, OrderStatus, Partial
      <3> QED  BY <3>1, <2>2, <1>3
    <2> HIDE DEF o, v
    <2> QED  BY <2>1, <2>2, <2>3, <1>1, WriteAndCommitRows
  <1>10. ASSUME NEW s \in Session, CommitsUnjudged(s)  PROVE RowsOK'
    BY <1>1, <1>10, CommitRows DEF CommitsUnjudged
  <1>11. ASSUME NEW s \in Session, Posts(s) \/ CountLine(s) \/ CompleteNote(s)  PROVE RowsOK'
    BY <1>1, <1>2, <1>11, PostsRows, CountLineRows, CompleteNoteRows
  <1>12. ASSUME NEW s \in Session,
               \/ \E o \in Order : BeginApprove(s, o) \/ BeginCancel(s, o)
               \/ \E n \in Note : BeginNote(s, n)
               \/ ReadLines(s) \/ Judges(s)
         PROVE RowsOK'
    <2>1. UNCHANGED rowVars
      BY <1>12 DEF BeginApprove, BeginCancel, BeginNote, ReadLines, Judges
    <2> QED  BY <2>1, <1>1 DEF rowVars, RowsOK, RowsInv, RowOK
  <1> QED
    BY <1>2, <1>4, <1>5, <1>6, <1>7, <1>8, <1>9, <1>10, <1>11, <1>12, Kinds

-----------------------------------------------------------------------------
(* The sessions.                                                           *)

\* A step that is not of session t leaves what t holds.
Untouched(t) ==
  /\ pc'[t] = pc[t] /\ target'[t] = target[t] /\ todo'[t] = todo[t] /\ verdict'[t] = verdict[t]
  /\ \A r \in Row :
       /\ holder'[r] = t <=> holder[r] = t
       /\ holder[r] = t => latest'[r] = latest[r] /\ committed'[r] = committed[r]
  /\ \A n \in Note :
       /\ committed[n] # "absent" => committed'[n] # "absent"
       /\ committed[n] = "deleted" => committed'[n] = "deleted"

LEMMA OtherSession ==
  ASSUME NEW t \in Session, SessionInv(t), Untouched(t)
  PROVE  SessionInv(t)'
  <1>1. Place(t) /\ Holds(t) /\ HasCounted(t)
    BY DEF SessionInv
  <1>2. pc'[t] = pc[t] /\ target'[t] = target[t] /\ todo'[t] = todo[t] /\ verdict'[t] = verdict[t]
    BY DEF Untouched
  <1>3. Past(t)' = Past(t) /\ Cur(t)' = Cur(t)
    BY <1>2 DEF Past, Cur
  <1>4. Place(t)'
    <2>1. pc[t] \in Working => target[t] \in Note /\ committed'[target[t]] # "absent"
      BY <1>1 DEF Place, Untouched
    <2> QED  BY <1>1, <1>2, <1>3, <2>1 DEF Place
  <1>5. Holds(t)'
    <2>1. \A r \in Row : holder'[r] = t => pc[t] \in Writing
      BY <1>1 DEF Holds, Untouched
    <2>2. \A n \in Note : holder'[n] = t <=> pc[t] \in {"progress", "order"} /\ n = target[t]
      BY <1>1, Tables DEF Holds, Untouched
    <2>3. ASSUME pc[t] \in {"progress", "order"}
          PROVE  latest'[target[t]] = Done(target[t]) /\ committed'[target[t]] # "deleted"
      <3>1. target[t] \in Note /\ holder[target[t]] = t
        BY <1>1, <2>3 DEF Place, Holds, Working, Writing
      <3> QED  BY <3>1, <1>1, <2>3, Tables DEF Holds, Untouched
    <2> QED  BY <1>2, <2>1, <2>2, <2>3 DEF Holds
  <1>6. HasCounted(t)'
    <2> SUFFICES ASSUME pc[t] \in Writing, committed'[target[t]] # "deleted", NEW l \in Line
                 PROVE  /\ holder'[l] = t <=> \E i \in 1..Past(t) : NoteLines[target[t]][i].line = l
                        /\ holder'[l] = t =>
                             latest'[l] = committed'[l] + CarriedUpTo(target[t], l, Past(t))
      BY <1>2, <1>3 DEF HasCounted
    <2>1. target[t] \in Note
      BY <1>1 DEF Place, Working
    <2>2. committed[target[t]] # "deleted"
      BY <2>1 DEF Untouched
    <2>3. /\ holder[l] = t <=> \E i \in 1..Past(t) : NoteLines[target[t]][i].line = l
          /\ holder[l] = t => latest[l] = committed[l] + CarriedUpTo(target[t], l, Past(t))
      BY <1>1, <2>2 DEF HasCounted
    <2>4. /\ holder'[l] = t <=> holder[l] = t
          /\ holder[l] = t => latest'[l] = latest[l] /\ committed'[l] = committed[l]
      BY Tables DEF Untouched
    <2> QED  BY <2>3, <2>4
  <1> QED  BY <1>4, <1>5, <1>6 DEF SessionInv

\* A request that ends leaves nothing of its session behind.
LEMMA IdleSession ==
  ASSUME TypeOK, RowsInv, NEW s \in Session, Idle(s)
  PROVE  /\ SessionInv(s)'
         /\ \A t \in Session : t # s =>
              /\ pc'[t] = pc[t] /\ target'[t] = target[t]
              /\ todo'[t] = todo[t] /\ verdict'[t] = verdict[t]
         /\ pc' \in [Session -> {"idle", "approve", "cancel", "lines", "stock",
                                 "count", "progress", "order"}]
         /\ target' \in [Session -> Order \union Note \union {NoTarget}]
         /\ todo' \in [Session -> Seq(NoteLine)]
         /\ verdict' \in [Session -> OrderStatus \union {"none"}]
         /\ met' = met /\ pc'[s] = "idle"
  <1>1. pc'[s] = "idle"
    BY DEF Idle, TypeOK
  <1>2. \A r \in Row : holder'[r] # s
    BY IdleRows DEF TypeOK, RowsOK
  <1>3. Place(s)'
    BY <1>1 DEF Place, Changing, Working, Writing
  <1>4. Holds(s)'
    BY <1>1, <1>2, Tables DEF Holds
  <1>5. HasCounted(s)'
    BY <1>1 DEF HasCounted, Writing
  <1>6. <<>> \in Seq(NoteLine)
    OBVIOUS
  <1> QED  BY <1>1, <1>3, <1>4, <1>5, <1>6 DEF Idle, TypeOK, SessionInv

\* Nor does it touch another session, whether it keeps what it wrote or not.
LEMMA IdleOthers ==
  ASSUME TypeOK, RowsInv, NEW s \in Session, Holds(s), Idle(s), NEW t \in Session, t # s,
         \A r \in Row : holder[r] # s => latest'[r] = latest[r] \/ r \in Order,
         \A r \in Row \ Order : committed'[r] = committed[r] \/ committed'[r] = Seen(s, r)
  PROVE  Untouched(t)
  <1>1. /\ pc'[t] = pc[t] /\ target'[t] = target[t]
        /\ todo'[t] = todo[t] /\ verdict'[t] = verdict[t]
    BY IdleSession
  <1>2. \A r \in Row : holder'[r] = t <=> holder[r] = t
    BY IdleRows DEF TypeOK, RowsOK
  <1>3. ASSUME NEW r \in Row, holder[r] = t
        PROVE  latest'[r] = latest[r] /\ committed'[r] = committed[r]
    <2>1. holder[r] # s /\ r \notin Order
      BY <1>3, FulfilmentAssumption DEF RowsInv, FulfilmentAssumption
    <2>2. Seen(s, r) = committed[r]
      BY <2>1 DEF Seen
    <2> QED  BY <2>1, <2>2
  <1>4. ASSUME NEW n \in Note
        PROVE  /\ committed[n] # "absent" => committed'[n] # "absent"
               /\ committed[n] = "deleted" => committed'[n] = "deleted"
    <2>1. n \in Row \ Order
      BY Tables
    <2>2. CASE holder[n] = s
      <3>1. latest[n] = Done(n) /\ committed[n] # "deleted"
        BY <2>2 DEF Holds
      <3>2. committed'[n] \in {committed[n], Done(n)}
        BY <2>1, <2>2, <3>1 DEF Seen
      <3> QED  BY <3>1, <3>2 DEF Done
    <2>3. CASE holder[n] # s
      BY <2>1, <2>3 DEF Seen
    <2> QED  BY <2>2, <2>3
  <1> QED  BY <1>1, <1>2, <1>3, <1>4 DEF Untouched

\* The three ways to end a request.
LEMMA EndsOthers ==
  ASSUME TypeOK, RowsInv, NEW s \in Session, Holds(s), NEW t \in Session, t # s,
         \/ Rollback(s) \/ Commit(s)
         \/ \E o \in Order : \E v \in OrderStatus : WriteAndCommit(s, o, v)
  PROVE  Untouched(t)
  <1>0. RowsOK
    BY DEF RowsOK, TypeOK
  <1>1. CASE Rollback(s)
    <2>1. Idle(s) /\ committed' = committed
          /\ \A r \in Row : holder[r] # s => latest'[r] = latest[r]
      BY <1>1 DEF Rollback
    <2> QED  BY <2>1, IdleOthers
  <1>2. CASE Commit(s)
    <2>1. Idle(s) /\ latest' = latest /\ \A r \in Row : committed'[r] = Seen(s, r)
      BY <1>2 DEF Commit
    <2> QED  BY <2>1, IdleOthers
  <1>3. ASSUME NEW o \in Order, NEW v \in OrderStatus, WriteAndCommit(s, o, v)
        PROVE  Untouched(t)
    <2>1. Idle(s)
      BY <1>3 DEF WriteAndCommit
    <2>2. \A r \in Row : r # o => latest'[r] = latest[r] /\ committed'[r] = Seen(s, r)
      BY <1>0, <1>3, WriteAndCommitRows
    <2> QED  BY <2>1, <2>2, IdleOthers
  <1> QED  BY <1>1, <1>2, <1>3

\* The lines a session has still to do are the last ones of its note.
LEMMA NextLine ==
  ASSUME todo \in [Session -> Seq(NoteLine)], NEW s \in Session, Place(s), pc[s] \in Writing
  PROVE  /\ target[s] \in Note
         /\ Past(s) \in 0..Len(NoteLines[target[s]])
         /\ todo[s] = <<>> => Past(s) = Len(NoteLines[target[s]])
         /\ todo[s] # <<>> =>
              /\ Past(s) < Len(NoteLines[target[s]]) /\ Past(s) + 1 \in 1..Len(NoteLines[target[s]])
              /\ Cur(s) = NoteLines[target[s]][Past(s) + 1]
              /\ Tail(todo[s]) \in Seq(NoteLine)
              /\ Len(Tail(todo[s])) <= Len(NoteLines[target[s]])
              /\ Len(NoteLines[target[s]]) - Len(Tail(todo[s])) = Past(s) + 1
              /\ \A i \in 1..Len(Tail(todo[s])) :
                   Tail(todo[s])[i] = NoteLines[target[s]][(Past(s) + 1) + i]
  <1>1. target[s] \in Note
    BY DEF Place, Working
  <1> DEFINE N == NoteLines[target[s]]
             T == todo[s]
             p == Len(N) - Len(T)
  <1>2. Len(N) \in Nat
    BY <1>1, LinesOfNotes
  <1>3. T \in Seq(NoteLine) /\ Len(T) \in Nat /\ Past(s) = p
    BY DEF Past
  <1>4. Len(T) <= Len(N) /\ \A i \in 1..Len(T) : T[i] = N[p + i]
    BY <1>3 DEF Place
  <1>5. Cur(s) = Head(T)
    BY DEF Cur
  <1> HIDE DEF N, T
  <1>6. p \in 0..Len(N)
    BY <1>2, <1>3, <1>4
  <1>7. T = <<>> => p = Len(N)
    BY <1>2, <1>3
  <1>8. ASSUME T # <<>>
        PROVE  /\ p < Len(N) /\ p + 1 \in 1..Len(N) /\ Head(T) = N[p + 1]
               /\ Tail(T) \in Seq(NoteLine) /\ Len(Tail(T)) <= Len(N)
               /\ Len(N) - Len(Tail(T)) = p + 1
               /\ \A i \in 1..Len(Tail(T)) : Tail(T)[i] = N[(p + 1) + i]
    <2>1. Len(T) >= 1 /\ Head(T) = T[1] /\ Tail(T) \in Seq(NoteLine)
          /\ Len(Tail(T)) = Len(T) - 1
      BY <1>3, <1>8
    <2>2. \A i \in 1..Len(Tail(T)) : Tail(T)[i] = T[i + 1] /\ i + 1 \in 1..Len(T)
      BY <1>3, <1>8, <2>1
    <2>3. Head(T) = N[p + 1]
      BY <2>1, <1>3, <1>4
    <2>4. p < Len(N) /\ p + 1 \in 1..Len(N) /\ Len(Tail(T)) <= Len(N)
          /\ Len(N) - Len(Tail(T)) = p + 1
      BY <2>1, <1>2, <1>3, <1>6
    <2>5. ASSUME NEW i \in 1..Len(Tail(T))  PROVE Tail(T)[i] = N[(p + 1) + i]
      <3>1. T[i + 1] = N[p + (i + 1)]
        BY <2>2, <1>4
      <3>2. p + (i + 1) = (p + 1) + i
        BY <1>6, <2>1, <1>3
      <3> QED  BY <2>2, <3>1, <3>2
    <2> QED  BY <2>1, <2>3, <2>4, <2>5
  <1> QED  BY <1>1, <1>3, <1>5, <1>6, <1>7, <1>8 DEF N, T

\* What holds of the control state of every session.
ControlOK ==
  /\ pc \in [Session -> {"idle", "approve", "cancel", "lines", "stock",
                         "count", "progress", "order"}]
  /\ target \in [Session -> Order \union Note \union {NoTarget}]
  /\ todo \in [Session -> Seq(NoteLine)]
  /\ verdict \in [Session -> OrderStatus \union {"none"}]
  /\ met \subseteq Order

\* A request begins, and a note is read.
LEMMA BeginsSession ==
  ASSUME TypeOK, RowsInv, NEW s \in Session, SessionInv(s),
         \/ \E o \in Order : BeginApprove(s, o) \/ BeginCancel(s, o)
         \/ \E n \in Note : BeginNote(s, n)
         \/ ReadLines(s)
  PROVE  /\ ControlOK' /\ SessionInv(s)'
         /\ \A t \in Session \ {s} : Untouched(t)
  <1>1. \A r \in Row : holder[r] # s
    BY DEF SessionInv, Holds, Writing, BeginApprove, BeginCancel, BeginNote, ReadLines
  <1>2. UNCHANGED <<rowVars, met, verdict>>
    BY DEF BeginApprove, BeginCancel, BeginNote, ReadLines
  <1>3. CASE \E o \in Order : BeginApprove(s, o) \/ BeginCancel(s, o)
    <2>1. PICK o \in Order : BeginApprove(s, o) \/ BeginCancel(s, o)
      BY <1>3
    <2>2. pc'[s] \in Changing /\ target'[s] = o
      BY <2>1 DEF BeginApprove, BeginCancel, TypeOK, Changing
    <2>3. Place(s)' /\ Holds(s)' /\ HasCounted(s)'
      BY <1>1, <1>2, <2>2, Tables
      DEF rowVars, Place, Holds, HasCounted, Changing, Working, Writing
    <2>4. ControlOK' /\ \A t \in Session \ {s} : Untouched(t)
      BY <1>2, <2>1 DEF BeginApprove, BeginCancel, TypeOK, ControlOK, Untouched, rowVars
    <2> QED  BY <2>3, <2>4 DEF SessionInv
  <1>4. CASE \E n \in Note : BeginNote(s, n)
    <2>1. PICK n \in Note : BeginNote(s, n)
      BY <1>4
    <2>2. pc'[s] = "lines" /\ target'[s] = n /\ committed[n] = "draft"
      BY <2>1 DEF BeginNote, TypeOK
    <2>3. Place(s)' /\ Holds(s)' /\ HasCounted(s)'
      BY <1>1, <1>2, <2>2, Tables
      DEF rowVars, Place, Holds, HasCounted, Changing, Working, Writing
    <2>4. ControlOK' /\ \A t \in Session \ {s} : Untouched(t)
      BY <1>2, <2>1 DEF BeginNote, TypeOK, ControlOK, Untouched, rowVars
    <2> QED  BY <2>3, <2>4 DEF SessionInv
  <1>5. CASE ReadLines(s)
    <2> DEFINE n == target[s]
    <2>1. n \in Note /\ committed[n] # "absent"
      BY <1>5 DEF ReadLines, SessionInv, Place, Working
    <2>2. /\ pc' = [pc EXCEPT ![s] = "stock"] /\ target' = target
          /\ todo' = [todo EXCEPT ![s] = IF committed[n] = "deleted" THEN <<>> ELSE NoteLines[n]]
      BY <1>5 DEF ReadLines
    <2>3. /\ pc'[s] = "stock" /\ target'[s] = n
          /\ todo'[s] = IF committed[n] = "deleted" THEN <<>> ELSE NoteLines[n]
      BY <2>2 DEF TypeOK
    <2>4. NoteLines[n] \in Seq(NoteLine) /\ Len(NoteLines[n]) \in Nat /\ <<>> \in Seq(NoteLine)
      BY <2>1, LinesOfNotes
    <2>5. ControlOK'
      BY <1>2, <2>2, <2>4 DEF TypeOK, ControlOK
    <2>6. \A t \in Session \ {s} : Untouched(t)
      BY <1>2, <2>2 DEF TypeOK, Untouched, rowVars
    <2> HIDE DEF n
    <2>7. Past(s)' = IF committed[n] = "deleted" THEN Len(NoteLines[n]) ELSE 0
      BY <2>3, <2>4 DEF Past
    <2>8. Place(s)'
      <3>1. /\ Len(todo'[s]) <= Len(NoteLines[n])
            /\ \A i \in 1..Len(todo'[s]) : todo'[s][i] = NoteLines[n][Past(s)' + i]
        <4>1. CASE committed[n] = "deleted"
          BY <4>1, <2>3, <2>4
        <4>2. CASE committed[n] # "deleted"
          BY <4>2, <2>3, <2>4, <2>7
        <4> QED  BY <4>1, <4>2
      <3> QED  BY <1>2, <2>1, <2>3, <3>1 DEF Place, Changing, Working, Writing, rowVars
    <2>9. Holds(s)'
      BY <1>1, <1>2, <2>3, Tables DEF rowVars, Holds, Writing
    <2>10. HasCounted(s)'
      BY <1>1, <1>2, <2>3, <2>7, Tables DEF rowVars, HasCounted, Writing
    <2> QED  BY <2>5, <2>6, <2>8, <2>9, <2>10 DEF SessionInv
  <1> QED  BY <1>3, <1>4, <1>5

\* A statement of session s in the middle of its transaction.
LEMMA WriteOthers ==
  ASSUME RowsOK, NEW s \in Session, NEW x \in Row,
         \A q \in Row : q # x => latest'[q] = latest[q] /\ holder'[q] = holder[q],
         holder'[x] = s, holder[x] = NoSession \/ holder[x] = s, committed' = committed,
         NEW t \in Session, t # s, pc'[t] = pc[t], target'[t] = target[t],
         todo'[t] = todo[t], verdict'[t] = verdict[t]
  PROVE  Untouched(t)
  <1>1. NoSession \notin Session
    BY FulfilmentAssumption DEF FulfilmentAssumption
  <1>2. \A q \in Row : holder'[q] = t <=> holder[q] = t
    BY <1>1
  <1>3. \A q \in Row : holder[q] = t => latest'[q] = latest[q] /\ committed'[q] = committed[q]
    BY <1>1
  <1>4. \A n \in Note : committed'[n] = committed[n]
    OBVIOUS
  <1> QED  BY <1>2, <1>3, <1>4 DEF Untouched

\* A line of a note is passed on, or done with because it is of no order.
LEMMA PostsSession ==
  ASSUME TypeOK, RowsInv, NEW s \in Session, SessionInv(s), Posts(s)
  PROVE  /\ ControlOK' /\ SessionInv(s)'
         /\ \A t \in Session \ {s} : Untouched(t)
  <1> DEFINE n == target[s]
             x == Cur(s).dim
             p == Past(s)
  <1>1. RowsOK /\ todo \in [Session -> Seq(NoteLine)]
    BY DEF RowsOK, TypeOK
  <1>2. Place(s) /\ Holds(s) /\ HasCounted(s)
    BY DEF SessionInv
  <1>3. pc[s] = "stock" /\ todo[s] # <<>> /\ ToOrderLine(s)
    BY DEF Posts, AtLine
  <1>4. /\ x \in Dim /\ committed' = committed
        /\ \A q \in Row : q # x => latest'[q] = latest[q] /\ holder'[q] = holder[q]
        /\ holder'[x] = s /\ (holder[x] = NoSession \/ holder[x] = s)
    BY <1>1, PostsRows, Tables
  <1>5. /\ n \in Note /\ p \in 0..Len(NoteLines[n])
        /\ p < Len(NoteLines[n]) /\ p + 1 \in 1..Len(NoteLines[n])
        /\ Cur(s) = NoteLines[n][p + 1]
        /\ Tail(todo[s]) \in Seq(NoteLine)
        /\ Len(Tail(todo[s])) <= Len(NoteLines[n])
        /\ Len(NoteLines[n]) - Len(Tail(todo[s])) = p + 1
        /\ \A i \in 1..Len(Tail(todo[s])) : Tail(todo[s])[i] = NoteLines[n][(p + 1) + i]
    BY <1>1, <1>2, <1>3, NextLine DEF Writing
  <1>6. /\ pc' = [pc EXCEPT ![s] = IF Cur(s).line = NoLine THEN "stock" ELSE "count"]
        /\ todo' = [todo EXCEPT ![s] = IF Cur(s).line = NoLine THEN Tail(todo[s]) ELSE todo[s]]
        /\ target' = target /\ verdict' = verdict /\ met' = met
    BY <1>3 DEF ToOrderLine
  <1>7. ControlOK'
    BY <1>5, <1>6 DEF ControlOK, TypeOK
  <1>8. ASSUME NEW t \in Session \ {s}  PROVE Untouched(t)
    <2>1. pc'[t] = pc[t] /\ todo'[t] = todo[t] /\ target'[t] = target[t] /\ verdict'[t] = verdict[t]
      BY <1>6 DEF TypeOK
    <2> QED  BY <2>1, <1>1, <1>4, Tables, WriteOthers
  <1>9. target'[s] = n /\ n \notin Dim /\ x \notin Note /\ x \notin Line /\ x \in Row
    BY <1>4, <1>5, <1>6, Tables
  <1>10. Holds(s)'
    <2>1. pc'[s] \in {"stock", "count"}
      BY <1>6 DEF TypeOK
    <2>2. \A m \in Note : holder'[m] # s
      BY <1>2, <1>3, <1>4, <1>9, Tables DEF Holds
    <2> QED  BY <2>1, <2>2 DEF Holds, Writing
  <1>11. \A l \in Line : holder'[l] = holder[l] /\ latest'[l] = latest[l]
    BY <1>4, <1>9, Tables
  <1>12. committed'[n] # "absent"
    BY <1>2, <1>3, <1>4 DEF Place, Working, Writing
  <1>13. CASE Cur(s).line = NoLine
    <2>1. pc'[s] = "stock" /\ todo'[s] = Tail(todo[s])
      BY <1>6, <1>13 DEF TypeOK
    <2>2. Past(s)' = p + 1
      BY <2>1, <1>5, <1>9 DEF Past
    <2>3. Place(s)'
      BY <2>1, <2>2, <1>5, <1>9, <1>12 DEF Place, Changing, Working, Writing
    <2>4. HasCounted(s)'
      <3> SUFFICES ASSUME committed[n] # "deleted", NEW l \in Line
                   PROVE  /\ holder[l] = s <=> \E i \in 1..(p + 1) : NoteLines[n][i].line = l
                          /\ holder[l] = s =>
                               latest[l] = committed[l] + CarriedUpTo(n, l, p + 1)
        BY <2>2, <1>4, <1>9, <1>11 DEF HasCounted
      <3>1. /\ holder[l] = s <=> \E i \in 1..p : NoteLines[n][i].line = l
            /\ holder[l] = s => latest[l] = committed[l] + CarriedUpTo(n, l, p)
        BY <1>2, <1>3 DEF HasCounted, Writing
      <3>2. NoteLines[n][p + 1].line # l
        BY <1>5, <1>13, FulfilmentAssumption DEF FulfilmentAssumption
      <3>3. CarriedUpTo(n, l, p + 1) = CarriedUpTo(n, l, p)
        BY <3>2, <1>5, CarriedLineByLine
      <3>4. \A i : i \in 1..(p + 1) <=> i \in 1..p \/ i = p + 1
        BY <1>5
      <3> HIDE DEF n, p
      <3> QED  BY <3>1, <3>2, <3>3, <3>4
    <2> QED  BY <2>3, <2>4, <1>7, <1>8, <1>10 DEF SessionInv
  <1>14. CASE Cur(s).line # NoLine
    <2>1. pc'[s] = "count" /\ todo'[s] = todo[s]
      BY <1>6, <1>14 DEF TypeOK
    <2>2. Past(s)' = p /\ Cur(s)' = Cur(s)
      BY <2>1, <1>9 DEF Past, Cur
    <2>3. Place(s)'
      BY <2>1, <2>2, <1>2, <1>3, <1>9, <1>12, <1>5, <1>14 DEF Place, Changing, Working, Writing
    <2>4. HasCounted(s)'
      BY <2>1, <2>2, <1>2, <1>3, <1>4, <1>9, <1>11 DEF HasCounted, Writing
    <2> QED  BY <2>3, <2>4, <1>7, <1>8, <1>10 DEF SessionInv
  <1> QED  BY <1>13, <1>14

\* Then it is counted on its order line.
LEMMA CountLineSession ==
  ASSUME TypeOK, RowsInv, NEW s \in Session, SessionInv(s), CountLine(s)
  PROVE  /\ ControlOK' /\ SessionInv(s)'
         /\ \A t \in Session \ {s} : Untouched(t)
  <1> DEFINE n == target[s]
             x == Cur(s).line
             q == Cur(s).qty
             p == Past(s)
  <1>1. RowsOK /\ todo \in [Session -> Seq(NoteLine)]
    BY DEF RowsOK, TypeOK
  <1>2. Place(s) /\ Holds(s) /\ HasCounted(s)
    BY DEF SessionInv
  <1>3. pc[s] = "count" /\ todo[s] # <<>>
    BY <1>2 DEF CountLine, Place
  <1>4. /\ x \in Line /\ committed' = committed
        /\ \A r \in Row : r # x => latest'[r] = latest[r] /\ holder'[r] = holder[r]
        /\ holder'[x] = s /\ (holder[x] = NoSession \/ holder[x] = s)
        /\ latest'[x] = latest[x] + q
    BY <1>1, <1>2, CountLineRows, Tables
  <1>5. /\ n \in Note /\ p \in 0..Len(NoteLines[n])
        /\ p < Len(NoteLines[n]) /\ p + 1 \in 1..Len(NoteLines[n])
        /\ Cur(s) = NoteLines[n][p + 1]
        /\ Tail(todo[s]) \in Seq(NoteLine)
        /\ Len(Tail(todo[s])) <= Len(NoteLines[n])
        /\ Len(NoteLines[n]) - Len(Tail(todo[s])) = p + 1
        /\ \A i \in 1..Len(Tail(todo[s])) : Tail(todo[s])[i] = NoteLines[n][(p + 1) + i]
    BY <1>1, <1>2, <1>3, NextLine DEF Writing
  <1>6. /\ pc' = [pc EXCEPT ![s] = "stock"] /\ todo' = [todo EXCEPT ![s] = Tail(todo[s])]
        /\ target' = target /\ verdict' = verdict /\ met' = met
    BY DEF CountLine
  <1>7. ControlOK'
    BY <1>5, <1>6 DEF ControlOK, TypeOK
  <1>8. ASSUME NEW t \in Session \ {s}  PROVE Untouched(t)
    <2>1. pc'[t] = pc[t] /\ todo'[t] = todo[t] /\ target'[t] = target[t] /\ verdict'[t] = verdict[t]
      BY <1>6 DEF TypeOK
    <2>2. /\ x \in Row /\ \A r \in Row : r # x => latest'[r] = latest[r] /\ holder'[r] = holder[r]
          /\ holder'[x] = s /\ (holder[x] = NoSession \/ holder[x] = s)
          /\ committed' = committed
      BY <1>4, Tables
    <2> HIDE DEF x
    <2> QED  BY <2>1, <2>2, <1>1, WriteOthers
  <1>9. target'[s] = n /\ x \notin Note /\ x \in Row /\ pc'[s] = "stock" /\ todo'[s] = Tail(todo[s])
    BY <1>4, <1>6, Tables DEF TypeOK
  <1>10. Holds(s)'
    <2>1. \A m \in Note : holder'[m] # s
      BY <1>2, <1>3, <1>4, <1>9, Tables DEF Holds
    <2> QED  BY <2>1, <1>9 DEF Holds, Writing
  <1>11. committed'[n] # "absent"
    BY <1>2, <1>3, <1>4 DEF Place, Working, Writing
  <1>12. Past(s)' = p + 1
    BY <1>9, <1>5 DEF Past
  <1>13. Place(s)'
    BY <1>5, <1>9, <1>11, <1>12 DEF Place, Changing, Working, Writing
  <1>14. HasCounted(s)'
    <2> SUFFICES ASSUME committed[n] # "deleted", NEW l \in Line
                 PROVE  /\ holder'[l] = s <=> \E i \in 1..(p + 1) : NoteLines[n][i].line = l
                        /\ holder'[l] = s =>
                             latest'[l] = committed[l] + CarriedUpTo(n, l, p + 1)
      BY <1>12, <1>4, <1>9 DEF HasCounted
    <2>1. /\ holder[l] = s <=> \E i \in 1..p : NoteLines[n][i].line = l
          /\ holder[l] = s => latest[l] = committed[l] + CarriedUpTo(n, l, p)
      BY <1>2, <1>3 DEF HasCounted, Writing
    <2>2. \A i : i \in 1..(p + 1) <=> i \in 1..p \/ i = p + 1
      BY <1>5
    <2>3. NoteLines[n][p + 1].line = x /\ NoteLines[n][p + 1].qty = q
      BY <1>5
    <2>4. /\ CarriedUpTo(n, l, p) \in Nat
          /\ (\A i \in 1..p : NoteLines[n][i].line # l) => CarriedUpTo(n, l, p) = 0
          /\ l = x => CarriedUpTo(n, l, p + 1) = CarriedUpTo(n, l, p) + q
          /\ l # x => CarriedUpTo(n, l, p + 1) = CarriedUpTo(n, l, p)
      BY <1>5, <2>3, CarriedLineByLine
    <2>5. committed[l] \in Nat /\ latest[l] \in Nat /\ (holder[l] = NoSession => latest[l] = committed[l])
      BY RowsTyped, Tables DEF TypeOK, RowsInv
    <2>6. q \in Nat
      BY <2>3, <1>5, LinesOfNotes
    <2> DEFINE c == CarriedUpTo(n, l, p)
               d == CarriedUpTo(n, l, p + 1)
    <2>7. CASE l = x
      <3>1. holder'[l] = s /\ \E i \in 1..(p + 1) : NoteLines[n][i].line = l
        BY <2>7, <2>2, <2>3, <1>4, <1>5
      <3>2. latest[l] = committed[l] + c
        <4>1. CASE holder[l] = s
          BY <4>1, <2>1
        <4>2. CASE holder[l] # s
          <5>1. latest[l] = committed[l]
            BY <4>2, <2>5, <2>7, <1>4
          <5>2. c = 0
            BY <4>2, <2>1, <2>4
          <5> QED  BY <5>1, <5>2, <2>5
        <4> QED  BY <4>1, <4>2
      <3>3. latest'[l] = latest[l] + q /\ d = c + q /\ c \in Nat
        BY <2>7, <1>4, <2>4
      <3>4. latest'[l] = committed[l] + d
        <4> HIDE DEF c, d, q
        <4> QED  BY <3>2, <3>3, <2>5, <2>6
      <3> QED  BY <3>1, <3>4
    <2>8. CASE l # x
      <3>1. holder'[l] = holder[l] /\ latest'[l] = latest[l]
        BY <2>8, <1>4, Tables
      <3> HIDE DEF n, p, x
      <3> QED  BY <3>1, <2>8, <2>1, <2>2, <2>3, <2>4
    <2> QED  BY <2>7, <2>8
  <1> QED  BY <1>7, <1>8, <1>10, <1>13, <1>14 DEF SessionInv

\* The header of the note is written, after the last line.
LEMMA CompleteNoteSession ==
  ASSUME TypeOK, RowsInv, NEW s \in Session, SessionInv(s), CompleteNote(s)
  PROVE  /\ ControlOK' /\ SessionInv(s)'
         /\ \A t \in Session \ {s} : Untouched(t)
  <1> DEFINE n == target[s]
  <1>1. RowsOK
    BY DEF RowsOK, TypeOK
  <1>2. Place(s) /\ Holds(s) /\ HasCounted(s)
    BY DEF SessionInv
  <1>3. /\ pc[s] = "stock" /\ todo[s] = <<>> /\ latest[n] # "deleted"
        /\ pc' = [pc EXCEPT ![s] = "progress"]
        /\ target' = target /\ todo' = todo /\ verdict' = verdict /\ met' = met
    BY DEF CompleteNote, AtHeader
  <1>4. /\ n \in Note /\ n \in Row /\ committed' = committed
        /\ \A r \in Row : r # n => latest'[r] = latest[r] /\ holder'[r] = holder[r]
        /\ holder'[n] = s /\ (holder[n] = NoSession \/ holder[n] = s)
        /\ latest'[n] = Done(n)
    BY <1>1, <1>2, CompleteNoteRows, Tables
  <1>5. /\ pc'[s] = "progress" /\ target'[s] = n /\ todo'[s] = todo[s]
    BY <1>3 DEF TypeOK
  <1>6. committed[n] # "deleted" /\ committed[n] # "absent"
    <2>1. holder[n] = NoSession
      BY <1>2, <1>3, <1>4 DEF Holds
    <2> QED  BY <2>1, <1>2, <1>3, <1>4 DEF RowsInv, Place, Working, Writing
  <1>7. ControlOK'
    BY <1>3 DEF ControlOK, TypeOK
  <1>8. ASSUME NEW t \in Session \ {s}  PROVE Untouched(t)
    <2>1. pc'[t] = pc[t] /\ todo'[t] = todo[t] /\ target'[t] = target[t] /\ verdict'[t] = verdict[t]
      BY <1>3 DEF TypeOK
    <2> HIDE DEF n
    <2> QED  BY <2>1, <1>1, <1>4, WriteOthers
  <1>9. Past(s)' = Past(s) /\ Cur(s)' = Cur(s)
    BY <1>5 DEF Past, Cur
  <1>10. Place(s)'
    BY <1>2, <1>3, <1>4, <1>5, <1>6, <1>9 DEF Place, Changing, Working, Writing
  <1>11. Holds(s)'
    <2>1. ASSUME NEW m \in Note  PROVE holder'[m] = s <=> m = n
      BY <1>2, <1>3, <1>4, Tables DEF Holds
    <2> QED  BY <2>1, <1>4, <1>5, <1>6 DEF Holds, Writing
  <1>12. HasCounted(s)'
    <2>1. \A l \in Line : holder'[l] = holder[l] /\ latest'[l] = latest[l]
      BY <1>4, Tables
    <2> QED  BY <2>1, <1>2, <1>3, <1>4, <1>5, <1>9 DEF HasCounted, Writing
  <1> QED  BY <1>7, <1>8, <1>10, <1>11, <1>12 DEF SessionInv

\* The order is judged.
LEMMA JudgesSession ==
  ASSUME TypeOK, RowsInv, NEW s \in Session, SessionInv(s), Judges(s)
  PROVE  /\ ControlOK' /\ SessionInv(s)'
         /\ \A t \in Session \ {s} : Untouched(t)
  <1> DEFINE n == target[s]
             o == NoteOrder[n]
             v == Progress(s, o)
  <1>1. Place(s) /\ Holds(s) /\ HasCounted(s)
    BY DEF SessionInv
  <1>2. /\ pc[s] = "progress" /\ v # "none"
        /\ verdict' = [verdict EXCEPT ![s] = v] /\ pc' = [pc EXCEPT ![s] = "order"]
        /\ met' \subseteq met \union {o} /\ UNCHANGED <<rowVars, target, todo>>
    BY DEF Judges
  <1>3. n \in Note /\ o \in Order
    <2>1. n \in Note
      BY <1>1, <1>2 DEF Place, Working, Writing
    <2> QED  BY <2>1, FulfilmentAssumption DEF FulfilmentAssumption
  <1>4. v \in {"completed", Partial(o)} /\ v \in OrderStatus
    BY <1>2 DEF Progress, OrderStatus, Partial
  <1> HIDE DEF v
  <1>5. pc'[s] = "order" /\ target'[s] = n /\ todo'[s] = todo[s] /\ verdict'[s] = v
    BY <1>2 DEF TypeOK
  <1>6. ControlOK'
    BY <1>2, <1>3, <1>4 DEF ControlOK, TypeOK
  <1>7. \A t \in Session \ {s} : Untouched(t)
    BY <1>2 DEF TypeOK, Untouched, rowVars
  <1>8. Past(s)' = Past(s) /\ Cur(s)' = Cur(s)
    BY <1>5 DEF Past, Cur
  <1>9. Place(s)'
    BY <1>1, <1>2, <1>4, <1>5, <1>8 DEF Place, Changing, Working, Writing, rowVars
  <1>10. Holds(s)'
    BY <1>1, <1>2, <1>5 DEF Holds, Writing, rowVars
  <1>11. HasCounted(s)'
    BY <1>1, <1>2, <1>5, <1>8 DEF HasCounted, Writing, rowVars
  <1> QED  BY <1>6, <1>7, <1>9, <1>10, <1>11 DEF SessionInv

\* Rows are created and deleted beside all transactions.
LEMMA SetsOthers ==
  ASSUME TypeOK, RowsInv, \A s \in Session : SessionInv(s),
         \/ \E o \in Order : CreateOrder(o) \/ DeleteOrder(o)
         \/ \E n \in Note : CreateNote(n) \/ DeleteNote(n)
  PROVE  ControlOK' /\ \A t \in Session : Untouched(t)
  <1>1. PICK r \in Order \union Note, v \in {"draft", "deleted"} :
          /\ SetStatus(r, v)
          /\ r \in Note => (committed[r] = "absent" /\ v = "draft")
                          \/ (committed[r] = "draft" /\ holder[r] = NoSession)
    <2>1. CASE \E o \in Order : CreateOrder(o) \/ DeleteOrder(o)
      <3>1. PICK o \in Order : CreateOrder(o) \/ DeleteOrder(o)
        BY <2>1
      <3>2. o \notin Note
        BY Tables
      <3>3. SetStatus(o, "draft") \/ SetStatus(o, "deleted")
        BY <3>1 DEF CreateOrder, DeleteOrder
      <3> QED  BY <3>2, <3>3
    <2>2. CASE \E n \in Note : CreateNote(n) \/ DeleteNote(n)
      <3>1. PICK n \in Note : CreateNote(n) \/ DeleteNote(n)
        BY <2>2
      <3>2. \/ committed[n] = "absent" /\ SetStatus(n, "draft")
            \/ committed[n] = "draft" /\ holder[n] = NoSession /\ SetStatus(n, "deleted")
        BY <3>1 DEF CreateNote, DeleteNote
      <3> QED  BY <3>2
    <2> QED  BY <2>1, <2>2
  <1>2. r \in Row
    BY Tables
  <1>3. \A t \in Session : holder[r] # t
    <2> TAKE t \in Session
    <2>1. NoSession \notin Session
      BY FulfilmentAssumption DEF FulfilmentAssumption
    <2>2. CASE r \in Order
      BY <2>1, <2>2 DEF RowsInv
    <2>3. CASE r \in Note
      <3>1. CASE holder[r] = NoSession
        BY <3>1, <2>1
      <3>2. CASE committed[r] = "absent"
        BY <2>3, <3>2 DEF SessionInv, Place, Holds, Working, Writing
      <3> QED  BY <3>1, <3>2, <2>3, <1>1
    <2> QED  BY <2>2, <2>3
  <1>4. /\ DOMAIN latest = Row /\ DOMAIN committed = Row
    BY DEF RowsInv
  <1>5. /\ latest' = [latest EXCEPT ![r] = v] /\ committed' = [committed EXCEPT ![r] = v]
        /\ UNCHANGED <<holder, pc, target, todo, verdict, met>>
    BY <1>1 DEF SetStatus
  <1>6. \A q \in Row : /\ latest'[q] = IF q = r THEN v ELSE latest[q]
                       /\ committed'[q] = IF q = r THEN v ELSE committed[q]
    BY <1>4, <1>5
  <1>7. ControlOK'
    BY <1>5 DEF ControlOK, TypeOK
  <1>8. ASSUME NEW t \in Session  PROVE Untouched(t)
    <2>1. \A q \in Row : holder[q] = t => latest'[q] = latest[q] /\ committed'[q] = committed[q]
      BY <1>3, <1>6
    <2>2. ASSUME NEW n \in Note
          PROVE  /\ committed[n] # "absent" => committed'[n] # "absent"
                 /\ committed[n] = "deleted" => committed'[n] = "deleted"
      BY <1>1, <1>6, Tables
    <2> QED  BY <2>1, <2>2, <1>5 DEF Untouched
  <1> QED  BY <1>7, <1>8

\* A session goes on with its note.
Advances(s) ==
  ReadLines(s) \/ Posts(s) \/ CountLine(s) \/ CompleteNote(s) \/ Judges(s)

\* Every step keeps what every session knows of its transaction.
LEMMA SessionStep ==
  ASSUME TypeOK, RowsInv, \A s \in Session : SessionInv(s), [Next]_vars
  PROVE  /\ TypeOK' /\ RowsInv' /\ \A s \in Session : SessionInv(s)'
         /\ \A s \in Session : Untouched(s) \/ Advances(s) \/ pc'[s] \notin Writing
  <1>1. RowsOK /\ RowsOK' /\ \A s \in Session : Place(s) /\ Holds(s)
    BY RowsStep DEF RowsOK, TypeOK, SessionInv
  <1> DEFINE Goal == /\ ControlOK' /\ \A s \in Session : SessionInv(s)'
                     /\ \A s \in Session : Untouched(s) \/ Advances(s) \/ pc'[s] \notin Writing
  <1> SUFFICES Goal
    BY <1>1 DEF ControlOK, RowsOK, TypeOK, RowOK
  <1>2. CASE UNCHANGED vars
    <2>1. ControlOK' /\ \A s \in Session : Untouched(s)
      BY <1>2 DEF vars, rowVars, ControlOK, TypeOK, Untouched
    <2> QED  BY <2>1, OtherSession
  <1>3. CASE \/ \E o \in Order : CreateOrder(o) \/ DeleteOrder(o)
             \/ \E n \in Note : CreateNote(n) \/ DeleteNote(n)
    <2>1. ControlOK' /\ \A s \in Session : Untouched(s)
      BY <1>3, SetsOthers
    <2> QED  BY <2>1, OtherSession
  <1>4. ASSUME NEW s \in Session,
               ControlOK', SessionInv(s)', \A t \in Session \ {s} : Untouched(t),
               Advances(s) \/ pc'[s] \notin Writing
        PROVE  Goal
    <2>1. ASSUME NEW t \in Session  PROVE SessionInv(t)'
      <3>1. CASE t = s
        BY <1>4, <3>1
      <3>2. CASE t # s
        BY <1>4, <3>2, OtherSession
      <3> QED  BY <3>1, <3>2
    <2> QED  BY <1>4, <2>1
  <1>5. ASSUME NEW s \in Session,
               \/ \E o \in Order : BeginApprove(s, o) \/ BeginCancel(s, o)
               \/ \E n \in Note : BeginNote(s, n)
               \/ ReadLines(s)
        PROVE  Goal
    <2>1. ControlOK' /\ SessionInv(s)' /\ \A t \in Session \ {s} : Untouched(t)
      BY <1>5, BeginsSession
    <2>2. Advances(s) \/ pc'[s] \notin Writing
      BY <1>5 DEF BeginApprove, BeginCancel, BeginNote, Advances, Writing, TypeOK
    <2> HIDE DEF Goal
    <2> QED  BY <2>1, <2>2, <1>4
  <1>6. ASSUME NEW s \in Session, Posts(s) \/ CountLine(s) \/ CompleteNote(s) \/ Judges(s)
        PROVE  Goal
    <2>1. ControlOK' /\ SessionInv(s)' /\ \A t \in Session \ {s} : Untouched(t)
      BY <1>6, PostsSession, CountLineSession, CompleteNoteSession, JudgesSession
    <2>2. Advances(s)
      BY <1>6 DEF Advances
    <2> HIDE DEF Goal
    <2> QED  BY <2>1, <2>2, <1>4
  <1>7. ASSUME NEW s \in Session,
               \/ Rollback(s) \/ Commit(s)
               \/ \E o \in Order : \E v \in OrderStatus : WriteAndCommit(s, o, v)
        PROVE  Goal
    <2>1. Idle(s)
      BY <1>7 DEF Rollback, Commit, WriteAndCommit
    <2>2. \A t \in Session \ {s} : Untouched(t)
      BY <1>1, <1>7, EndsOthers
    <2>3. ControlOK' /\ SessionInv(s)' /\ pc'[s] \notin Writing
      BY <2>1, IdleSession DEF ControlOK, TypeOK, Writing
    <2> HIDE DEF Goal
    <2> QED  BY <2>2, <2>3, <1>4
  <1>8. ASSUME NEW s \in Session, ApproveOrder(s) \/ CancelOrder(s)
        PROVE  \E o \in Order : \E v \in OrderStatus : WriteAndCommit(s, o, v)
    BY <1>1, <1>8 DEF Place, Changing, ApproveOrder, CancelOrder, OrderStatus
  <1>9. ASSUME NEW s \in Session, UpdateOrder(s)
        PROVE  \E o \in Order : \E v \in OrderStatus : WriteAndCommit(s, o, v)
    <2> DEFINE o == NoteOrder[target[s]]
               v == IF latest[o] \in {"approved", Partial(o)} THEN verdict[s] ELSE latest[o]
    <2>1. pc[s] = "order" /\ WriteAndCommit(s, o, v)
      BY <1>9 DEF UpdateOrder
    <2>2. o \in Order
      <3>1. target[s] \in Note
        BY <1>1, <2>1 DEF Place, Working, Writing
      <3> QED  BY <3>1, FulfilmentAssumption DEF FulfilmentAssumption
    <2>3. v \in OrderStatus
      <3>1. verdict[s] \in OrderStatus
        BY <1>1, <2>1 DEF Place, OrderStatus, Partial
      <3>2. latest[o] \in OrderStatus
        BY <2>2, <1>1, RowsTyped DEF RowsOK
      <3> QED  BY <3>1, <3>2
    <2> HIDE DEF o, v
    <2> QED  BY <2>1, <2>2, <2>3
  <1> HIDE DEF Goal
  <1>10. Goal
    BY <1>1, <1>2, <1>3, <1>5, <1>6, <1>7, <1>8, <1>9, Kinds DEF CommitsUnjudged, Goal
  <1> QED  BY <1>10 DEF Goal

-----------------------------------------------------------------------------
(* What is committed.                                                      *)

\* The order lines and the finished notes stay, and no order gets further.
Keeps ==
  /\ \A l \in Line \union Dim : committed'[l] = committed[l]
  /\ \A n \in Note : committed'[n] = Done(n) <=> committed[n] = Done(n)
  /\ \A o \in Order : \/ committed'[o] = committed[o]
                      \/ committed'[o] \in {"draft", "deleted", "approved", "cancelled"}

\* The transaction of s commits: all of its note, and perhaps its verdict.
CommitsNote(s) ==
  /\ pc[s] \in {"progress", "order"} /\ pc'[s] = "idle"
  /\ \A r \in Row \ Order : committed'[r] = Seen(s, r)
  /\ \A o \in Order : o # NoteOrder[target[s]] => committed'[o] = committed[o]
  /\ LET o == NoteOrder[target[s]]
     IN  \/ /\ pc[s] = "progress" /\ Progress(s, o) = "none"
            /\ committed'[o] = committed[o]
         \/ /\ pc[s] = "order"
            /\ committed'[o] = IF committed[o] \in {"approved", Partial(o)}
                               THEN verdict[s] ELSE committed[o]

\* Every step does one or the other.
LEMMA CommittedStep ==
  ASSUME TypeOK, RowsInv, \A s \in Session : SessionInv(s), [Next]_vars
  PROVE  Keeps \/ \E s \in Session : CommitsNote(s)
  <1>1. RowsOK /\ \A s \in Session : Place(s) /\ Holds(s)
    BY DEF RowsOK, TypeOK, SessionInv
  <1>2. CASE committed' = committed
    BY <1>2 DEF Keeps
  <1>3. ASSUME NEW r \in Order \union Note, NEW v \in {"draft", "deleted"}, SetStatus(r, v),
               r \in Note => committed[r] \in {"absent", "draft"}
        PROVE  Keeps
    <2>1. \A q \in Row : committed'[q] = IF q = r THEN v ELSE committed[q]
      BY <1>3 DEF SetStatus, RowsInv
    <2>2. \A l \in Line \union Dim : committed'[l] = committed[l]
      BY <2>1, Tables
    <2>3. \A n \in Note : committed'[n] = Done(n) <=> committed[n] = Done(n)
      BY <2>1, <1>3, Tables DEF Done
    <2>4. \A o \in Order : \/ committed'[o] = committed[o]
                           \/ committed'[o] \in {"draft", "deleted", "approved", "cancelled"}
      BY <2>1, Tables
    <2> QED  BY <2>2, <2>3, <2>4 DEF Keeps
  <1>4. ASSUME NEW s \in Session, ApproveOrder(s) \/ CancelOrder(s)  PROVE Keeps
    <2> DEFINE o == target[s]
    <2>1. pc[s] \in Changing /\ o \in Order
      BY <1>1, <1>4 DEF ApproveOrder, CancelOrder, Changing, Place
    <2>2. PICK v \in {"approved", "cancelled"} : WriteAndCommit(s, o, v)
      BY <1>4 DEF ApproveOrder, CancelOrder
    <2>3. \A q \in Row : holder[q] # s
      BY <1>1, <2>1 DEF Holds, Changing, Writing
    <2>4. v \in OrderStatus
      BY DEF OrderStatus
    <2> HIDE DEF o
    <2>5. \A q \in Row : committed'[q] = IF q = o THEN v ELSE committed[q]
      BY <1>1, <2>1, <2>2, <2>3, <2>4, WriteAndCommitRows DEF Seen
    <2> QED  BY <2>5, <2>1, Tables DEF Keeps
  <1>5. ASSUME NEW s \in Session, pc[s] \in {"progress", "order"}
        PROVE  /\ NoteOrder[target[s]] \in Order
               /\ \A o \in Order : Seen(s, o) = committed[o] /\ latest[o] = committed[o]
    <2>1. target[s] \in Note
      BY <1>1, <1>5 DEF Place, Working, Writing
    <2>2. NoteOrder[target[s]] \in Order
      BY <2>1, FulfilmentAssumption DEF FulfilmentAssumption
    <2>3. \A o \in Order : holder[o] # s /\ latest[o] = committed[o]
      BY Tables, FulfilmentAssumption DEF RowsInv, FulfilmentAssumption
    <2> QED  BY <2>2, <2>3 DEF Seen
  <1>6. ASSUME NEW s \in Session, UpdateOrder(s)  PROVE CommitsNote(s)
    <2> DEFINE o == NoteOrder[target[s]]
               v == IF latest[o] \in {"approved", Partial(o)} THEN verdict[s] ELSE latest[o]
    <2>1. pc[s] = "order" /\ WriteAndCommit(s, o, v) /\ pc'[s] = "idle"
      BY <1>6 DEF UpdateOrder, WriteAndCommit, Idle, TypeOK
    <2>2. o \in Order /\ \A q \in Order : Seen(s, q) = committed[q] /\ latest[q] = committed[q]
      BY <1>5, <2>1
    <2>3. v \in OrderStatus
      <3>1. verdict[s] \in OrderStatus
        BY <1>1, <2>1 DEF Place, OrderStatus, Partial
      <3>2. latest[o] \in OrderStatus
        BY <2>2, <1>1, RowsTyped DEF RowsOK
      <3> QED  BY <3>1, <3>2
    <2>4. v = IF committed[o] \in {"approved", Partial(o)} THEN verdict[s] ELSE committed[o]
      BY <2>2
    <2> HIDE DEF v
    <2>5. \A q \in Row : committed'[q] = IF q = o THEN v ELSE Seen(s, q)
      BY <2>1, <2>2, <2>3, <1>1, WriteAndCommitRows
    <2> QED  BY <2>1, <2>2, <2>4, <2>5, Tables DEF CommitsNote
  <1>7. ASSUME NEW s \in Session, CommitsUnjudged(s)  PROVE CommitsNote(s)
    <2>1. pc[s] = "progress" /\ Progress(s, NoteOrder[target[s]]) = "none"
          /\ \A q \in Row : committed'[q] = Seen(s, q)
      BY <1>1, <1>7, CommitRows DEF CommitsUnjudged
    <2>2. pc'[s] = "idle"
      BY <1>7 DEF CommitsUnjudged, Commit, Idle, TypeOK
    <2> QED  BY <2>1, <2>2, <1>5, Tables DEF CommitsNote
  <1>8. ASSUME NEW s \in Session,
               \/ \E o \in Order : BeginApprove(s, o) \/ BeginCancel(s, o)
               \/ \E n \in Note : BeginNote(s, n)
               \/ ReadLines(s) \/ Judges(s) \/ Posts(s) \/ CountLine(s) \/ CompleteNote(s)
               \/ Rollback(s)
        PROVE  committed' = committed
    BY <1>8 DEF BeginApprove, BeginCancel, BeginNote, ReadLines, Judges, Posts, CountLine,
                CompleteNote, Write, Rollback, rowVars
  <1>9. ASSUME NEW o \in Order, CreateOrder(o) \/ DeleteOrder(o)  PROVE Keeps
    <2>1. SetStatus(o, "draft") \/ SetStatus(o, "deleted")
      BY <1>9 DEF CreateOrder, DeleteOrder
    <2> QED  BY <2>1, <1>3, Tables
  <1>10. ASSUME NEW n \in Note, CreateNote(n) \/ DeleteNote(n)  PROVE Keeps
    <2>1. committed[n] \in {"absent", "draft"} /\ (SetStatus(n, "draft") \/ SetStatus(n, "deleted"))
      BY <1>10 DEF CreateNote, DeleteNote
    <2> QED  BY <2>1, <1>3
  <1>11. CASE UNCHANGED vars
    BY <1>2, <1>11 DEF vars, rowVars
  <1> QED  BY <1>1, <1>2, <1>4, <1>6, <1>7, <1>8, <1>9, <1>10, <1>11, Kinds

\* A transaction that has come to its end has counted the whole note.
LEMMA NoteIsCounted ==
  ASSUME TypeOK, RowsInv, NEW s \in Session, SessionInv(s), pc[s] \in {"progress", "order"}
  PROVE  /\ target[s] \in Note /\ NoteOrder[target[s]] \in Order
         /\ \A n \in Note : Seen(s, n) = IF n = target[s] THEN Done(n) ELSE committed[n]
         /\ \A l \in Line :
              /\ committed[l] \in Nat /\ Carried(target[s], l) \in Nat
              /\ Seen(s, l) = committed[l] + Carried(target[s], l)
              /\ (\A i \in 1..Len(NoteLines[target[s]]) : NoteLines[target[s]][i].line # l)
                   => Seen(s, l) = committed[l]
  <1> DEFINE n == target[s]
  <1>1. Place(s) /\ Holds(s) /\ HasCounted(s)
    BY DEF SessionInv
  <1>2. n \in Note /\ NoteOrder[n] \in Order
    <2>1. n \in Note
      BY <1>1 DEF Place, Working, Writing
    <2> QED  BY <2>1, FulfilmentAssumption DEF FulfilmentAssumption
  <1>3. \A m \in Note : Seen(s, m) = IF m = n THEN Done(m) ELSE committed[m]
    BY <1>1, <1>2 DEF Holds, Seen
  <1>4. Past(s) = Len(NoteLines[n]) /\ Len(NoteLines[n]) \in 0..Len(NoteLines[n])
    BY <1>1, <1>2, NextLine, LinesOfNotes DEF Place, Writing, TypeOK
  <1>5. ASSUME NEW l \in Line
        PROVE  /\ committed[l] \in Nat /\ Carried(n, l) \in Nat
               /\ Seen(s, l) = committed[l] + Carried(n, l)
               /\ (\A i \in 1..Len(NoteLines[n]) : NoteLines[n][i].line # l)
                    => Seen(s, l) = committed[l]
    <2>1. committed[l] \in Nat
      BY RowsTyped DEF TypeOK
    <2>2. Carried(n, l) = CarriedUpTo(n, l, Len(NoteLines[n]))
      BY DEF Carried, CarriedUpTo
    <2>3. /\ Carried(n, l) \in Nat
          /\ (\A i \in 1..Len(NoteLines[n]) : NoteLines[n][i].line # l) => Carried(n, l) = 0
      BY <1>2, <1>4, <2>2, CarriedLineByLine
    <2>4. /\ holder[l] = s <=> \E i \in 1..Len(NoteLines[n]) : NoteLines[n][i].line = l
          /\ holder[l] = s => latest[l] = committed[l] + Carried(n, l)
      BY <1>1, <1>4, <2>2 DEF HasCounted, Writing, Holds
    <2>5. CASE holder[l] = s
      BY <2>1, <2>3, <2>4, <2>5 DEF Seen
    <2>6. CASE holder[l] # s
      <3>1. Carried(n, l) = 0 /\ Seen(s, l) = committed[l]
        BY <2>3, <2>4, <2>6 DEF Seen
      <3> QED  BY <3>1, <2>1
    <2> QED  BY <2>5, <2>6
  <1> QED  BY <1>2, <1>3, <1>5

\* Every finished note stays counted on its order lines.
LEMMA CountedStep ==
  ASSUME TypeOK, RowsInv, \A s \in Session : SessionInv(s), CompletionsAreCounted, [Next]_vars
  PROVE  CompletionsAreCounted'
  <1> SUFFICES ASSUME NEW l \in Line
               PROVE  /\ SumFunctionOnSet([n \in Note |-> Carried(n, l)], Finished') <= committed'[l]
                      /\ committed'[l] > 0 => \E n \in Finished' : Carried(n, l) > 0
    BY DEF CompletionsAreCounted
  <1> DEFINE f == [n \in Note |-> Carried(n, l)]
  <1>1. /\ SumFunctionOnSet(f, Finished) <= committed[l]
        /\ committed[l] > 0 => \E n \in Finished : Carried(n, l) > 0
    BY DEF CompletionsAreCounted
  <1>2. CASE Keeps
    <2>1. Finished' = Finished /\ committed'[l] = committed[l]
      BY <1>2 DEF Keeps, Finished
    <2> QED  BY <2>1, <1>1
  <1>3. ASSUME NEW s \in Session, CommitsNote(s)
        PROVE  /\ SumFunctionOnSet(f, Finished') <= committed'[l]
               /\ committed'[l] > 0 => \E n \in Finished' : Carried(n, l) > 0
    <2> DEFINE m == target[s]
               c == Carried(m, l)
               a == SumFunctionOnSet(f, Finished)
    <2>1. /\ m \in Note /\ committed[l] \in Nat /\ c \in Nat
          /\ Seen(s, l) = committed[l] + c
          /\ \A n \in Note : Seen(s, n) = IF n = m THEN Done(n) ELSE committed[n]
      BY <1>3, NoteIsCounted DEF CommitsNote
    <2>2. committed'[l] = committed[l] + c
      BY <1>3, <2>1, Tables DEF CommitsNote
    <2>3. Finished' = Finished \union {m}
      <3>1. \A n \in Note : committed'[n] = IF n = m THEN Done(n) ELSE committed[n]
        BY <1>3, <2>1, Tables DEF CommitsNote
      <3> HIDE DEF m
      <3> QED  BY <3>1, <2>1 DEF Finished
    <2>4. \A n \in Note : f[n] \in Nat
      <3>1. ASSUME NEW n \in Note  PROVE Carried(n, l) \in Nat
        <4>1. Len(NoteLines[n]) \in 0..Len(NoteLines[n])
          BY LinesOfNotes
        <4>2. CarriedUpTo(n, l, Len(NoteLines[n])) \in Nat
          BY <4>1, CarriedLineByLine
        <4> QED  BY <4>2 DEF Carried, CarriedUpTo
      <3> QED  BY <3>1
    <2>5. IsFiniteSet(Finished) /\ Finished \subseteq Note
      <3>1. IsFiniteSet(Note) /\ Finished \subseteq Note
        BY FulfilmentAssumption DEF FulfilmentAssumption, Finished
      <3> QED  BY <3>1, FS_Subset
    <2>6. f[m] = c
      BY <2>1
    <2> HIDE DEF f
    <2>7. a \in Nat
      BY <2>4, <2>5, SumNat
    <2>8. SumFunctionOnSet(f, Finished') <= a + c
      <3>1. CASE m \in Finished
        <4>1. Finished' = Finished
          BY <3>1, <2>3
        <4> HIDE DEF c, a
        <4>2. a <= a + c
          BY <2>1, <2>7
        <4> QED  BY <4>1, <4>2 DEF a
      <3>2. CASE m \notin Finished
        <4>1. SumFunctionOnSet(f, Finished \union {m}) = a + f[m]
          <5>1. \A x \in Finished \union {m} : f[x] \in Int
            BY <2>1, <2>4, <2>5
          <5> HIDE DEF m
          <5> QED  BY <5>1, <3>2, <2>5, SumAdd
        <4>2. SumFunctionOnSet(f, Finished') = a + c
          BY <4>1, <2>3, <2>6
        <4> HIDE DEF c, a
        <4> QED  BY <4>2, <2>1, <2>7
      <3> QED  BY <3>1, <3>2
    <2>9. a <= committed[l]
      BY <1>1
    <2>10. SumFunctionOnSet(f, Finished') <= committed'[l]
      <3> DEFINE b == SumFunctionOnSet(f, Finished')
      <3>1. b \in Int
        <4>1. IsFiniteSet(Finished') /\ Finished' \subseteq Note
          BY <2>1, <2>3, <2>5, FS_AddElement
        <4> QED  BY <4>1, <2>4, SumNat
      <3>2. b <= a + c
        BY <2>8
      <3> HIDE DEF a, b, c
      <3> QED  BY <3>1, <3>2, <2>1, <2>2, <2>7, <2>9 DEF b
    <2>11. ASSUME committed'[l] > 0  PROVE \E n \in Finished' : Carried(n, l) > 0
      <3>1. committed[l] > 0 \/ c > 0
        <4> HIDE DEF c
        <4> QED  BY <2>11, <2>1, <2>2
      <3> QED  BY <3>1, <1>1, <2>3
    <2> QED  BY <2>10, <2>11
  <1> QED  BY <1>2, <1>3, CommittedStep

-----------------------------------------------------------------------------
(* The status of an order.                                                 *)

\* What is known of the judged orders, and those judged together, only grows.
LEMMA MetGrows ==
  ASSUME TypeOK, \A s \in Session : Place(s), [Next]_vars
  PROVE  met \subseteq met'
  <1>1. ASSUME NEW s \in Session,
               \/ Rollback(s) \/ CommitsUnjudged(s) \/ UpdateOrder(s)
               \/ ApproveOrder(s) \/ CancelOrder(s)
        PROVE  met' = met
    BY <1>1 DEF Rollback, CommitsUnjudged, Commit, UpdateOrder, ApproveOrder, CancelOrder,
                WriteAndCommit, Idle
  <1>2. ASSUME NEW s \in Session,
               \/ \E o \in Order : BeginApprove(s, o) \/ BeginCancel(s, o)
               \/ \E n \in Note : BeginNote(s, n)
               \/ ReadLines(s) \/ Posts(s) \/ CountLine(s) \/ CompleteNote(s)
        PROVE  met' = met
    BY <1>2 DEF BeginApprove, BeginCancel, BeginNote, ReadLines, Posts, ToOrderLine, CountLine,
                CompleteNote
  <1>3. ASSUME NEW s \in Session, Judges(s)  PROVE met \subseteq met'
    BY <1>3 DEF Judges
  <1>4. ASSUME \/ \E o \in Order : CreateOrder(o) \/ DeleteOrder(o)
               \/ \E n \in Note : CreateNote(n) \/ DeleteNote(n)
               \/ UNCHANGED vars
        PROVE  met' = met
    BY <1>4 DEF CreateOrder, DeleteOrder, CreateNote, DeleteNote, SetStatus, vars
  <1> QED  BY <1>1, <1>2, <1>3, <1>4, Kinds

\* Who judges an order comes from reading it.
LEMMA AtOrder ==
  ASSUME TypeOK, RowsInv, \A s \in Session : SessionInv(s), [Next]_vars,
         NEW s \in Session, pc'[s] = "order"
  PROVE  Untouched(s) \/ Judges(s)
  <1>1. Untouched(s) \/ Advances(s)
    BY SessionStep DEF Writing
  <1>2. ~ (ReadLines(s) \/ Posts(s) \/ CountLine(s) \/ CompleteNote(s))
    BY DEF ReadLines, Posts, ToOrderLine, CountLine, CompleteNote, TypeOK
  <1> QED  BY <1>1, <1>2 DEF Advances

\* Whoever is second to judge an order marks it.
LEMMA MetStep ==
  ASSUME TypeOK, RowsInv, \A s \in Session : SessionInv(s), MetInv, [Next]_vars
  PROVE  MetInv'
  <1>1. /\ met \subseteq met'
        /\ \A s \in Session : pc'[s] = "order" => Untouched(s) \/ Judges(s)
    BY MetGrows, AtOrder DEF SessionInv
  <1>2. ASSUME NEW s \in Session, NEW t \in Session, s # t, Judges(s), pc'[t] = "order",
               NoteOrder[target'[s]] = NoteOrder[target'[t]]
        PROVE  NoteOrder[target'[s]] \in met'
    <2>1. /\ pc' = [pc EXCEPT ![s] = "order"] /\ target' = target
          /\ met' = met \union {q \in {NoteOrder[target[s]]} : \E u \in Session :
                                   pc[u] = "order" /\ NoteOrder[target[u]] = NoteOrder[target[s]]}
      BY <1>2 DEF Judges
    <2>2. pc[t] = "order"
      BY <2>1, <1>2 DEF TypeOK
    <2> QED  BY <2>1, <2>2, <1>2
  <1>3. ASSUME NEW s \in Session, NEW t \in Session, s # t, pc'[s] = "order", pc'[t] = "order",
               NoteOrder[target'[s]] = NoteOrder[target'[t]]
        PROVE  NoteOrder[target'[s]] \in met'
    <2>1. CASE Judges(s)
      BY <2>1, <1>2, <1>3
    <2>2. CASE Judges(t)
      BY <2>2, <1>2, <1>3
    <2>3. CASE Untouched(s) /\ Untouched(t)
      <3>1. /\ pc[s] = "order" /\ target'[s] = target[s]
            /\ pc[t] = "order" /\ target'[t] = target[t]
        BY <2>3, <1>3 DEF Untouched
      <3>2. NoteOrder[target[s]] \in met
        BY <3>1, <1>3 DEF MetInv
      <3> QED  BY <3>1, <3>2, <1>1
    <2> QED  BY <2>1, <2>2, <2>3, <1>1, <1>3
  <1> QED  BY <1>3 DEF MetInv

\* A commit takes nothing off an order line, and leaves those of other orders.
LEMMA LinesGrow ==
  ASSUME TypeOK, RowsInv, NEW s \in Session, SessionInv(s), CommitsNote(s)
  PROVE  /\ \A l \in Line :
              /\ committed[l] \in Nat /\ committed'[l] \in Nat /\ committed'[l] >= committed[l]
              /\ committed'[l] = Seen(s, l)
         /\ \A o \in Order :
              (NoteOrder[target[s]] # o /\ OwnLines(o)) \/ (NoteOrder[target[s]] = o /\ pc[s] = "progress")
                => \A l \in LinesOf(o) : committed'[l] = committed[l]
  <1> DEFINE n == target[s]
  <1>1. /\ n \in Note /\ NoteOrder[n] \in Order
        /\ \A l \in Line :
             /\ committed[l] \in Nat /\ Carried(n, l) \in Nat
             /\ Seen(s, l) = committed[l] + Carried(n, l)
             /\ (\A i \in 1..Len(NoteLines[n]) : NoteLines[n][i].line # l)
                  => Seen(s, l) = committed[l]
    BY NoteIsCounted DEF CommitsNote
  <1>2. \A l \in Line : committed'[l] = Seen(s, l)
    BY Tables DEF CommitsNote
  <1>3. ASSUME NEW l \in Line
        PROVE  /\ committed[l] \in Nat /\ committed'[l] \in Nat /\ committed'[l] >= committed[l]
               /\ committed'[l] = Seen(s, l)
    <2> DEFINE c == Carried(n, l)
    <2>1. committed[l] \in Nat /\ c \in Nat /\ committed'[l] = committed[l] + c
      BY <1>1, <1>2
    <2> HIDE DEF c
    <2> QED  BY <2>1, <1>2
  <1>4. ASSUME NEW o \in Order, NoteOrder[n] # o, OwnLines(o), NEW l \in LinesOf(o)
        PROVE  committed'[l] = committed[l]
    <2>1. l \in Line
      BY DEF LinesOf
    <2>2. \A i \in 1..Len(NoteLines[n]) : NoteLines[n][i].line # l
      BY <1>1, <1>4 DEF OwnLines
    <2> QED  BY <2>1, <2>2, <1>1, <1>2
  <1>5. ASSUME NEW o \in Order, NoteOrder[n] = o, pc[s] = "progress", NEW l \in LinesOf(o)
        PROVE  committed'[l] = committed[l]
    <2>1. Progress(s, o) = "none"
      BY <1>5 DEF CommitsNote
    <2>2. ~ (Seen(s, l) > 0)
      BY <2>1 DEF Progress, Partial
    <2>3. l \in Line
      BY DEF LinesOf
    <2> QED  BY <2>2, <2>3, <1>3
  <1> QED  BY <1>3, <1>4, <1>5

\* A verdict stays true while other transactions commit.
LEMMA VerdictStep ==
  ASSUME TypeOK, RowsInv, \A s \in Session : SessionInv(s), MetInv,
         \A s \in Session : Verdict(s), [Next]_vars
  PROVE  \A s \in Session : Verdict(s)'
  <1> SUFFICES ASSUME NEW t \in Session, pc'[t] = "order"
               PROVE  Verdict(t)'
    BY DEF Verdict
  <1>1. /\ met \subseteq met' /\ TypeOK' /\ (Untouched(t) \/ Judges(t))
        /\ (Keeps \/ \E s \in Session : CommitsNote(s))
    BY MetGrows, SessionStep, AtOrder, CommittedStep DEF SessionInv
  <1>2. /\ \A o \in Order : Partial(o) # "completed" /\ Partial(o) # "none"
        /\ \A o \in Order : LinesOf(o) \subseteq Line
        /\ \A l \in Line : Ordered[l] \in Nat
    BY FulfilmentAssumption DEF Partial, LinesOf, FulfilmentAssumption
  <1>3. \A l \in Line : Seen(t, l) \in Nat /\ Seen(t, l)' \in Nat
    <2>1. \A l \in Line : /\ latest[l] \in Nat /\ committed[l] \in Nat
                          /\ latest'[l] \in Nat /\ committed'[l] \in Nat
      BY <1>1, RowsTyped DEF TypeOK, RowOK
    <2> QED  BY <2>1 DEF Seen
  <1>4. CASE Judges(t)
    <2> DEFINE o == NoteOrder[target[t]]
    <2>1. /\ pc[t] = "progress" /\ Progress(t, o) # "none"
          /\ verdict' = [verdict EXCEPT ![t] = Progress(t, o)]
          /\ UNCHANGED <<rowVars, target>>
      BY <1>4 DEF Judges
    <2>2. verdict'[t] = Progress(t, o) /\ target'[t] = target[t]
      BY <2>1 DEF TypeOK
    <2>3. \A l \in Line : Seen(t, l)' = Seen(t, l)
      BY <2>1 DEF Seen, rowVars
    <2>4. o \in Order
      <3>1. target[t] \in Note
        BY <2>1 DEF SessionInv, Place, Working, Writing
      <3> QED  BY <3>1, FulfilmentAssumption DEF FulfilmentAssumption
    <2>5. /\ Progress(t, o) = "completed" => \A l \in LinesOf(o) : Seen(t, l) >= Ordered[l]
          /\ Progress(t, o) = Partial(o) =>
               /\ \E l \in LinesOf(o) : Seen(t, l) > 0
               /\ \E l \in LinesOf(o) : ~ (Seen(t, l) >= Ordered[l])
      BY <2>4, <1>2 DEF Progress
    <2>6. \A l \in LinesOf(o) : ~ (Seen(t, l) >= Ordered[l]) => Seen(t, l) < Ordered[l]
      BY <2>4, <1>2, <1>3
    <2>7. LinesOf(o) \subseteq Line
      BY <2>4, <1>2
    <2> HIDE DEF o
    <2> QED  BY <2>2, <2>3, <2>5, <2>6, <2>7 DEF Verdict, o
  <1>5. CASE Untouched(t)
    <2> DEFINE o == NoteOrder[target[t]]
    <2>1. /\ pc[t] = "order" /\ target'[t] = target[t] /\ verdict'[t] = verdict[t]
      BY <1>5 DEF Untouched
    <2>2. o \in Order
      <3>1. target[t] \in Note
        BY <2>1 DEF SessionInv, Place, Working, Writing
      <3> QED  BY <3>1, FulfilmentAssumption DEF FulfilmentAssumption
    <2>3. /\ verdict[t] = "completed" => \A l \in LinesOf(o) : Seen(t, l) >= Ordered[l]
          /\ verdict[t] = Partial(o) =>
               /\ \E l \in LinesOf(o) : Seen(t, l) > 0
               /\ OwnLines(o) /\ o \notin met => \E l \in LinesOf(o) : Seen(t, l) < Ordered[l]
      BY <2>1 DEF Verdict
    <2>4. \A l \in Line : /\ holder[l] = t => Seen(t, l)' = Seen(t, l)
                          /\ holder[l] # t => Seen(t, l)' = committed'[l] /\ Seen(t, l) = committed[l]
      BY <1>5, Tables DEF Untouched, Seen
    <2>5. /\ \A l \in Line : Seen(t, l)' >= Seen(t, l)
          /\ OwnLines(o) /\ o \notin met => \A l \in LinesOf(o) : Seen(t, l)' = Seen(t, l)
      <3>1. CASE Keeps
        <4>1. \A l \in Line : Seen(t, l)' = Seen(t, l)
          BY <3>1, <2>4 DEF Keeps
        <4> QED  BY <4>1, <1>2, <1>3, <2>2
      <3>2. ASSUME NEW s \in Session, CommitsNote(s)
            PROVE  /\ \A l \in Line : Seen(t, l)' >= Seen(t, l)
                   /\ OwnLines(o) /\ o \notin met => \A l \in LinesOf(o) : Seen(t, l)' = Seen(t, l)
        <4>1. s # t /\ pc[s] \in {"progress", "order"}
          BY <3>2 DEF CommitsNote
        <4>2. /\ \A l \in Line : committed'[l] >= committed[l]
              /\ (NoteOrder[target[s]] # o /\ OwnLines(o)) \/ (NoteOrder[target[s]] = o /\ pc[s] = "progress")
                   => \A l \in LinesOf(o) : committed'[l] = committed[l]
          BY <3>2, <2>2, LinesGrow
        <4>3. \A l \in Line : Seen(t, l)' >= Seen(t, l)
          BY <4>2, <2>4, <1>3
        <4>4. ASSUME OwnLines(o), o \notin met  PROVE \A l \in LinesOf(o) : Seen(t, l)' = Seen(t, l)
          <5>1. pc[s] = "order" => NoteOrder[target[s]] # o
            BY <4>1, <4>4, <2>1 DEF MetInv
          <5>2. \A l \in LinesOf(o) : committed'[l] = committed[l]
            BY <5>1, <4>1, <4>2, <4>4
          <5> QED  BY <5>2, <2>2, <2>4, <1>2
        <4> QED  BY <4>3, <4>4
      <3> QED  BY <3>1, <3>2, <1>1
    <2>6. verdict[t] = "completed" => \A l \in LinesOf(o) : Seen(t, l)' >= Ordered[l]
      BY <2>2, <2>3, <2>5, <1>2, <1>3
    <2>7. verdict[t] = Partial(o) => \E l \in LinesOf(o) : Seen(t, l)' > 0
      BY <2>2, <2>3, <2>5, <1>2, <1>3
    <2>8. verdict[t] = Partial(o) /\ OwnLines(o) /\ o \notin met'
            => \E l \in LinesOf(o) : Seen(t, l)' < Ordered[l]
      BY <2>3, <2>5, <1>1
    <2> QED  BY <2>1, <2>6, <2>7, <2>8 DEF Verdict
  <1> QED  BY <1>1, <1>4, <1>5

\* The status of an order and its lines go together.
LEMMA StatusStep ==
  ASSUME TypeOK, RowsInv, \A s \in Session : SessionInv(s),
         \A s \in Session : Verdict(s), StatusAgreesWithLines, [Next]_vars
  PROVE  StatusAgreesWithLines'
  <1> DEFINE Full(o, v) == \A l \in LinesOf(o) : v[l] >= Ordered[l]
             Good(o, v, m) ==
               /\ v[o] = "completed" => Full(o, v)
               /\ v[o] = Partial(o) => /\ \E l \in LinesOf(o) : v[l] > 0
                                       /\ Full(o, v) /\ OwnLines(o) => o \in m
  <1> SUFFICES ASSUME NEW o \in Order  PROVE Good(o, committed', met')
    BY DEF StatusAgreesWithLines
  <1>1. /\ met \subseteq met' /\ (Keeps \/ \E s \in Session : CommitsNote(s))
    BY MetGrows, CommittedStep DEF SessionInv
  <1>2. Good(o, committed, met)
    BY DEF StatusAgreesWithLines
  <1>3. /\ Partial(o) \notin {"completed", "draft", "deleted", "approved", "cancelled"}
        /\ LinesOf(o) \subseteq Line /\ \A l \in Line : Ordered[l] \in Nat
    BY FulfilmentAssumption DEF Partial, LinesOf, FulfilmentAssumption
  <1>4. CASE Keeps
    <2>1. \A l \in LinesOf(o) : committed'[l] = committed[l]
      BY <1>3, <1>4 DEF Keeps
    <2>2. committed'[o] = committed[o] \/ committed'[o] \in {"draft", "deleted", "approved", "cancelled"}
      BY <1>4 DEF Keeps
    <2> QED  BY <2>1, <2>2, <1>1, <1>2, <1>3
  <1>5. ASSUME NEW s \in Session, CommitsNote(s)  PROVE Good(o, committed', met')
    <2> DEFINE q == NoteOrder[target[s]]
    <2>1. /\ \A l \in Line : /\ committed[l] \in Nat /\ committed'[l] \in Nat
                             /\ committed'[l] >= committed[l] /\ committed'[l] = Seen(s, l)
          /\ (q # o /\ OwnLines(o)) \/ (q = o /\ pc[s] = "progress")
               => \A l \in LinesOf(o) : committed'[l] = committed[l]
      BY <1>5, LinesGrow
    <2>2. CASE committed'[o] = committed[o] /\ committed[o] # Partial(o)
      <3>1. committed[o] = "completed" => Full(o, committed')
        BY <2>1, <1>2, <1>3
      <3> QED  BY <2>2, <3>1
    <2>3. CASE /\ committed'[o] = committed[o] /\ committed[o] = Partial(o)
               /\ q # o \/ pc[s] = "progress"
      <3>1. \E l \in LinesOf(o) : committed'[l] > 0
        <4>1. PICK l \in LinesOf(o) : committed[l] > 0
          BY <2>3, <1>2
        <4> QED  BY <4>1, <2>1, <1>3
      <3>2. Full(o, committed') /\ OwnLines(o) => o \in met'
        <4>1. OwnLines(o) => \A l \in LinesOf(o) : committed'[l] = committed[l]
          BY <2>1, <2>3
        <4> QED  BY <4>1, <2>3, <1>1, <1>2
      <3> QED  BY <2>3, <3>1, <3>2, <1>3
    <2>4. CASE q = o /\ pc[s] = "order" /\ committed'[o] = verdict[s]
      <3>1. /\ verdict[s] = "completed" => \A l \in LinesOf(o) : Seen(s, l) >= Ordered[l]
            /\ verdict[s] = Partial(o) =>
                 /\ \E l \in LinesOf(o) : Seen(s, l) > 0
                 /\ OwnLines(o) /\ o \notin met => \E l \in LinesOf(o) : Seen(s, l) < Ordered[l]
        BY <2>4 DEF Verdict
      <3>2. \A l \in LinesOf(o) : /\ committed'[l] = Seen(s, l) /\ Ordered[l] \in Nat
                                  /\ Seen(s, l) \in Nat
        BY <2>1, <1>3
      <3>3. verdict[s] = Partial(o) /\ Full(o, committed') /\ OwnLines(o) => o \in met'
        BY <3>1, <3>2, <1>1
      <3> QED  BY <2>4, <3>1, <3>2, <3>3
    <2>5. \/ committed'[o] = committed[o] /\ committed[o] # Partial(o)
          \/ /\ committed'[o] = committed[o] /\ committed[o] = Partial(o)
             /\ q # o \/ pc[s] = "progress"
          \/ q = o /\ pc[s] = "order" /\ committed'[o] = verdict[s]
      BY <1>5 DEF CommitsNote
    <2> QED  BY <2>2, <2>3, <2>4, <2>5
  <1> QED  BY <1>1, <1>4, <1>5

-----------------------------------------------------------------------------
(* Stock against orders: the steps.                                        *)

\* The compared rows are finitely many, and each has an integer weight.
LEMMA ComparedRows ==
  /\ IsFiniteSet(Compared) /\ Compared \subseteq Line \union Dim /\ Compared \subseteq Row
  /\ Linked \subseteq Dim
  /\ \A r \in Compared : Weight(r) \in Int
  /\ \A x \in Linked : Weight(x) = 1
  /\ \A l \in Line : Weight(l) = IF LineOrder[l] \in PurchaseOrder THEN 0 - Unit[l] ELSE Unit[l]
  /\ \A l \in Line : Unit[l] \in Nat
  <1>1. Linked \subseteq Dim
    BY DEF Linked
  <1>2. IsFiniteSet(Linked) /\ IsFiniteSet(Line)
    <2>1. IsFiniteSet(Dim) /\ IsFiniteSet(Line)
      BY FulfilmentAssumption DEF FulfilmentAssumption
    <2> QED  BY <2>1, <1>1, FS_Subset
  <1>3. IsFiniteSet(Compared)
    BY <1>2, FS_Union DEF Compared
  <1>4. Compared \subseteq Line \union Dim /\ Compared \subseteq Row
    BY <1>1 DEF Compared, Row
  <1>5. \A l \in Line : l \notin Linked
    BY <1>1, Tables
  <1>6. \A l \in Line : Unit[l] \in Nat
    BY FulfilmentAssumption DEF FulfilmentAssumption
  <1>7. \A x \in Linked : Weight(x) = 1
    BY DEF Weight
  <1>8. \A l \in Line : Weight(l) = IF LineOrder[l] \in PurchaseOrder THEN 0 - Unit[l] ELSE Unit[l]
    BY <1>5 DEF Weight
  <1>9. \A r \in Compared : Weight(r) \in Int
    <2>1. ASSUME NEW l \in Line  PROVE Weight(l) \in Int
      <3>1. 0 - Unit[l] \in Int /\ Unit[l] \in Int
        BY <1>6
      <3> QED  BY <1>8, <3>1
    <2> QED  BY <2>1, <1>7 DEF Compared
  <1> QED  BY <1>1, <1>3, <1>4, <1>6, <1>7, <1>8, <1>9

\* A weight times an integer is one.
LEMMA Weighed ==
  ASSUME NEW r \in Compared, NEW i \in Int
  PROVE  Weight(r) * i \in Int
  <1> DEFINE w == Weight(r)
  <1>1. w \in Int
    BY ComparedRows
  <1> HIDE DEF w
  <1>2. w * i \in Int
    BY <1>1
  <1> QED  BY <1>2 DEF w

\* The gap depends only on the compared rows.
LEMMA GapSame ==
  ASSUME NEW f, NEW g, \A r \in Compared : f[r] \in Int /\ f[r] = g[r]
  PROVE  Gap(f) = Gap(g)
  <1> DEFINE F == [r \in Compared |-> Weight(r) * f[r]]
             G == [r \in Compared |-> Weight(r) * g[r]]
  <1>1. \A r \in Compared : F[r] \in Int /\ F[r] = G[r]
    BY Weighed
  <1> HIDE DEF F, G
  <1>2. SumFunctionOnSet(F, Compared) = SumFunctionOnSet(G, Compared)
    BY <1>1, ComparedRows, SumSame
  <1> QED  BY <1>2 DEF Gap, F, G

\* A change in one row counts with the weight of the row.
LEMMA GapUpdate ==
  ASSUME NEW f, NEW g, NEW y \in Compared,
         \A r \in Compared : f[r] \in Int /\ g[r] \in Int,
         \A r \in Compared \ {y} : g[r] = f[r]
  PROVE  Gap(f) \in Int /\ Gap(g) = Gap(f) + Weight(y) * (g[y] - f[y])
  <1> DEFINE F == [r \in Compared |-> Weight(r) * f[r]]
             G == [r \in Compared |-> Weight(r) * g[r]]
             w == Weight(y)
             a == f[y]
             b == g[y]
             z == SumFunctionOnSet(F, Compared)
  <1>1. \A r \in Compared : F[r] \in Int /\ G[r] \in Int
    BY Weighed
  <1>2. \A r \in Compared \ {y} : G[r] = F[r]
    OBVIOUS
  <1>3. F[y] = w * a /\ G[y] = w * b
    OBVIOUS
  <1>4. w \in Int /\ a \in Int /\ b \in Int
    BY ComparedRows
  <1> HIDE DEF F, G, w, a, b
  <1>5. SumFunctionOnSet(G, Compared) = z + (G[y] - F[y])
    BY <1>1, <1>2, ComparedRows, SumUpdate
  <1>6. z \in Int
    BY <1>1, ComparedRows, SumType
  <1>7. G[y] - F[y] = w * (b - a)
    BY <1>3, <1>4
  <1>8. z + (G[y] - F[y]) = z + w * (b - a)
    BY <1>7
  <1> QED  BY <1>5, <1>6, <1>8 DEF Gap, F, G, w, a, b

\* What holds of every compared row holds of the gaps.
LEMMA GapLinear ==
  ASSUME NEW f, NEW g, NEW h, NEW k,
         \A r \in Compared : /\ f[r] \in Int /\ g[r] \in Int /\ h[r] \in Int /\ k[r] \in Int
                             /\ f[r] + g[r] = h[r] + k[r]
  PROVE  Gap(f) + Gap(g) = Gap(h) + Gap(k)
  <1> DEFINE W(v) == [r \in Compared |-> Weight(r) * v[r]]
  <1>1. ASSUME NEW r \in Compared
        PROVE  /\ W(f)[r] \in Int /\ W(g)[r] \in Int /\ W(h)[r] \in Int /\ W(k)[r] \in Int
               /\ W(f)[r] + W(g)[r] = W(h)[r] + W(k)[r]
    <2> DEFINE w == Weight(r)
               a == f[r]
               b == g[r]
               c == h[r]
               d == k[r]
    <2>1. w \in Int /\ a \in Int /\ b \in Int /\ c \in Int /\ d \in Int /\ a + b = c + d
      BY ComparedRows
    <2>2. W(f)[r] = w * a /\ W(g)[r] = w * b /\ W(h)[r] = w * c /\ W(k)[r] = w * d
      OBVIOUS
    <2> HIDE DEF w, a, b, c, d, W
    <2>3. w * a \in Int /\ w * b \in Int /\ w * c \in Int /\ w * d \in Int
      BY <2>1
    <2>4. w * a + w * b = w * (a + b) /\ w * c + w * d = w * (c + d)
      BY <2>1
    <2> QED  BY <2>1, <2>2, <2>3, <2>4
  <1> HIDE DEF W
  <1>2. SumFunctionOnSet(W(f), Compared) + SumFunctionOnSet(W(g), Compared)
          = SumFunctionOnSet(W(h), Compared) + SumFunctionOnSet(W(k), Compared)
    BY <1>1, ComparedRows, SumLinear
  <1> QED  BY <1>2 DEF Gap, W

\* The compared rows hold quantities, whoever sees them.
LEMMA QuantitiesSeen ==
  ASSUME TypeOK
  PROVE  \A r \in Line \union Dim : /\ latest[r] \in Nat /\ committed[r] \in Nat
                                    /\ \A s \in Session : Seen(s, r) \in Nat /\ SeenBy(s)[r] = Seen(s, r)
  <1>1. \A r \in Line \union Dim : latest[r] \in Nat /\ committed[r] \in Nat /\ r \in Row
    BY RowsTyped, Tables DEF TypeOK
  <1> QED  BY <1>1 DEF Seen, SeenBy

\* What a session sees changes only by what it writes.
LEMMA SeenWrite ==
  ASSUME RowsInv, NEW s \in Session, NEW x \in Row, NEW d, committed' = committed,
         holder[x] = NoSession \/ holder[x] = s,
         \A q \in Row : latest'[q] = IF q = x THEN latest[q] + d ELSE latest[q],
         \A q \in Row : holder'[q] = IF q = x THEN s ELSE holder[q]
  PROVE  \A q \in Row : Seen(s, q)' = IF q = x THEN Seen(s, q) + d ELSE Seen(s, q)
  <1> SUFFICES ASSUME NEW q \in Row
               PROVE  Seen(s, q)' = IF q = x THEN Seen(s, q) + d ELSE Seen(s, q)
    OBVIOUS
  <1>1. CASE q = x
    <2>1. Seen(s, x) = latest[x]
      BY DEF Seen, RowsInv
    <2> QED  BY <1>1, <2>1 DEF Seen
  <1>2. CASE q # x
    BY <1>2 DEF Seen
  <1> QED  BY <1>1, <1>2

\* A stock movement of an order line opens a gap of its size.
LEMMA PostsGap ==
  ASSUME Comparable, TypeOK, RowsInv, NEW s \in Session, SessionInv(s), TypeOK',
         Gap(SeenBy(s)) = 0, Posts(s)
  PROVE  Gap(SeenBy(s)') = InFlight(s)'
  <1> DEFINE n == target[s]
             x == Cur(s).dim
             e == NoteLines[n][Past(s) + 1]
             f == SeenBy(s)
             g == SeenBy(s)'
  <1>1. /\ RowsOK /\ Place(s) /\ todo \in [Session -> Seq(NoteLine)]
        /\ pc[s] = "stock" /\ todo[s] # <<>>
    BY DEF RowsOK, TypeOK, SessionInv, Posts, AtLine
  <1>2. /\ n \in Note /\ Past(s) + 1 \in 1..Len(NoteLines[n]) /\ Cur(s) = e
    BY <1>1, NextLine DEF Writing
  <1>3. /\ x \in Dim /\ x \in Row /\ committed' = committed
        /\ \A q \in Row : latest'[q] = IF q = x THEN latest[q] + Delta(s) ELSE latest[q]
        /\ \A q \in Row : holder'[q] = IF q = x THEN s ELSE holder[q]
        /\ holder[x] = NoSession \/ holder[x] = s
    BY <1>1, PostsRows, Tables
  <1>4. \A q \in Row : Seen(s, q)' = IF q = x THEN Seen(s, q) + Delta(s) ELSE Seen(s, q)
    <2> DEFINE d == Delta(s)
    <2> HIDE DEF d, x
    <2>1. \A q \in Row : Seen(s, q)' = IF q = x THEN Seen(s, q) + d ELSE Seen(s, q)
      BY <1>3, SeenWrite DEF d
    <2> QED  BY <2>1 DEF d
  <1>5. \A r \in Compared : /\ f[r] \in Int /\ g[r] \in Int
                            /\ g[r] = IF r = x THEN f[r] + Delta(s) ELSE f[r]
    <2>1. \A r \in Compared : r \in Row /\ r \in Line \union Dim
      BY ComparedRows
    <2>2. \A r \in Compared : f[r] = Seen(s, r) /\ Seen(s, r) \in Nat
      BY <2>1, QuantitiesSeen
    <2>3. \A r \in Compared : g[r] = Seen(s, r)' /\ Seen(s, r)' \in Nat
      <3>1. \A r \in Line \union Dim : latest'[r] \in Nat /\ committed'[r] \in Nat
        BY RowsTyped DEF TypeOK, RowOK
      <3> QED  BY <2>1, <3>1 DEF SeenBy, Seen
    <2>4. \A r \in Compared : Seen(s, r)' = IF r = x THEN Seen(s, r) + Delta(s) ELSE Seen(s, r)
      BY <1>4, <2>1
    <2> HIDE DEF f, g, x
    <2> QED  BY <2>2, <2>3, <2>4
  <1>6. /\ pc'[s] = IF Cur(s).line = NoLine THEN "stock" ELSE "count"
        /\ Cur(s).line # NoLine => todo'[s] = todo[s] /\ target'[s] = n
    BY DEF Posts, ToOrderLine, TypeOK
  <1>7. CASE Cur(s).line = NoLine
    <2>1. x \notin Linked
      BY <1>2, <1>7 DEF Linked
    <2>2. x \notin Compared
      BY <1>3, <2>1, Tables DEF Compared
    <2>3. \A r \in Compared : f[r] \in Int /\ f[r] = g[r]
      BY <1>5, <2>2
    <2> HIDE DEF f, g
    <2>4. Gap(f) = Gap(g)
      BY <2>3, GapSame
    <2> QED  BY <2>4, <1>6, <1>7 DEF f, g, InFlight
  <1>8. CASE Cur(s).line # NoLine
    <2>1. x \in Linked
      BY <1>2, <1>8 DEF Comparable
    <2>2. x \in Compared /\ Weight(x) = 1
      BY <2>1, ComparedRows DEF Compared
    <2>3. Base(s) \in Nat /\ Delta(s) \in Int
      <3>1. e.qty * e.factor \in Nat
        BY <1>2, LinesOfNotes
      <3>2. Base(s) \in Nat
        BY <3>1, <1>2 DEF Base
      <3>3. 0 - Base(s) \in Int
        BY <3>2
      <3> QED  BY <3>2, <3>3 DEF Delta
    <2>4. InFlight(s)' = Delta(s)
      <3>1. Base(s)' = Base(s)
        BY <1>6, <1>8 DEF Base, Cur
      <3> QED  BY <3>1, <1>6, <1>8 DEF InFlight, Delta
    <2> DEFINE d == Delta(s)
    <2>5. /\ \A r \in Compared : f[r] \in Int /\ g[r] \in Int
          /\ \A r \in Compared \ {x} : g[r] = f[r]
          /\ g[x] = f[x] + d /\ d \in Int
      BY <1>5, <2>2, <2>3
    <2> HIDE DEF f, g, x, d
    <2>6. Gap(f) \in Int /\ Gap(g) = Gap(f) + Weight(x) * (g[x] - f[x])
      BY <2>2, <2>5, GapUpdate
    <2>7. g[x] - f[x] = d
      BY <2>2, <2>5
    <2>8. Gap(f) = 0
      BY DEF f
    <2>9. Gap(g) = d
      BY <2>2, <2>5, <2>6, <2>7, <2>8
    <2> QED  BY <2>9, <2>4 DEF g, d
  <1> QED  BY <1>7, <1>8

\* Counting the line on its order closes the gap again.
LEMMA CountLineGap ==
  ASSUME Comparable, TypeOK, RowsInv, NEW s \in Session, SessionInv(s), TypeOK',
         Gap(SeenBy(s)) = InFlight(s), CountLine(s)
  PROVE  Gap(SeenBy(s)') = InFlight(s)'
  <1> DEFINE n == target[s]
             x == Cur(s).line
             e == NoteLines[n][Past(s) + 1]
             f == SeenBy(s)
             g == SeenBy(s)'
             q == e.qty
             u == Unit[x]
             w == Weight(x)
  <1>1. /\ RowsOK /\ Place(s) /\ todo \in [Session -> Seq(NoteLine)]
        /\ pc[s] = "count" /\ todo[s] # <<>> /\ pc'[s] = "stock"
    BY DEF RowsOK, TypeOK, SessionInv, CountLine, Place
  <1>2. /\ n \in Note /\ Past(s) + 1 \in 1..Len(NoteLines[n]) /\ Cur(s) = e
    BY <1>1, NextLine DEF Writing
  <1>3. /\ x \in Line /\ x \in Row /\ committed' = committed
        /\ \A r \in Row : latest'[r] = IF r = x THEN latest[r] + q ELSE latest[r]
        /\ \A r \in Row : holder'[r] = IF r = x THEN s ELSE holder[r]
        /\ holder[x] = NoSession \/ holder[x] = s
    BY <1>1, <1>2, CountLineRows, Tables
  <1>4. /\ q \in Nat /\ e.factor = u /\ x = e.line /\ x # NoLine
    <2>1. q \in Nat
      BY <1>2, LinesOfNotes
    <2>2. x = e.line /\ x # NoLine
      BY <1>1, <1>2 DEF Place
    <2>3. e.factor = Unit[e.line]
      BY <1>2, <2>2 DEF Comparable
    <2> QED  BY <2>1, <2>2, <2>3
  <1>5. u \in Nat /\ w = IF LineOrder[x] \in PurchaseOrder THEN 0 - u ELSE u
    BY <1>3, ComparedRows
  <1>6. InFlight(s) = (IF n \in Grn THEN q * u ELSE 0 - q * u) /\ InFlight(s)' = 0
    BY <1>1, <1>2, <1>4 DEF InFlight, Base
  <1>7. n \in Grn <=> LineOrder[x] \in PurchaseOrder
    <2>1. LineOrder[x] \in (IF n \in Grn THEN PurchaseOrder ELSE SalesOrder)
      BY <1>2, <1>4, FulfilmentAssumption DEF FulfilmentAssumption
    <2>2. PurchaseOrder \intersect SalesOrder = {}
      BY FulfilmentAssumption DEF FulfilmentAssumption
    <2> QED  BY <2>1, <2>2
  <1>8. \A r \in Row : Seen(s, r)' = IF r = x THEN Seen(s, r) + q ELSE Seen(s, r)
    <2> HIDE DEF x, q
    <2> QED  BY <1>3, SeenWrite
  <1>9. /\ x \in Compared
        /\ \A r \in Compared : f[r] \in Int /\ g[r] \in Int
        /\ \A r \in Compared \ {x} : g[r] = f[r]
        /\ g[x] = f[x] + q
    <2>1. x \in Compared /\ \A r \in Compared : r \in Row /\ r \in Line \union Dim
      BY <1>3, ComparedRows DEF Compared
    <2>2. \A r \in Compared : f[r] = Seen(s, r) /\ Seen(s, r) \in Nat
      BY <2>1, QuantitiesSeen
    <2>3. \A r \in Compared : g[r] = Seen(s, r)' /\ Seen(s, r)' \in Nat
      <3>1. \A r \in Line \union Dim : latest'[r] \in Nat /\ committed'[r] \in Nat
        BY RowsTyped DEF TypeOK, RowOK
      <3> QED  BY <2>1, <3>1 DEF SeenBy, Seen
    <2>4. \A r \in Compared : Seen(s, r)' = IF r = x THEN Seen(s, r) + q ELSE Seen(s, r)
      BY <1>8, <2>1
    <2> HIDE DEF f, g, x, q
    <2> QED  BY <2>1, <2>2, <2>3, <2>4
  <1> HIDE DEF f, g, x, q
  <1>10. Gap(f) \in Int /\ Gap(g) = Gap(f) + w * (g[x] - f[x])
    BY <1>9, GapUpdate
  <1>11. g[x] - f[x] = q
    BY <1>4, <1>9
  <1>12. Gap(f) = InFlight(s)
    BY DEF f
  <1> HIDE DEF w, u, n, e
  <1>13. Gap(f) + w * q = 0
    <2>1. CASE n \in Grn
      BY <2>1, <1>4, <1>5, <1>6, <1>7, <1>12
    <2>2. CASE n \notin Grn
      BY <2>2, <1>4, <1>5, <1>6, <1>7, <1>12
    <2> QED  BY <2>1, <2>2
  <1>14. Gap(g) = 0
    BY <1>10, <1>11, <1>13
  <1> QED  BY <1>6, <1>14 DEF g

\* Stock and orders stay together, for everyone who looks.
LEMMA GapStep ==
  ASSUME TypeOK, RowsInv, \A s \in Session : SessionInv(s), GapInv, [Next]_vars
  PROVE  GapInv'
  <1> SUFFICES ASSUME Comparable
               PROVE  /\ Gap(committed') = 0
                      /\ \A t \in Session : pc'[t] \in Writing => Gap(SeenBy(t)') = InFlight(t)'
    BY DEF GapInv, Comparable, Linked
  <1>1. /\ TypeOK' /\ (Keeps \/ \E s \in Session : CommitsNote(s))
        /\ \A s \in Session : Untouched(s) \/ Advances(s) \/ pc'[s] \notin Writing
    BY SessionStep, CommittedStep
  <1>2. /\ Gap(committed) = 0
        /\ \A t \in Session : pc[t] \in Writing => Gap(SeenBy(t)) = InFlight(t)
    BY DEF GapInv
  <1>3. \A r \in Compared :
          /\ r \in Line \union Dim /\ r \in Row \ Order
          /\ latest[r] \in Int /\ committed[r] \in Int
          /\ latest'[r] \in Int /\ committed'[r] \in Int
          /\ \A t \in Session : /\ Seen(t, r) \in Int /\ SeenBy(t)[r] = Seen(t, r)
                                /\ SeenBy(t)'[r] = IF holder'[r] = t THEN latest'[r] ELSE committed'[r]
    <2>1. \A r \in Compared : r \in Line \union Dim /\ r \in Row \ Order
      BY ComparedRows, Tables
    <2>2. \A r \in Line \union Dim : latest'[r] \in Nat /\ committed'[r] \in Nat
      BY <1>1, RowsTyped DEF TypeOK, RowOK
    <2>3. \A r \in Compared : \A t \in Session :
            SeenBy(t)'[r] = IF holder'[r] = t THEN latest'[r] ELSE committed'[r]
      BY <2>1 DEF SeenBy, Seen
    <2>4. \A r \in Compared : \A t \in Session :
            /\ latest[r] \in Nat /\ committed[r] \in Nat
            /\ Seen(t, r) \in Nat /\ SeenBy(t)[r] = Seen(t, r)
      BY <2>1, QuantitiesSeen
    <2>5. \A r \in Compared : latest[r] \in Nat /\ committed[r] \in Nat
      BY <2>1, QuantitiesSeen
    <2> QED  BY <2>1, <2>2, <2>3, <2>4, <2>5
  <1>4. ASSUME NEW s \in Session, CommitsNote(s)
        PROVE  /\ \A r \in Compared : committed'[r] = Seen(s, r)
               /\ Gap(SeenBy(s)) = 0
    <2>1. pc[s] \in Writing /\ pc[s] # "count"
      BY <1>4 DEF CommitsNote, Writing
    <2>2. Gap(SeenBy(s)) = 0
      BY <2>1, <1>2 DEF InFlight
    <2> QED  BY <2>2, <1>3, <1>4 DEF CommitsNote
  <1>5. Gap(committed') = 0
    <2>1. CASE Keeps
      <3>1. \A r \in Compared : committed[r] \in Int /\ committed[r] = committed'[r]
        BY <2>1, <1>3 DEF Keeps
      <3>2. Gap(committed) = Gap(committed')
        BY <3>1, GapSame
      <3> QED  BY <3>2, <1>2
    <2>2. ASSUME NEW s \in Session, CommitsNote(s)  PROVE Gap(committed') = 0
      <3> DEFINE f == SeenBy(s)
                 g == committed'
      <3>1. Gap(f) = 0
        BY <2>2, <1>4
      <3>2. \A r \in Compared : f[r] \in Int /\ f[r] = g[r]
        BY <2>2, <1>3, <1>4
      <3> HIDE DEF f, g
      <3>3. Gap(f) = Gap(g)
        BY <3>2, GapSame
      <3> QED  BY <3>1, <3>3 DEF g
    <2> QED  BY <2>1, <2>2, <1>1
  <1>6. ASSUME NEW t \in Session, pc'[t] \in Writing, Untouched(t)
        PROVE  Gap(SeenBy(t)') = InFlight(t)'
    <2> DEFINE f == SeenBy(t)
               g == SeenBy(t)'
    <2>1. pc'[t] = pc[t] /\ target'[t] = target[t] /\ todo'[t] = todo[t]
      BY <1>6 DEF Untouched
    <2>2. InFlight(t)' = InFlight(t)
      BY <2>1 DEF InFlight, Base, Cur
    <2>3. Gap(f) = InFlight(t)
      BY <2>1, <1>2, <1>6
    <2>4. \A r \in Compared : /\ holder[r] = t => g[r] = latest[r] /\ f[r] = latest[r]
                              /\ holder[r] # t => g[r] = committed'[r] /\ f[r] = committed[r]
      BY <1>3, <1>6 DEF Untouched, Seen
    <2>5. \A r \in Compared : f[r] \in Int /\ g[r] \in Int /\ committed[r] \in Int
      BY <1>3, <2>4
    <2>6. CASE Keeps
      <3>1. \A r \in Compared : f[r] \in Int /\ f[r] = g[r]
        BY <2>4, <2>5, <2>6, <1>3 DEF Keeps
      <3> HIDE DEF f, g
      <3>2. Gap(f) = Gap(g)
        BY <3>1, GapSame
      <3> QED  BY <3>2, <2>2, <2>3 DEF g
    <2>7. ASSUME NEW s \in Session, CommitsNote(s)  PROVE Gap(g) = InFlight(t)'
      <3> DEFINE h == SeenBy(s)
                 k == committed
      <3>1. s # t
        <4>1. pc'[s] = "idle"
          BY <2>7 DEF CommitsNote
        <4> QED  BY <4>1, <1>6 DEF Writing
      <3>2. \A r \in Compared : committed'[r] = h[r] /\ h[r] \in Int
        BY <2>7, <1>3, <1>4
      <3>3. \A r \in Compared : holder[r] = t => h[r] = committed[r]
        BY <3>1, <1>3 DEF Seen
      <3>4. \A r \in Compared :
              /\ g[r] \in Int /\ k[r] \in Int /\ f[r] \in Int /\ h[r] \in Int
              /\ g[r] + k[r] = f[r] + h[r]
        <4> SUFFICES ASSUME NEW r \in Compared  PROVE g[r] + k[r] = f[r] + h[r]
          BY <2>5, <3>2
        <4>1. CASE holder[r] = t
          BY <4>1, <2>4, <3>3
        <4>2. CASE holder[r] # t
          <5> DEFINE a == committed[r]
                     b == h[r]
          <5>1. g[r] = b /\ f[r] = a /\ a \in Int /\ b \in Int /\ k[r] = a
            BY <4>2, <2>4, <2>5, <3>2
          <5> HIDE DEF a, b, f, g, k
          <5>2. g[r] + k[r] = f[r] + b
            BY <5>1
          <5> QED  BY <5>2 DEF b
        <4> QED  BY <4>1, <4>2
      <3>5. Gap(h) = 0 /\ Gap(k) = 0
        BY <2>7, <1>2, <1>4
      <3>6. \A r \in Compared : g[r] \in Int
        BY <2>5
      <3> HIDE DEF f, g, h, k
      <3>7. Gap(g) + Gap(k) = Gap(f) + Gap(h)
        BY <3>4, GapLinear
      <3>8. Gap(g) \in Int /\ Gap(f) \in Int
        <4>1. ASSUME NEW v, \A r \in Compared : v[r] \in Int  PROVE Gap(v) \in Int
          <5> DEFINE F == [r \in Compared |-> Weight(r) * v[r]]
          <5>1. \A r \in Compared : F[r] \in Int
            BY <4>1, Weighed
          <5> HIDE DEF F
          <5>2. SumFunctionOnSet(F, Compared) \in Int
            BY <5>1, ComparedRows, SumType
          <5> QED  BY <5>2 DEF Gap, F
        <4> QED  BY <4>1, <3>4
      <3>9. Gap(g) = Gap(f)
        BY <3>5, <3>7, <3>8
      <3> QED  BY <3>9, <2>2, <2>3
    <2> QED  BY <2>6, <2>7, <1>1
  <1>7. ASSUME NEW s \in Session, ReadLines(s)  PROVE Gap(SeenBy(s)') = InFlight(s)'
    <2> DEFINE g == SeenBy(s)'
    <2>1. /\ pc[s] = "lines" /\ pc'[s] = "stock" /\ UNCHANGED rowVars
      BY <1>7 DEF ReadLines, TypeOK
    <2>2. \A r \in Row : holder[r] # s
      BY <2>1 DEF SessionInv, Holds, Writing
    <2>3. \A r \in Compared : committed[r] \in Int /\ committed[r] = g[r]
      BY <2>1, <2>2, <1>3 DEF rowVars
    <2> HIDE DEF g
    <2>4. Gap(committed) = Gap(g)
      BY <2>3, GapSame
    <2> QED  BY <2>1, <2>4, <1>2 DEF g, InFlight
  <1>8. ASSUME NEW s \in Session, CompleteNote(s) \/ Judges(s)
        PROVE  Gap(SeenBy(s)') = InFlight(s)'
    <2> DEFINE f == SeenBy(s)
               g == SeenBy(s)'
    <2>1. pc[s] \in {"stock", "progress"} /\ pc'[s] \in {"progress", "order"}
      BY <1>8 DEF CompleteNote, AtHeader, Judges, TypeOK
    <2>2. Gap(f) = 0 /\ InFlight(s)' = 0
      BY <2>1, <1>2 DEF InFlight, Writing
    <2>3. \A r \in Compared : latest'[r] = latest[r] /\ holder'[r] = holder[r] /\ committed'[r] = committed[r]
      <3>1. CASE CompleteNote(s)
        <4>1. RowsOK /\ Place(s)
          BY DEF RowsOK, TypeOK, SessionInv
        <4> QED  BY <3>1, <4>1, <1>3, CompleteNoteRows, Tables
      <3>2. CASE Judges(s)
        BY <3>2 DEF Judges, rowVars
      <3> QED  BY <3>1, <3>2, <1>8
    <2>4. \A r \in Compared : f[r] \in Int /\ f[r] = g[r]
      BY <2>3, <1>3 DEF Seen
    <2> HIDE DEF f, g
    <2>5. Gap(f) = Gap(g)
      BY <2>4, GapSame
    <2> QED  BY <2>2, <2>5 DEF g
  <1>9. ASSUME NEW s \in Session, Posts(s)  PROVE Gap(SeenBy(s)') = InFlight(s)'
    <2>1. pc[s] = "stock"
      BY <1>9 DEF Posts, AtLine
    <2>2. Gap(SeenBy(s)) = 0
      BY <2>1, <1>2 DEF InFlight, Writing
    <2> QED  BY <2>2, <1>1, <1>9, PostsGap
  <1>10. ASSUME NEW s \in Session, CountLine(s)  PROVE Gap(SeenBy(s)') = InFlight(s)'
    <2>1. pc[s] = "count"
      BY <1>10 DEF CountLine
    <2>2. Gap(SeenBy(s)) = InFlight(s)
      BY <2>1, <1>2 DEF Writing
    <2> QED  BY <2>2, <1>1, <1>10, CountLineGap
  <1>11. ASSUME NEW t \in Session, pc'[t] \in Writing  PROVE Gap(SeenBy(t)') = InFlight(t)'
    BY <1>1, <1>6, <1>7, <1>8, <1>9, <1>10, <1>11 DEF Advances
  <1> QED  BY <1>5, <1>11

\* No gap means that stock is what the orders say.
LEMMA NoGap ==
  ASSUME TypeOK, GapInv
  PROVE  StockAgreesWithOrders
  <1> DEFINE F == [r \in Compared |-> Weight(r) * committed[r]]
             B == [l \in Line |-> committed[l] * Unit[l]]
             P == {l \in Line : LineOrder[l] \in PurchaseOrder}
             S == {l \in Line : LineOrder[l] \in SalesOrder}
             Z == [l \in Line |-> 0]
             Sum(f, T) == SumFunctionOnSet(f, T)
  <1> SUFFICES ASSUME Comparable
               PROVE  Sum(committed, Linked) = Sum(B, P) - Sum(B, S)
    BY DEF StockAgreesWithOrders
  <1>1. Sum(F, Compared) = 0
    BY DEF GapInv, Gap
  <1>2. /\ IsFiniteSet(Linked) /\ IsFiniteSet(P) /\ IsFiniteSet(S)
        /\ Compared = Linked \union (P \union S)
        /\ Linked \intersect (P \union S) = {} /\ P \intersect S = {}
    <2>1. P \union S = Line
      BY FulfilmentAssumption DEF FulfilmentAssumption, Order
    <2>2. IsFiniteSet(Line) /\ IsFiniteSet(Dim) /\ PurchaseOrder \intersect SalesOrder = {}
      BY FulfilmentAssumption DEF FulfilmentAssumption
    <2>3. Linked \subseteq Dim /\ Linked \intersect Line = {}
      BY ComparedRows, Tables
    <2> QED  BY <2>1, <2>2, <2>3, FS_Subset DEF Compared
  <1>3. \A r \in Compared : F[r] \in Int
    <2>1. \A r \in Compared : committed[r] \in Int
      BY ComparedRows, QuantitiesSeen
    <2> QED  BY <2>1, Weighed
  <1>4. \A l \in Line : /\ committed[l] \in Nat /\ Unit[l] \in Nat /\ B[l] \in Nat
                        /\ B[l] = committed[l] * Unit[l]
    <2>1. \A l \in Line : committed[l] \in Nat /\ Unit[l] \in Nat
      BY ComparedRows, QuantitiesSeen
    <2> QED  BY <2>1
  <1>5. \A x \in Linked : F[x] = committed[x]
    <2>1. \A x \in Linked : x \in Compared /\ Weight(x) = 1 /\ committed[x] \in Nat
      BY ComparedRows, QuantitiesSeen DEF Compared
    <2> QED  BY <2>1
  <1>6. \A l \in P : F[l] + B[l] = 0 /\ F[l] \in Int /\ B[l] \in Int /\ Z[l] = 0
    <2> SUFFICES ASSUME NEW l \in P  PROVE F[l] + B[l] = 0 /\ F[l] \in Int /\ B[l] \in Int /\ Z[l] = 0
      OBVIOUS
    <2> DEFINE u == Unit[l]
               c == committed[l]
    <2>1. F[l] = (0 - u) * c /\ B[l] = c * u /\ c \in Nat /\ u \in Nat /\ Z[l] = 0
      BY <1>2, <1>4, ComparedRows
    <2> HIDE DEF u, c, F, B, Z
    <2> QED  BY <2>1
  <1>7. \A l \in S : F[l] = B[l] /\ F[l] \in Int
    <2> SUFFICES ASSUME NEW l \in S  PROVE F[l] = B[l] /\ F[l] \in Int
      OBVIOUS
    <2> DEFINE u == Unit[l]
               c == committed[l]
    <2>1. LineOrder[l] \notin PurchaseOrder
      BY FulfilmentAssumption DEF FulfilmentAssumption
    <2>2. F[l] = u * c /\ B[l] = c * u /\ c \in Nat /\ u \in Nat
      BY <1>2, <1>4, <2>1, ComparedRows
    <2> HIDE DEF u, c, F, B
    <2> QED  BY <2>2
  <1> HIDE DEF F, B, P, S, Z
  <1>8. \A x \in Linked \union (P \union S) : F[x] \in Int
    BY <1>2, <1>3
  <1>9. Sum(F, Compared) = Sum(F, Linked) + (Sum(F, P) + Sum(F, S))
    <2>1. IsFiniteSet(P \union S)
      BY <1>2, FS_Union
    <2>2. SumFunctionOnSet(F, Linked \union (P \union S))
            = SumFunctionOnSet(F, Linked) + SumFunctionOnSet(F, P \union S)
      <3> DEFINE T == P \union S
      <3>1. IsFiniteSet(T) /\ Linked \intersect T = {} /\ \A x \in Linked \union T : F[x] \in Int
        BY <2>1, <1>2, <1>8
      <3> HIDE DEF T
      <3>2. SumFunctionOnSet(F, Linked \union T) = SumFunctionOnSet(F, Linked) + SumFunctionOnSet(F, T)
        BY <3>1, <1>2, SumUnion
      <3> QED  BY <3>2 DEF T
    <2>3. SumFunctionOnSet(F, P \union S) = SumFunctionOnSet(F, P) + SumFunctionOnSet(F, S)
      BY <1>2, <1>8, SumUnion
    <2> QED  BY <2>2, <2>3, <1>2
  <1>10. SumFunctionOnSet(F, Linked) = SumFunctionOnSet(committed, Linked)
    BY <1>2, <1>5, <1>8, SumSame
  <1>11. SumFunctionOnSet(F, S) = SumFunctionOnSet(B, S)
    BY <1>2, <1>7, SumSame
  <1>12. SumFunctionOnSet(F, P) + SumFunctionOnSet(B, P) = 0
    <2>1. SumFunctionOnSet(F, P) + SumFunctionOnSet(B, P)
            = SumFunctionOnSet(Z, P) + SumFunctionOnSet(Z, P)
      <3>1. \A l \in P : /\ F[l] \in Int /\ B[l] \in Int /\ Z[l] \in Int /\ Z[l] \in Int
                         /\ F[l] + B[l] = Z[l] + Z[l]
        BY <1>6
      <3> QED  BY <3>1, <1>2, SumLinear
    <2>2. SumFunctionOnSet(Z, P) = 0
      BY <1>2, <1>6, SumZero
    <2> QED  BY <2>1, <2>2
  <1>13. /\ Sum(F, Linked) \in Int /\ Sum(F, P) \in Int /\ Sum(F, S) \in Int
         /\ Sum(B, P) \in Int /\ Sum(B, S) \in Int
    <2>1. /\ \A x \in Linked : F[x] \in Int
          /\ \A x \in P : F[x] \in Int /\ B[x] \in Int
          /\ \A x \in S : F[x] \in Int /\ B[x] \in Int
      BY <1>6, <1>7, <1>8
    <2> QED  BY <2>1, <1>2, SumType
  <1> DEFINE a == Sum(F, Linked)
             b == Sum(F, P)
             c == Sum(F, S)
             d == Sum(B, P)
  <1>14. a + (b + c) = 0 /\ b + d = 0 /\ a \in Int /\ b \in Int /\ c \in Int /\ d \in Int
    BY <1>1, <1>9, <1>12, <1>13
  <1>15. a = Sum(committed, Linked) /\ c = Sum(B, S)
    BY <1>10, <1>11
  <1> HIDE DEF a, b, c, d
  <1>16. a = d - c
    BY <1>14
  <1> QED  BY <1>15, <1>16 DEF d

-----------------------------------------------------------------------------
(* The theorems.                                                           *)

\* The invariant holds when there is nothing but orders and notes to come.
LEMMA Initially ==
  ASSUME Init
  PROVE  IInv /\ GapInv
  <1>1. PICK w \in Workloads : Begin(w)
    BY DEF Init
  <1>2. /\ latest = [r \in Row |-> IF r \in Line \union Dim THEN 0
                                   ELSE IF r \in w THEN "absent" ELSE "deleted"]
        /\ committed = latest /\ holder = [r \in Row |-> NoSession]
        /\ pc = [s \in Session |-> "idle"] /\ target = [s \in Session |-> NoTarget]
        /\ todo = [s \in Session |-> <<>>] /\ verdict = [s \in Session |-> "none"] /\ met = {}
    BY <1>1 DEF Begin
  <1>3. /\ \A r \in Line \union Dim : committed[r] = 0
        /\ \A r \in Order \union Note : committed[r] \in {"absent", "deleted"}
    <2>1. \A r \in Row : committed[r] = IF r \in Line \union Dim THEN 0
                                        ELSE IF r \in w THEN "absent" ELSE "deleted"
      BY <1>2
    <2> QED  BY <2>1, Tables
  <1>4. TypeOK
    <2>1. \A r \in Row : RowOK(r, committed[r])
      BY <1>3, RowsTyped DEF OrderStatus, NoteStatus
    <2>2. <<>> \in Seq(NoteLine)
      OBVIOUS
    <2> QED  BY <1>2, <2>1, <2>2 DEF TypeOK
  <1>5. RowsInv
    BY <1>2, Tables DEF RowsInv
  <1>6. ASSUME NEW s \in Session  PROVE SessionInv(s) /\ Verdict(s)
    <2>1. pc[s] = "idle" /\ \A r \in Row : holder[r] # s
      BY <1>2, FulfilmentAssumption DEF FulfilmentAssumption
    <2> QED
      BY <2>1, Tables
      DEF SessionInv, Place, Holds, HasCounted, Verdict, Changing, Working, Writing
  <1>7. CompletionsAreCounted
    <2>1. Finished = {}
      BY <1>3 DEF Finished, Done
    <2> SUFFICES ASSUME NEW l \in Line
                 PROVE  SumFunctionOnSet([n \in Note |-> Carried(n, l)], Finished) <= committed[l]
      BY <1>3 DEF CompletionsAreCounted
    <2>2. SumFunctionOnSet([n \in Note |-> Carried(n, l)], {}) = 0
      BY FS_EmptySet, SumZero
    <2> QED  BY <2>1, <2>2, <1>3
  <1>8. MetInv
    BY <1>2 DEF MetInv
  <1>9. StatusAgreesWithLines
    BY <1>3 DEF StatusAgreesWithLines, Partial
  <1>10. GapInv
    <2> DEFINE F == [r \in Compared |-> Weight(r) * committed[r]]
    <2>1. \A r \in Compared : F[r] = 0
      <3>1. ASSUME NEW r \in Compared  PROVE Weight(r) * committed[r] = 0
        <4>1. Weight(r) \in Int /\ committed[r] = 0
          BY <1>3, ComparedRows
        <4> QED  BY <4>1
      <3> QED  BY <3>1
    <2> HIDE DEF F
    <2>2. SumFunctionOnSet(F, Compared) = 0
      BY <2>1, ComparedRows, SumZero
    <2>3. \A s \in Session : pc[s] \notin Writing
      BY <1>2 DEF Writing
    <2> QED  BY <2>2, <2>3 DEF GapInv, Gap, F
  <1> QED  BY <1>4, <1>5, <1>6, <1>7, <1>8, <1>9, <1>10 DEF IInv

\* Every step keeps it.
LEMMA Inductive ==
  ASSUME IInv, GapInv, [Next]_vars
  PROVE  IInv' /\ GapInv'
  <1>1. /\ TypeOK /\ RowsInv /\ (\A s \in Session : SessionInv(s)) /\ CompletionsAreCounted
        /\ MetInv /\ (\A s \in Session : Verdict(s)) /\ StatusAgreesWithLines
    BY DEF IInv
  <1>2. TypeOK' /\ RowsInv' /\ \A s \in Session : SessionInv(s)'
    BY <1>1, SessionStep
  <1>3. CompletionsAreCounted'
    BY <1>1, CountedStep
  <1>4. MetInv'
    BY <1>1, MetStep
  <1>5. \A s \in Session : Verdict(s)'
    BY <1>1, VerdictStep
  <1>6. StatusAgreesWithLines'
    BY <1>1, StatusStep
  <1>7. GapInv'
    BY <1>1, GapStep
  <1> QED  BY <1>2, <1>3, <1>4, <1>5, <1>6, <1>7 DEF IInv

\* The inductive invariant: what is uncommitted is exactly what each
\* transaction has done of its note.
THEOREM FulfilmentInvariant == Spec => [](IInv /\ GapInv)
  <1>1. Init => IInv /\ GapInv
    BY Initially
  <1>2. (IInv /\ GapInv) /\ [Next]_vars => (IInv /\ GapInv)'
    BY Inductive
  <1> QED  BY <1>1, <1>2, PTL DEF Spec

\* Types: among others, no balance and no counted quantity is ever negative.
THEOREM FulfilmentTypes == Spec => []TypeOK
  <1>1. IInv => TypeOK
    BY DEF IInv
  <1> QED  BY <1>1, FulfilmentInvariant, PTL

\* The status of an order and the quantities of its lines go together,
\* however the notes, approvals and cancellations interleave.
THEOREM OrdersAgreeWithLines == Spec => []StatusAgreesWithLines
  <1>1. IInv => StatusAgreesWithLines
    BY DEF IInv
  <1> QED  BY <1>1, FulfilmentInvariant, PTL

\* No completed note is lost from its order lines, whoever counts beside it.
THEOREM NotesAreCounted == Spec => []CompletionsAreCounted
  <1>1. IInv => CompletionsAreCounted
    BY DEF IInv
  <1> QED  BY <1>1, FulfilmentInvariant, PTL

\* Stock and orders agree, whatever fails between the two updates.
THEOREM StockAndOrdersAgree == Spec => []StockAgreesWithOrders
  <1>1. IInv /\ GapInv => StockAgreesWithOrders
    BY NoGap DEF IInv
  <1> QED  BY <1>1, FulfilmentInvariant, PTL
=============================================================================

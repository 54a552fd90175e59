-------------------------- MODULE StockPostingProofs --------------------------
(***************************************************************************)
(* For every set of sessions, documents and dimensions: StockPosting is    *)
(* type correct, the balance other requests see is the sum of the ledger,  *)
(* stock is never negative, only posted documents have movements, the      *)
(* movements of a document are posted equally often, and the interleaved   *)
(* statements implement the atomic approvals of StockLedger.               *)
(***************************************************************************)
EXTENDS StockPosting, SequenceTheorems, FiniteSetTheorems, TLAPS

-----------------------------------------------------------------------------
(* The inductive invariant.                                                *)

(***************************************************************************)
(* What pc says about the rest of a transaction's state.                   *)
(***************************************************************************)
ControlInv ==
  \A s \in Session :
    /\ pc[s] # "idle" =>
         doc[s] \in Doc /\ Len(todo[s]) <= Len(Moves[doc[s]])
    /\ pc[s] \in {"guard", "post", "insert"} => todo[s] # <<>>
    /\ pc[s] \in {"idle", "lines"} =>
         todo[s] = <<>> /\ \A x \in Dim : rows[s][x] = <<>>

(***************************************************************************)
(* A balance row is locked exactly by the transaction that has uncommitted *)
(* ledger rows for its dimension; the latest version of the row is the     *)
(* committed one plus those rows.                                          *)
(***************************************************************************)
LockInv ==
  \A x \in Dim :
    /\ lock[x] = NoSession => balance[x] = committed[x]
    /\ \A s \in Session :
         /\ lock[x] = s <=> rows[s][x] # <<>>
         /\ RunningTotals(rows[s][x])
         /\ lock[x] = s => /\ balance[x].exists
                           /\ balance[x].qty = committed[x].qty + Total(rows[s][x])

\* No prefix of a transaction's uncommitted rows takes the balance below zero.
PendingNonNegative ==
  \A x \in Dim : \A s \in Session : \A i \in 1..Len(rows[s][x]) :
    committed[x].qty + rows[s][x][i].total >= 0

\* Uncommitted rows cite the document being approved, committed ones of a
\* document with a header a posted document.
CitationInv ==
  \A x \in Dim :
    /\ \A s \in Session : \A i \in 1..Len(rows[s][x]) : rows[s][x][i].doc = doc[s]
    /\ \A i \in 1..Len(ledger[x]) :
         ledger[x][i].doc \in Doc \ Opening => status[ledger[x][i].doc] = "posted"

IInv ==
  /\ TypeOK
  /\ ControlInv
  /\ LockInv
  /\ BalanceIsLedgerSum
  /\ PendingNonNegative
  /\ NeverNegative
  /\ CitationInv

-----------------------------------------------------------------------------
(* Lemmas about ledgers.                                                   *)

\* The sum of a ledger is an integer, and 0 for the empty ledger.
LEMMA TotalType ==
  ASSUME NEW e \in Seq(Entry)
  PROVE  Total(e) \in Int
  <1>1. CASE e = <<>>
    BY <1>1 DEF Total
  <1>2. CASE e # <<>>
    <2>1. Len(e) \in 1..Len(e)
      BY <1>2, EmptySeq
    <2>2. e[Len(e)] \in Entry
      BY <2>1
    <2> QED
      BY <1>2, <2>2 DEF Total, Entry
  <1> QED
    BY <1>1, <1>2

\* Shifting the running total of a row changes nothing else of it.
LEMMA ShiftRow ==
  ASSUME NEW e \in Entry, NEW n \in Int
  PROVE  /\ Shift(e, n) \in Entry
         /\ Shift(e, n).doc = e.doc
         /\ Shift(e, n).move = e.move
         /\ Shift(e, n).delta = e.delta
         /\ Shift(e, n).total = e.total + n
  BY DEF Shift, Entry

\* A new row carries its arguments and the sum up to it.
LEMMA NewRow ==
  ASSUME NEW e \in Seq(Entry), NEW d \in Doc, NEW m \in Nat, NEW q \in Int
  PROVE  /\ NewEntry(d, m, q, e) \in Entry
         /\ NewEntry(d, m, q, e).doc = d
         /\ NewEntry(d, m, q, e).move = m
         /\ NewEntry(d, m, q, e).delta = q
         /\ NewEntry(d, m, q, e).total = Total(e) + q
  <1>1. Total(e) \in Int
    BY TotalType
  <1> QED
    BY <1>1 DEF NewEntry, Entry

\* Appending a row of delta q keeps running totals and adds q to the sum.
LEMMA AppendRow ==
  ASSUME NEW e \in Seq(Entry), NEW d \in Doc, NEW m \in Nat, NEW q \in Int
  PROVE  LET f == Append(e, NewEntry(d, m, q, e))
         IN  /\ f \in Seq(Entry)
             /\ f # <<>>
             /\ Len(f) = Len(e) + 1
             /\ \A i \in 1..Len(e) : f[i] = e[i]
             /\ f[Len(e) + 1].doc = d
             /\ f[Len(e) + 1].total = Total(e) + q
             /\ Total(f) = Total(e) + q
             /\ RunningTotals(e) => RunningTotals(f)
  <1> DEFINE n == NewEntry(d, m, q, e)
             f == Append(e, n)
  <1>1. n \in Entry /\ n.doc = d /\ n.move = m /\ n.delta = q /\ n.total = Total(e) + q
    BY NewRow
  <1> HIDE DEF n
  <1>2. /\ f \in Seq(Entry) /\ Len(f) = Len(e) + 1 /\ f # <<>>
        /\ \A i \in 1..Len(e) : f[i] = e[i]
        /\ f[Len(e) + 1] = n
    BY <1>1
  <1> HIDE DEF f
  <1>3. Total(f) = Total(e) + q
    BY <1>1, <1>2 DEF Total
  <1>4. ASSUME RunningTotals(e)  PROVE RunningTotals(f)
    <2> SUFFICES ASSUME NEW i \in 1..Len(f)
                 PROVE  f[i].total = f[i].delta + (IF i = 1 THEN 0 ELSE f[i-1].total)
      BY DEF RunningTotals
    <2>1. CASE i \in 1..Len(e)
      <3>1. e[i].total = e[i].delta + (IF i = 1 THEN 0 ELSE e[i-1].total)
        BY <2>1, <1>4 DEF RunningTotals
      <3>2. f[i] = e[i] /\ (i # 1 => f[i-1] = e[i-1])
        BY <2>1, <1>2
      <3> QED
        BY <3>1, <3>2
    <2>2. CASE i = Len(e) + 1
      <3>1. f[i].total = Total(e) + f[i].delta
        BY <2>2, <1>1, <1>2
      <3>2. CASE e = <<>>
        BY <3>1, <3>2, <2>2, <1>1, <1>2 DEF Total
      <3>3. CASE e # <<>>
        <4>1. Len(e) \in 1..Len(e) /\ i # 1 /\ i - 1 = Len(e)
          BY <3>3, <2>2, EmptySeq
        <4>2. f[i-1].total = Total(e)
          BY <4>1, <3>3, <1>2 DEF Total
        <4>3. f[i].delta \in Int /\ Total(e) \in Int
          BY <2>2, <1>1, <1>2, TotalType
        <4> QED
          BY <4>1, <4>2, <4>3, <3>1
      <3> QED
        BY <3>2, <3>3
    <2> QED
      BY <2>1, <2>2, <1>2
  <1> QED
    BY <1>1, <1>2, <1>3, <1>4 DEF f, n

\* Committing rows adds their sum to the ledger and keeps running totals.
LEMMA ExtendedRows ==
  ASSUME NEW e \in Seq(Entry), NEW r \in Seq(Entry)
  PROVE  /\ Extended(e, r) \in Seq(Entry)
         /\ Len(Extended(e, r)) = Len(e) + Len(r)
         /\ \A i \in 1..Len(e) : Extended(e, r)[i] = e[i]
         /\ \A i \in 1..Len(r) :
              /\ Extended(e, r)[Len(e) + i].doc = r[i].doc
              /\ Extended(e, r)[Len(e) + i].move = r[i].move
              /\ Extended(e, r)[Len(e) + i].delta = r[i].delta
              /\ Extended(e, r)[Len(e) + i].total = r[i].total + Total(e)
         /\ Total(Extended(e, r)) = Total(e) + Total(r)
         /\ (Extended(e, r) = <<>>) <=> (e = <<>> /\ r = <<>>)
         /\ RunningTotals(e) /\ RunningTotals(r) => RunningTotals(Extended(e, r))
  <1> DEFINE g == Extended(e, r)
             N == Len(e) + Len(r)
  <1>0. Total(e) \in Int /\ Total(r) \in Int /\ Len(e) \in Nat /\ Len(r) \in Nat
    BY TotalType
  <1>1. \A i \in 1..Len(r) :
          /\ r[i] \in Entry /\ Len(e) + i \in 1..N
          /\ g[Len(e) + i] = Shift(r[i], Total(e))
    <2> TAKE i \in 1..Len(r)
    <2>1. Len(e) + i \in 1..N /\ ~(Len(e) + i <= Len(e)) /\ (Len(e) + i) - Len(e) = i
      BY <1>0
    <2> QED
      BY <2>1 DEF Extended
  <1>2. \A i \in 1..Len(e) : g[i] = e[i] /\ e[i] \in Entry
    BY <1>0 DEF Extended
  <1>3. \A i \in 1..Len(r) : /\ g[Len(e) + i] \in Entry
                             /\ g[Len(e) + i].doc = r[i].doc
                             /\ g[Len(e) + i].move = r[i].move
                             /\ g[Len(e) + i].delta = r[i].delta
                             /\ g[Len(e) + i].total = r[i].total + Total(e)
    <2> HIDE DEF g
    <2> TAKE i \in 1..Len(r)
    <2>1. r[i] \in Entry /\ g[Len(e) + i] = Shift(r[i], Total(e))
      BY <1>1
    <2>2. Total(e) \in Int
      BY <1>0
    <2>3. /\ Shift(r[i], Total(e)) \in Entry
          /\ Shift(r[i], Total(e)).doc = r[i].doc
          /\ Shift(r[i], Total(e)).move = r[i].move
          /\ Shift(r[i], Total(e)).delta = r[i].delta
          /\ Shift(r[i], Total(e)).total = r[i].total + Total(e)
      BY <2>1, <2>2, ShiftRow
    <2> QED
      BY <2>1, <2>3
  <1>4. g \in Seq(Entry) /\ Len(g) = N
    <2>1. \A i \in 1..N : g[i] \in Entry
      <3> TAKE i \in 1..N
      <3>1. CASE i \in 1..Len(e)
        BY <3>1, <1>2
      <3>2. CASE ~(i \in 1..Len(e))
        <4>1. i - Len(e) \in 1..Len(r) /\ i = Len(e) + (i - Len(e))
          BY <3>2, <1>0
        <4> QED
          BY <4>1, <1>3
      <3> QED
        BY <3>1, <3>2
    <2>2. g \in [1..N -> Entry]
      BY <2>1 DEF Extended
    <2> QED
      BY SMTT(60), <2>2, <1>0, SeqDef
  <1> HIDE DEF g
  <1>5. Total(g) = Total(e) + Total(r)
    <2>1. CASE r = <<>>
      <3>1. Len(g) = Len(e) /\ Total(r) = 0
        BY <2>1, <1>0, <1>4 DEF Total
      <3>2. Total(g) = Total(e)
        <4>1. CASE e = <<>>
          BY <4>1, <3>1, <1>4, EmptySeq DEF Total
        <4>2. CASE e # <<>>
          <5>1. Len(e) \in 1..Len(e)
            BY <4>2, EmptySeq
          <5> QED
            BY <5>1, <4>2, <3>1, <1>2, <1>4 DEF Total
        <4> QED
          BY <4>1, <4>2
      <3> QED
        BY <3>1, <3>2, <1>0
    <2>2. CASE r # <<>>
      <3>1. Len(r) \in 1..Len(r)
        BY <2>2, EmptySeq
      <3>2. Len(g) = Len(e) + Len(r) /\ g # <<>>
        BY <3>1, <1>0, <1>4
      <3>3. g[Len(g)].total = r[Len(r)].total + Total(e)
        BY <3>1, <3>2, <1>3
      <3>4. Total(g) = g[Len(g)].total /\ Total(r) = r[Len(r)].total
        BY <3>2, <2>2 DEF Total
      <3> QED
        BY <3>3, <3>4, <1>0
    <2> QED
      BY <2>1, <2>2
  <1>6. (g = <<>>) <=> (e = <<>> /\ r = <<>>)
    BY <1>0, <1>4
  <1>7. ASSUME RunningTotals(e), RunningTotals(r)  PROVE RunningTotals(g)
    <2> SUFFICES ASSUME NEW i \in 1..N
                 PROVE  g[i].total = g[i].delta + (IF i = 1 THEN 0 ELSE g[i-1].total)
      BY <1>4 DEF RunningTotals
    <2>1. CASE i \in 1..Len(e)
      <3>1. e[i].total = e[i].delta + (IF i = 1 THEN 0 ELSE e[i-1].total)
        BY <2>1, <1>7 DEF RunningTotals
      <3>2. g[i] = e[i]
        BY <2>1, <1>2
      <3>3. CASE i = 1
        BY <3>1, <3>2, <3>3
      <3>4. CASE i # 1
        <4>1. i - 1 \in 1..Len(e)
          BY <3>4, <2>1, <1>0
        <4>2. g[i-1] = e[i-1]
          BY <4>1, <1>2
        <4> QED
          BY <3>1, <3>2, <3>4, <4>2
      <3> QED
        BY <3>3, <3>4
    <2>2. CASE i = Len(e) + 1
      <3>0. 1 \in 1..Len(r) /\ r[1] \in Entry
        BY <2>2, <1>0
      <3>1. g[i].total = r[1].total + Total(e) /\ g[i].delta = r[1].delta
        BY <3>0, <2>2, <1>3
      <3>2. r[1].total = r[1].delta
        BY <3>0, <1>7 DEF RunningTotals, Entry
      <3>3. Total(e) = IF i = 1 THEN 0 ELSE g[i-1].total
        BY <2>2, <1>0, <1>2 DEF Total
      <3>4. r[1].delta \in Int
        BY <3>0 DEF Entry
      <3> QED
        BY <3>1, <3>2, <3>3, <3>4, <1>0
    <2>3. CASE i \in Len(e) + 2 .. N
      <3>1. PICK k \in 2..Len(r) : i = Len(e) + k
        <4>1. i - Len(e) \in 2..Len(r) /\ i = Len(e) + (i - Len(e))
          BY <2>3, <1>0
        <4> QED
          BY <4>1
      <3>2. /\ k \in 1..Len(r) /\ k - 1 \in 1..Len(r) /\ k # 1
            /\ i # 1 /\ i - 1 = Len(e) + (k - 1)
        BY <3>1, <1>0
      <3>3. /\ g[i].total = r[k].total + Total(e) /\ g[i].delta = r[k].delta
            /\ g[i-1].total = r[k-1].total + Total(e)
        BY <3>1, <3>2, <1>3
      <3>4. r[k].total = r[k].delta + r[k-1].total
        BY <3>2, <1>7 DEF RunningTotals
      <3>5. r[k].delta \in Int /\ r[k-1].total \in Int
        BY <3>2, <1>1 DEF Entry
      <3> QED
        BY SMTT(60), <3>2, <3>3, <3>4, <3>5, <1>0
    <2> QED
      BY <2>1, <2>2, <2>3, <1>0
  <1> QED
    BY <1>2, <1>3, <1>4, <1>5, <1>6, <1>7 DEF g

-----------------------------------------------------------------------------
(* Lemmas about one step.                                                  *)

\* The movement in hand is a movement, and what it asks for is an integer.
LEMMA CurType ==
  ASSUME TypeOK, NEW s \in Session, todo[s] # <<>>
  PROVE  /\ Cur(s) \in Move
         /\ Cur(s).dim \in Dim
         /\ Delta(s) \in Int
         /\ Tail(todo[s]) \in Seq(Move)
         /\ Len(Tail(todo[s])) = Len(todo[s]) - 1
         /\ Len(todo[s]) \in Nat \ {0}
  <1>1. todo[s] \in Seq(Move) /\ diff[s] \in Int
    BY DEF TypeOK
  <1>2. /\ Cur(s) \in Move /\ Tail(todo[s]) \in Seq(Move)
        /\ Len(Tail(todo[s])) = Len(todo[s]) - 1
        /\ Len(todo[s]) \in Nat \ {0}
    BY <1>1 DEF Cur
  <1>3. /\ Cur(s).dim \in Dim /\ Cur(s).qty \in Int
        /\ Cur(s).type \in {"in", "out", "return", "count"}
    BY <1>2 DEF Move
  <1>4. Delta(s) \in Int
    BY <1>1, <1>3 DEF Delta
  <1> QED
    BY <1>2, <1>3, <1>4

\* A step that leaves the stock tables alone keeps what is said about them.
LEMMA TablesUntouched ==
  ASSUME IInv, UNCHANGED tables, TypeOK', ControlInv',
         \A s \in Session : pc[s] \notin {"idle", "lines"} => doc'[s] = doc[s],
         \A d \in Doc : status[d] = "posted" => status'[d] = "posted"
  PROVE  IInv'
  <1>1. LockInv'
    BY DEF IInv, LockInv, tables
  <1>2. BalanceIsLedgerSum'
    BY DEF IInv, BalanceIsLedgerSum, tables
  <1>3. PendingNonNegative'
    BY DEF IInv, PendingNonNegative, tables
  <1>4. NeverNegative'
    BY DEF IInv, NeverNegative, tables
  <1>5. CitationInv'
    <2> SUFFICES ASSUME NEW x \in Dim
        PROVE /\ \A s \in Session : \A i \in 1..Len(rows[s][x]) :
                    rows[s][x][i].doc = doc'[s]
              /\ \A i \in 1..Len(ledger[x]) : ledger[x][i].doc \in Doc \ Opening
                    => status'[ledger[x][i].doc] = "posted"
      BY DEF CitationInv, tables
    <2>1. ASSUME NEW s \in Session, NEW i \in 1..Len(rows[s][x])
          PROVE  rows[s][x][i].doc = doc'[s]
      <3>1. rows[s][x] # <<>>
        BY EmptySeq
      <3>2. pc[s] \notin {"idle", "lines"}
        BY <3>1 DEF IInv, ControlInv
      <3> QED
        BY <3>2 DEF IInv, CitationInv
    <2>2. ASSUME NEW i \in 1..Len(ledger[x]), ledger[x][i].doc \in Doc \ Opening
          PROVE  status'[ledger[x][i].doc] = "posted"
      BY <2>2 DEF IInv, CitationInv
    <2> QED
      BY <2>1, <2>2
  <1> QED
    BY <1>1, <1>2, <1>3, <1>4, <1>5 DEF IInv

\* A rollback restores the committed version of every row it had written.
LEMMA RollbackPreserves ==
  ASSUME IInv, NEW s \in Session, Rollback(s)
  PROVE  IInv'
  <1> USE PostingAssumption
  <1>0. TypeOK
    BY DEF IInv
  <1>1. TypeOK'
    BY <1>0, EmptySeq DEF TypeOK, Rollback, Idle
  <1>2. /\ rows'[s] = [x \in Dim |-> <<>>] /\ pc'[s] = "idle" /\ todo'[s] = <<>>
        /\ \A t \in Session \ {s} : /\ rows'[t] = rows[t] /\ pc'[t] = pc[t]
                                    /\ doc'[t] = doc[t] /\ todo'[t] = todo[t]
    BY <1>0 DEF TypeOK, Rollback, Idle
  <1>3. ControlInv'
    BY <1>2 DEF IInv, ControlInv
  <1>4. LockInv'
    <2> SUFFICES ASSUME NEW x \in Dim
        PROVE /\ lock'[x] = NoSession => balance'[x] = committed'[x]
              /\ \A t \in Session :
                   /\ lock'[x] = t <=> rows'[t][x] # <<>>
                   /\ RunningTotals(rows'[t][x])
                   /\ lock'[x] = t =>
                        /\ balance'[x].exists
                        /\ balance'[x].qty = committed'[x].qty + Total(rows'[t][x])
      BY DEF LockInv
    <2>1. /\ lock'[x] = IF lock[x] = s THEN NoSession ELSE lock[x]
          /\ balance'[x] = IF lock[x] = s THEN committed[x] ELSE balance[x]
          /\ committed'[x] = committed[x]
      BY DEF Rollback, Idle
    <2>2. rows'[s][x] = <<>> /\ RunningTotals(rows'[s][x]) /\ lock'[x] # s
      BY <1>2, <2>1, EmptySeq DEF RunningTotals
    <2> QED
      BY <1>2, <2>1, <2>2 DEF IInv, LockInv
  <1>5. BalanceIsLedgerSum'
    BY DEF IInv, BalanceIsLedgerSum, Rollback
  <1>6. PendingNonNegative'
    <2> SUFFICES ASSUME NEW x \in Dim, NEW t \in Session, NEW i \in 1..Len(rows'[t][x])
                 PROVE  committed'[x].qty + rows'[t][x][i].total >= 0
      BY DEF PendingNonNegative
    <2>1. t # s
      BY <1>2, EmptySeq
    <2> QED
      BY <1>2, <2>1 DEF IInv, PendingNonNegative, Rollback
  <1>7. NeverNegative'
    BY DEF IInv, NeverNegative, Rollback
  <1>8. CitationInv'
    <2> SUFFICES ASSUME NEW x \in Dim
        PROVE /\ \A t \in Session : \A i \in 1..Len(rows'[t][x]) :
                    rows'[t][x][i].doc = doc'[t]
              /\ \A i \in 1..Len(ledger[x]) : ledger[x][i].doc \in Doc \ Opening
                    => status[ledger[x][i].doc] = "posted"
      BY DEF CitationInv, Rollback
    <2>1. \A i \in 1..Len(rows'[s][x]) : rows'[s][x][i].doc = doc'[s]
      <3>1. rows'[s][x] = <<>>
        BY <1>2
      <3> QED
        BY <3>1, EmptySeq
    <2>2. ASSUME NEW t \in Session \ {s}
          PROVE  \A i \in 1..Len(rows'[t][x]) : rows'[t][x][i].doc = doc'[t]
      <3>1. rows'[t] = rows[t] /\ doc'[t] = doc[t]
        BY <1>2
      <3> QED
        BY <3>1 DEF IInv, CitationInv
    <2> QED
      BY <2>1, <2>2 DEF IInv, CitationInv
  <1> QED
    BY <1>1, <1>3, <1>4, <1>5, <1>6, <1>7, <1>8 DEF IInv

\* A commit publishes, per dimension, the rows it inserted and their sum.
LEMMA FinishPreserves ==
  ASSUME IInv, NEW s \in Session, Finish(s)
  PROVE  IInv'
  <1> USE PostingAssumption
  <1>0. TypeOK /\ pc[s] # "idle" /\ doc[s] \in Doc
    BY DEF IInv, ControlInv, Finish
  <1>1. /\ rows'[s] = [x \in Dim |-> <<>>] /\ pc'[s] = "idle" /\ todo'[s] = <<>>
        /\ \A t \in Session \ {s} : /\ rows'[t] = rows[t] /\ pc'[t] = pc[t]
                                    /\ doc'[t] = doc[t] /\ todo'[t] = todo[t]
    BY <1>0 DEF TypeOK, Finish, Commit, Idle
  <1>2. ASSUME NEW x \in Dim
        PROVE  /\ ledger[x] \in Seq(Entry) /\ rows[s][x] \in Seq(Entry)
               /\ ledger'[x] = Extended(ledger[x], rows[s][x])
               /\ balance'[x] = balance[x]
               /\ lock[x] = s => /\ committed'[x] = balance[x]
                                 /\ lock'[x] = NoSession
               /\ lock[x] # s => /\ committed'[x] = committed[x]
                                 /\ lock'[x] = lock[x]
                                 /\ rows[s][x] = <<>>
    BY <1>0 DEF TypeOK, Finish, Commit, Idle, Seen, IInv, LockInv
  <1>e. ASSUME NEW x \in Dim
        PROVE  /\ ledger'[x] \in Seq(Entry)
               /\ Len(ledger'[x]) = Len(ledger[x]) + Len(rows[s][x])
               /\ \A i \in 1..Len(ledger[x]) : ledger'[x][i] = ledger[x][i]
               /\ \A i \in 1..Len(rows[s][x]) :
                    LET row == ledger'[x][Len(ledger[x]) + i]
                    IN  /\ row.doc = rows[s][x][i].doc
                        /\ row.total = rows[s][x][i].total + Total(ledger[x])
               /\ Total(ledger'[x]) = Total(ledger[x]) + Total(rows[s][x])
               /\ ledger'[x] = <<>> <=> ledger[x] = <<>> /\ rows[s][x] = <<>>
               /\ RunningTotals(ledger[x]) /\ RunningTotals(rows[s][x])
                    => RunningTotals(ledger'[x])
    <2> DEFINE e == ledger[x]
               r == rows[s][x]
    <2>1. e \in Seq(Entry) /\ r \in Seq(Entry)
      BY <1>2
    <2>2. ledger'[x] = Extended(e, r)
      BY <1>2
    <2> HIDE DEF e, r
    <2>3. /\ Extended(e, r) \in Seq(Entry)
          /\ Len(Extended(e, r)) = Len(e) + Len(r)
          /\ \A i \in 1..Len(e) : Extended(e, r)[i] = e[i]
          /\ \A i \in 1..Len(r) :
               /\ Extended(e, r)[Len(e) + i].doc = r[i].doc
               /\ Extended(e, r)[Len(e) + i].move = r[i].move
               /\ Extended(e, r)[Len(e) + i].delta = r[i].delta
               /\ Extended(e, r)[Len(e) + i].total = r[i].total + Total(e)
          /\ Total(Extended(e, r)) = Total(e) + Total(r)
          /\ (Extended(e, r) = <<>>) <=> (e = <<>> /\ r = <<>>)
          /\ RunningTotals(e) /\ RunningTotals(r) => RunningTotals(Extended(e, r))
      BY <2>1, ExtendedRows
    <2> QED
      BY <2>2, <2>3 DEF e, r
  <1>3. TypeOK'
    <2>1. status' \in [Doc -> Status]
      BY ZenonT(90), <1>0 DEF TypeOK, Finish, Status
    <2>2. ledger' \in [Dim -> Seq(Entry)]
      BY <1>e DEF Finish, Commit
    <2>3. committed' \in [Dim -> Row] /\ balance' \in [Dim -> Row]
      BY <1>0 DEF TypeOK, Finish, Commit, Seen
    <2> QED
      BY <1>0, <2>1, <2>2, <2>3, EmptySeq DEF TypeOK, Finish, Commit, Idle
  <1>4. ControlInv'
    BY <1>1 DEF IInv, ControlInv
  <1>5. LockInv'
    <2> SUFFICES ASSUME NEW x \in Dim
        PROVE /\ lock'[x] = NoSession => balance'[x] = committed'[x]
              /\ \A t \in Session :
                   /\ lock'[x] = t <=> rows'[t][x] # <<>>
                   /\ RunningTotals(rows'[t][x])
                   /\ lock'[x] = t =>
                        /\ balance'[x].exists
                        /\ balance'[x].qty = committed'[x].qty + Total(rows'[t][x])
      BY DEF LockInv
    <2>1. rows'[s][x] = <<>> /\ RunningTotals(rows'[s][x]) /\ lock'[x] # s
      BY SMTT(60), <1>1, <1>2, EmptySeq DEF RunningTotals
    <2>2. lock'[x] = NoSession => balance'[x] = committed'[x]
      BY <1>2 DEF IInv, LockInv
    <2>3. ASSUME NEW t \in Session \ {s}
          PROVE  /\ lock'[x] = t <=> rows'[t][x] # <<>>
                 /\ RunningTotals(rows'[t][x])
                 /\ lock'[x] = t =>
                      /\ balance'[x].exists
                      /\ balance'[x].qty = committed'[x].qty + Total(rows'[t][x])
      <3>1. rows'[t][x] = rows[t][x]
        BY <1>1
      <3>2. lock'[x] = t <=> lock[x] = t
        BY <1>2
      <3>3. lock[x] = t => committed'[x] = committed[x] /\ balance'[x] = balance[x]
        BY <1>2
      <3> QED
        BY <3>1, <3>2, <3>3 DEF IInv, LockInv
    <2> QED
      BY <2>1, <2>2, <2>3
  <1>6. BalanceIsLedgerSum'
    <2> SUFFICES ASSUME NEW x \in Dim
        PROVE /\ RunningTotals(ledger'[x])
              /\ committed'[x].qty = Total(ledger'[x])
              /\ committed'[x].exists <=> ledger'[x] # <<>>
      BY DEF BalanceIsLedgerSum
    <2>1. /\ RunningTotals(ledger[x]) /\ committed[x].qty = Total(ledger[x])
          /\ committed[x].exists <=> ledger[x] # <<>>
          /\ RunningTotals(rows[s][x])
      BY DEF IInv, BalanceIsLedgerSum, LockInv
    <2>2. /\ RunningTotals(ledger'[x])
          /\ Total(ledger'[x]) = Total(ledger[x]) + Total(rows[s][x])
          /\ ledger'[x] = <<>> <=> ledger[x] = <<>> /\ rows[s][x] = <<>>
      BY <2>1, <1>e
    <2>3. CASE lock[x] = s
      <3>1. /\ balance[x].exists /\ rows[s][x] # <<>>
            /\ balance[x].qty = committed[x].qty + Total(rows[s][x])
        BY <2>3 DEF IInv, LockInv
      <3> QED
        BY <3>1, <2>1, <2>2, <2>3, <1>2
    <2>4. CASE lock[x] # s
      <3>1. Total(rows[s][x]) = 0 /\ Total(ledger[x]) \in Int
        BY <2>4, <1>2, TotalType DEF Total
      <3> QED
        BY <3>1, <2>1, <2>2, <2>4, <1>2
    <2> QED
      BY <2>3, <2>4
  <1>7. PendingNonNegative'
    <2> SUFFICES ASSUME NEW x \in Dim, NEW t \in Session, NEW i \in 1..Len(rows'[t][x])
                 PROVE  committed'[x].qty + rows'[t][x][i].total >= 0
      BY DEF PendingNonNegative
    <2>1. t # s /\ rows'[t][x] = rows[t][x] /\ rows[t][x] # <<>>
      BY <1>1, EmptySeq
    <2>2. lock[x] # s
      BY <2>1 DEF IInv, LockInv
    <2> QED
      BY <1>2, <2>1, <2>2 DEF IInv, PendingNonNegative
  <1>8. NeverNegative'
    <2> SUFFICES ASSUME NEW x \in Dim, NEW i \in 1..Len(ledger'[x])
                 PROVE  ledger'[x][i].total >= 0
      BY DEF NeverNegative
    <2> DEFINE n == Len(ledger[x])
    <2>1. n \in Nat /\ Len(rows[s][x]) \in Nat
      BY <1>2
    <2>2. CASE i \in 1..n
      BY <2>2, <1>e DEF IInv, NeverNegative
    <2>3. CASE i \notin 1..n
      <3> DEFINE l == Len(rows[s][x])
      <3>0. i \in 1..(n + l) /\ n \in Nat /\ l \in Nat
        BY <1>e, <2>1
      <3> HIDE DEF n, l
      <3>1. i - n \in 1..l /\ i = n + (i - n)
        BY <2>3, <3>0
      <3> USE DEF l
      <3>2. PICK k \in 1..Len(rows[s][x]) : i = n + k
        BY <3>1
      <3>3. ledger'[x][i].total = rows[s][x][k].total + Total(ledger[x])
        BY <3>2, <1>e DEF n
      <3>4. committed[x].qty + rows[s][x][k].total >= 0
        BY DEF IInv, PendingNonNegative
      <3>5. committed[x].qty = Total(ledger[x]) /\ rows[s][x][k].total \in Int
        <4>1. rows[s][x][k] \in Entry
          BY <1>2
        <4> QED
          BY <4>1 DEF IInv, BalanceIsLedgerSum, Entry
      <3>6. Total(ledger[x]) \in Int
        BY <1>2, TotalType
      <3> QED
        BY <3>3, <3>4, <3>5, <3>6
    <2> QED
      BY <2>2, <2>3
  <1>9. CitationInv'
    <2> SUFFICES ASSUME NEW x \in Dim
        PROVE /\ \A t \in Session : \A i \in 1..Len(rows'[t][x]) :
                    rows'[t][x][i].doc = doc'[t]
              /\ \A i \in 1..Len(ledger'[x]) : ledger'[x][i].doc \in Doc \ Opening
                    => status'[ledger'[x][i].doc] = "posted"
      BY DEF CitationInv
    <2>1. \A t \in Session : \A i \in 1..Len(rows'[t][x]) : rows'[t][x][i].doc = doc'[t]
      <3>1. rows'[s][x] = <<>>
        BY <1>1
      <3> QED
        BY <1>1, <3>1, EmptySeq DEF IInv, CitationInv
    <2>2. /\ doc[s] \in Doc \ Opening => status'[doc[s]] = "posted"
          /\ \A d \in Doc : status[d] = "posted" => status'[d] = "posted"
      BY <1>0 DEF Finish, TypeOK
    <2>3. ASSUME NEW i \in 1..Len(ledger'[x]), ledger'[x][i].doc \in Doc \ Opening
          PROVE  status'[ledger'[x][i].doc] = "posted"
      <3> DEFINE n == Len(ledger[x])
      <3>1. n \in Nat /\ Len(rows[s][x]) \in Nat
        BY <1>2
      <3>2. CASE i \in 1..n
        <4>1. ledger'[x][i] = ledger[x][i]
          BY <3>2, <1>e
        <4> QED
          BY <4>1, <3>2, <2>2, <2>3 DEF IInv, CitationInv
      <3>3. CASE i \notin 1..n
        <4> DEFINE l == Len(rows[s][x])
        <4>0. i \in 1..(n + l) /\ n \in Nat /\ l \in Nat
          BY <1>e, <3>1
        <4> HIDE DEF n, l
        <4>1. i - n \in 1..l /\ i = n + (i - n)
          BY <3>3, <4>0
        <4> USE DEF l
        <4>2. PICK k \in 1..Len(rows[s][x]) : i = n + k
          BY <4>1
        <4>3. ledger'[x][i].doc = rows[s][x][k].doc
          BY <4>2, <1>e DEF n
        <4>4. rows[s][x][k].doc = doc[s]
          BY DEF IInv, CitationInv
        <4> QED
          BY <4>3, <4>4, <2>2, <2>3
      <3> QED
        BY <3>2, <3>3
    <2> QED
      BY <2>1, <2>3
  <1> QED
    BY <1>3, <1>4, <1>5, <1>6, <1>7, <1>8, <1>9 DEF IInv

\* Posting a movement moves the locked row by what it adds to the pending rows.
LEMMA PostPreserves ==
  ASSUME IInv, NEW s \in Session, Post(s), pc[s] # "idle", todo[s] # <<>>,
         Free(s, Cur(s).dim), balance[Cur(s).dim].qty + Delta(s) >= 0
  PROVE  IInv'
  <1> USE PostingAssumption
  <1> DEFINE y == Cur(s).dim
             m == Len(Moves[doc[s]]) - Len(todo[s]) + 1
             old == rows[s][y]
             new == Append(old, NewEntry(doc[s], m, Delta(s), old))
  <1>0. TypeOK
    BY DEF IInv
  <1>1. /\ y \in Dim /\ Delta(s) \in Int /\ Tail(todo[s]) \in Seq(Move)
        /\ Len(Tail(todo[s])) = Len(todo[s]) - 1 /\ Len(todo[s]) \in Nat \ {0}
    BY <1>0, CurType
  <1>2. doc[s] \in Doc /\ Len(todo[s]) <= Len(Moves[doc[s]]) /\ m \in Nat
    <2>1. doc[s] \in Doc /\ Len(todo[s]) <= Len(Moves[doc[s]])
      BY DEF IInv, ControlInv
    <2>2. Len(Moves[doc[s]]) \in Nat
      BY <2>1
    <2> QED
      BY <2>1, <2>2, <1>1
  <1>3. old \in Seq(Entry)
    BY <1>0, <1>1 DEF TypeOK
  <1> HIDE DEF m, old
  <1>4. /\ new \in Seq(Entry) /\ new # <<>> /\ Len(new) = Len(old) + 1
        /\ \A i \in 1..Len(old) : new[i] = old[i]
        /\ new[Len(old) + 1].doc = doc[s]
        /\ new[Len(old) + 1].total = Total(old) + Delta(s)
        /\ Total(new) = Total(old) + Delta(s)
        /\ RunningTotals(old) => RunningTotals(new)
    <2> DEFINE q == Delta(s)
               d == doc[s]
    <2>1. q \in Int /\ d \in Doc /\ m \in Nat /\ old \in Seq(Entry)
      BY <1>1, <1>2, <1>3
    <2> HIDE DEF q, d
    <2> DEFINE f == Append(old, NewEntry(d, m, q, old))
    <2>2. /\ f \in Seq(Entry) /\ f # <<>> /\ Len(f) = Len(old) + 1
          /\ \A i \in 1..Len(old) : f[i] = old[i]
          /\ f[Len(old) + 1].doc = d
          /\ f[Len(old) + 1].total = Total(old) + q
          /\ Total(f) = Total(old) + q
          /\ RunningTotals(old) => RunningTotals(f)
      BY <2>1, AppendRow
    <2> QED
      BY <2>2 DEF q, d
  <1>5. rows' = [rows EXCEPT ![s][y] = new]
    BY DEF Post, m, old
  <1> HIDE DEF new, y
  <1>6. /\ rows'[s][y] = new
        /\ \A t \in Session, x \in Dim : t # s \/ x # y => rows'[t][x] = rows[t][x]
    BY <1>0, <1>1, <1>5 DEF TypeOK
  <1>7. /\ lock'[y] = s /\ balance'[y].exists /\ balance'[y].qty = balance[y].qty + Delta(s)
        /\ \A x \in Dim \ {y} : lock'[x] = lock[x] /\ balance'[x] = balance[x]
    BY <1>0, <1>1 DEF Post, TypeOK, y
  <1>8. /\ UNCHANGED <<committed, ledger, status, doc>>
        /\ pc' = [pc EXCEPT ![s] = "move"] /\ todo' = [todo EXCEPT ![s] = Tail(@)]
        /\ diff' = [diff EXCEPT ![s] = 0]
    BY DEF Post
  <1>9. /\ balance[y].qty = committed[y].qty + Total(old)
        /\ committed[y].qty \in Int /\ Total(old) \in Int
        /\ \A t \in Session \ {s} : rows[t][y] = <<>>
    <2>1. lock[y] \in {NoSession, s}
      BY DEF Free, y
    <2>2. committed[y].qty \in Int /\ Total(old) \in Int
      BY <1>0, <1>1, <1>3, TotalType DEF TypeOK, Row
    <2>3. CASE lock[y] = s
      BY <2>2, <2>3, <1>1 DEF IInv, LockInv, old
    <2>4. CASE lock[y] = NoSession
      <3>1. old = <<>> /\ balance[y] = committed[y]
        BY <2>4, <1>1 DEF IInv, LockInv, old
      <3>2. Total(old) = 0
        BY <3>1 DEF Total
      <3> QED
        BY <2>2, <2>4, <3>1, <3>2, <1>1 DEF IInv, LockInv
    <2> QED
      BY <2>1, <2>3, <2>4
  <1>10. TypeOK'
    <2>1. rows' \in [Session -> [Dim -> Seq(Entry)]]
      BY <1>0, <1>1, <1>4, <1>5 DEF TypeOK
    <2>2. balance' \in [Dim -> Row] /\ lock' \in [Dim -> Session \union {NoSession}]
      BY SMTT(60), <1>0, <1>1 DEF TypeOK, Post, Row, y
    <2>3. /\ todo' \in [Session -> Seq(Move)] /\ diff' \in [Session -> Int]
          /\ pc' \in [Session -> {"idle", "lines", "move", "guard", "post", "insert",
                             "hung"}]
      BY <1>0, <1>1, <1>8 DEF TypeOK
    <2> QED
      BY <1>0, <1>8, <2>1, <2>2, <2>3 DEF TypeOK
  <1>11. ControlInv'
    <2> SUFFICES ASSUME NEW t \in Session
        PROVE /\ pc'[t] # "idle" => doc[t] \in Doc /\ Len(todo'[t]) <= Len(Moves[doc[t]])
              /\ pc'[t] \in {"guard", "post", "insert"} => todo'[t] # <<>>
              /\ pc'[t] \in {"idle", "lines"} =>
                   todo'[t] = <<>> /\ \A x \in Dim : rows'[t][x] = <<>>
      BY <1>8 DEF ControlInv
    <2>1. CASE t = s
      <3>1. pc'[s] = "move" /\ todo'[s] = Tail(todo[s])
        BY <1>0, <1>8 DEF TypeOK
      <3>2. Len(Moves[doc[s]]) \in Nat
        BY <1>2
      <3> QED
        BY <2>1, <3>1, <3>2, <1>1, <1>2
    <2>2. CASE t # s
      <3>1. pc'[t] = pc[t] /\ todo'[t] = todo[t] /\ \A x \in Dim : rows'[t][x] = rows[t][x]
        BY <2>2, <1>0, <1>6, <1>8 DEF TypeOK
      <3> QED
        BY <3>1 DEF IInv, ControlInv
    <2> QED
      BY <2>1, <2>2
  <1>12. LockInv'
    <2> SUFFICES ASSUME NEW x \in Dim
        PROVE /\ lock'[x] = NoSession => balance'[x] = committed[x]
              /\ \A t \in Session :
                   /\ lock'[x] = t <=> rows'[t][x] # <<>>
                   /\ RunningTotals(rows'[t][x])
                   /\ lock'[x] = t =>
                        /\ balance'[x].exists
                        /\ balance'[x].qty = committed[x].qty + Total(rows'[t][x])
      BY <1>8 DEF LockInv
    <2>1. CASE x = y
      <3>1. RunningTotals(new)
        BY <1>1, <1>4 DEF IInv, LockInv, old
      <3>2. balance'[y].qty = committed[y].qty + Total(new)
        BY <1>1, <1>4, <1>7, <1>9
      <3>3. \A t \in Session \ {s} : rows'[t][y] = <<>> /\ RunningTotals(rows'[t][y])
        BY <1>1, <1>6, <1>9, EmptySeq DEF RunningTotals
      <3> QED
        <4>1. lock'[y] = s /\ rows'[s][y] = new /\ new # <<>> /\ s # NoSession
          BY <1>4, <1>6, <1>7
        <4>2. /\ lock'[y] = s <=> rows'[s][y] # <<>>
              /\ RunningTotals(rows'[s][y]) /\ balance'[y].exists
              /\ balance'[y].qty = committed[y].qty + Total(rows'[s][y])
          BY <4>1, <1>7, <3>1, <3>2
        <4> SUFFICES ASSUME NEW t \in Session
            PROVE /\ lock'[y] = t <=> rows'[t][y] # <<>>
                  /\ RunningTotals(rows'[t][y])
                  /\ lock'[y] = t =>
                       /\ balance'[y].exists
                       /\ balance'[y].qty = committed[y].qty + Total(rows'[t][y])
          BY <2>1, <4>1
        <4>3. CASE t = s
          BY <4>2, <4>3
        <4>4. CASE t # s
          BY <4>1, <4>4, <3>3
        <4> QED
          BY <4>3, <4>4
    <2>2. CASE x # y
      <3>1. lock'[x] = lock[x] /\ balance'[x] = balance[x]
        BY <2>2, <1>7
      <3>2. \A t \in Session : rows'[t][x] = rows[t][x]
        BY <2>2, <1>6
      <3> QED
        BY <3>1, <3>2 DEF IInv, LockInv
    <2> QED
      BY <2>1, <2>2
  <1>13. BalanceIsLedgerSum' /\ NeverNegative'
    BY <1>8 DEF IInv, BalanceIsLedgerSum, NeverNegative
  <1>14. PendingNonNegative'
    <2> SUFFICES ASSUME NEW x \in Dim, NEW t \in Session, NEW i \in 1..Len(rows'[t][x])
                 PROVE  committed[x].qty + rows'[t][x][i].total >= 0
      BY <1>8 DEF PendingNonNegative
    <2>1. CASE t # s \/ x # y
      BY <2>1, <1>6 DEF IInv, PendingNonNegative
    <2>2. CASE t = s /\ x = y /\ i \in 1..Len(old)
      BY <2>2, <1>4, <1>6 DEF IInv, PendingNonNegative, old
    <2>3. CASE t = s /\ x = y /\ i = Len(old) + 1
      <3>1. balance[y].qty + Delta(s) >= 0
        BY DEF y
      <3> QED
        BY <2>3, <3>1, <1>1, <1>4, <1>6, <1>9
    <2> QED
      BY <2>1, <2>2, <2>3, <1>3, <1>4, <1>6
  <1>15. CitationInv'
    <2> SUFFICES ASSUME NEW x \in Dim, NEW t \in Session, NEW i \in 1..Len(rows'[t][x])
                 PROVE  rows'[t][x][i].doc = doc[t]
      BY <1>8 DEF IInv, CitationInv
    <2>1. CASE t # s \/ x # y
      BY <2>1, <1>6 DEF IInv, CitationInv
    <2>2. CASE t = s /\ x = y /\ i \in 1..Len(old)
      BY SMTT(60), <2>2, <1>4, <1>6 DEF IInv, CitationInv, old
    <2>3. CASE t = s /\ x = y /\ i = Len(old) + 1
      BY <2>3, <1>4, <1>6
    <2> QED
      BY <2>1, <2>2, <2>3, <1>3, <1>4, <1>6
  <1> QED
    BY <1>10, <1>11, <1>12, <1>13, <1>14, <1>15 DEF IInv

-----------------------------------------------------------------------------
(* The invariant is inductive.                                             *)

\* The invariant holds in the initial states.
LEMMA InitEstablishes == Init => IInv
  <1> SUFFICES ASSUME Init  PROVE IInv
    OBVIOUS
  <1> USE PostingAssumption
  <1>1. ASSUME NEW x \in Dim, InitialStock[x] # 0
        PROVE  /\ ledger[x] = <<[doc |-> Prior, move |-> 0,
                               delta |-> InitialStock[x], total |-> InitialStock[x]]>>
               /\ ledger[x] \in Seq(Entry)
    <2>1. InitialStock[x] \in Nat
      OBVIOUS
    <2>2. ledger[x] = <<[doc |-> Prior, move |-> 0,
                        delta |-> InitialStock[x], total |-> InitialStock[x]]>>
      BY <1>1, <2>1 DEF Init, NewEntry, Total
    <2>3. [doc |-> Prior, move |-> 0,
           delta |-> InitialStock[x], total |-> InitialStock[x]] \in Entry
      BY <2>1 DEF Entry
    <2> QED
      BY <2>2, <2>3
  <1>2. ASSUME NEW x \in Dim, InitialStock[x] = 0
        PROVE  ledger[x] = <<>>
    BY <1>2 DEF Init
  <1>3. /\ TypeOK
        /\ committed = balance
        /\ \A x \in Dim : /\ balance[x].qty = InitialStock[x]
                          /\ balance[x].exists <=> InitialStock[x] > 0
                          /\ InitialStock[x] \in Nat
    <2>1. ledger \in [Dim -> Seq(Entry)]
      <3>1. \A x \in Dim : ledger[x] \in Seq(Entry)
        BY <1>1, <1>2, EmptySeq
      <3> QED
        BY <3>1 DEF Init
    <2>2. /\ balance \in [Dim -> Row] /\ committed = balance
          /\ \A x \in Dim : /\ balance[x].qty = InitialStock[x]
                            /\ balance[x].exists <=> InitialStock[x] > 0
      <3>1. /\ balance = [x \in Dim |-> [exists |-> InitialStock[x] > 0,
                                         qty    |-> InitialStock[x]]]
            /\ committed = balance
        BY DEF Init
      <3>2. \A x \in Dim : InitialStock[x] \in Int /\ (InitialStock[x] > 0) \in BOOLEAN
        OBVIOUS
      <3> QED
        BY <3>1, <3>2 DEF Row
    <2> QED
      BY <2>1, <2>2, EmptySeq DEF Init, TypeOK, Status
  <1>4. ControlInv
    BY DEF Init, ControlInv
  <1>5. LockInv
    BY <1>3, EmptySeq DEF Init, LockInv, RunningTotals
  <1>6. BalanceIsLedgerSum /\ NeverNegative
    <2> SUFFICES ASSUME NEW x \in Dim
        PROVE /\ RunningTotals(ledger[x])
              /\ committed[x].qty = Total(ledger[x])
              /\ committed[x].exists <=> ledger[x] # <<>>
              /\ \A i \in 1..Len(ledger[x]) : ledger[x][i].total >= 0
      BY DEF BalanceIsLedgerSum, NeverNegative
    <2>1. CASE InitialStock[x] = 0
      BY <2>1, <1>2, <1>3, EmptySeq DEF RunningTotals, Total
    <2>2. CASE InitialStock[x] # 0
      <3> DEFINE row == [doc |-> Prior, move |-> 0,
                         delta |-> InitialStock[x], total |-> InitialStock[x]]
      <3>0. ledger[x] = <<row>>
        BY <2>2, <1>1
      <3>2. row.delta = InitialStock[x] /\ row.total = InitialStock[x]
        OBVIOUS
      <3> HIDE DEF row
      <3>1. /\ ledger[x] # <<>> /\ Len(ledger[x]) = 1 /\ ledger[x][1] = row
        BY <3>0
      <3>3. RunningTotals(ledger[x]) /\ Total(ledger[x]) = InitialStock[x]
        BY <3>1, <3>2, <1>3 DEF RunningTotals, Total
      <3> QED
        BY <3>1, <3>2, <3>3, <2>2, <1>3
    <2> QED
      BY <2>1, <2>2
  <1>7. PendingNonNegative
    BY EmptySeq DEF Init, PendingNonNegative
  <1>8. CitationInv
    <2> SUFFICES ASSUME NEW x \in Dim, NEW i \in 1..Len(ledger[x])
                 PROVE  ledger[x][i].doc = Prior
      BY EmptySeq DEF Init, CitationInv
    <2>1. CASE InitialStock[x] = 0
      BY <2>1, <1>2, EmptySeq
    <2>2. CASE InitialStock[x] # 0
      <3> DEFINE row == [doc |-> Prior, move |-> 0,
                         delta |-> InitialStock[x], total |-> InitialStock[x]]
      <3>1. ledger[x] = <<row>> /\ row.doc = Prior
        BY <2>2, <1>1
      <3> HIDE DEF row
      <3>2. i = 1 /\ ledger[x][1] = row
        BY <3>1
      <3> QED
        BY <3>1, <3>2
    <2> QED
      BY <2>1, <2>2
  <1> QED
    BY <1>3, <1>4, <1>5, <1>6, <1>7, <1>8 DEF IInv

\* Every step of the specification keeps the invariant.
LEMMA NextPreserves == IInv /\ [Next]_vars => IInv'
  <1> SUFFICES ASSUME IInv, [Next]_vars  PROVE IInv'
    OBVIOUS
  <1> USE PostingAssumption
  <1>0. TypeOK /\ ControlInv
    BY DEF IInv
  <1>1. ASSUME NEW d \in Doc, Create(d)  PROVE IInv'
    <2>1. TypeOK'
      BY <1>0, <1>1 DEF TypeOK, Create, Status, tables
    <2>2. ControlInv'
      BY <1>0, <1>1 DEF ControlInv, Create, tables
    <2>3. \A e \in Doc : status[e] = "posted" => status'[e] = "posted"
      BY <1>0, <1>1 DEF TypeOK, Create
    <2> QED
      BY <2>1, <2>2, <2>3, <1>1, TablesUntouched DEF Create
  <1>2. ASSUME NEW d \in Doc, Delete(d)  PROVE IInv'
    <2>1. TypeOK'
      BY <1>0, <1>2 DEF TypeOK, Delete, Status, tables
    <2>2. ControlInv'
      BY <1>0, <1>2 DEF ControlInv, Delete, tables
    <2>3. \A e \in Doc : status[e] = "posted" => status'[e] = "posted"
      BY <1>0, <1>2 DEF TypeOK, Delete
    <2> QED
      BY <2>1, <2>2, <2>3, <1>2, TablesUntouched DEF Delete
  <1>3. ASSUME NEW s \in Session, NEW d \in Doc, Begin(s, d)  PROVE IInv'
    <2>1. TypeOK'
      BY <1>0, <1>3 DEF TypeOK, Begin, tables
    <2>2. ControlInv'
      <3>1. todo[s] = <<>> /\ Len(todo[s]) <= Len(Moves[d])
        BY <1>0, <1>3, EmptySeq DEF ControlInv, Begin
      <3> QED
        BY <3>1, <1>0, <1>3 DEF TypeOK, ControlInv, Begin, tables
    <2>3. \A t \in Session : pc[t] \notin {"idle", "lines"} => doc'[t] = doc[t]
      BY <1>0, <1>3 DEF TypeOK, Begin
    <2> QED
      BY <2>1, <2>2, <2>3, <1>3, TablesUntouched DEF Begin
  <1>4. ASSUME NEW s \in Session, ReadLines(s)  PROVE IInv'
    <2>1. doc[s] \in Doc
      BY <1>0, <1>4 DEF ControlInv, ReadLines
    <2>2. TypeOK'
      BY <1>0, <1>4, <2>1, EmptySeq DEF TypeOK, ReadLines, tables
    <2>3. ControlInv'
      <3>1. /\ Moves[doc[s]] \in Seq(Move)
            /\ Len(<<>>) = 0 /\ Len(Moves[doc[s]]) \in Nat
        BY <2>1
      <3>2. Len(todo'[s]) <= Len(Moves[doc[s]])
        BY <3>1, <1>0, <1>4 DEF TypeOK, ReadLines
      <3> QED
        BY <3>2, <2>1, <1>0, <1>4 DEF TypeOK, ControlInv, ReadLines, tables
    <2> QED
      BY <2>2, <2>3, <1>4, TablesUntouched DEF ReadLines
  <1>5. ASSUME NEW s \in Session, ReadCount(s)  PROVE IInv'
    <2>1. /\ Cur(s) \in Move /\ Cur(s).dim \in Dim /\ Tail(todo[s]) \in Seq(Move)
          /\ Len(Tail(todo[s])) = Len(todo[s]) - 1 /\ Len(todo[s]) \in Nat \ {0}
      BY <1>0, <1>5, CurType DEF ReadCount
    <2>2. Available(s, Cur(s).dim) \in Int /\ Cur(s).qty \in Int
      <3>1. Seen(s, Cur(s).dim) \in Row
        BY <1>0, <2>1 DEF TypeOK, Seen
      <3> QED
        BY <3>1, <2>1 DEF Available, Row, Move
    <2>3. TypeOK'
      <3>1. diff' \in [Session -> Int]
        BY <1>0, <1>5, <2>2 DEF TypeOK, ReadCount
      <3>2. pc' \in [Session -> {"idle", "lines", "move", "guard", "post", "insert",
                             "hung"}]
        BY <1>0, <1>5 DEF TypeOK, ReadCount
      <3>3. todo' \in [Session -> Seq(Move)]
        BY <1>0, <1>5, <2>1 DEF TypeOK, ReadCount
      <3> QED
        BY <3>1, <3>2, <3>3, <1>0, <1>5 DEF TypeOK, ReadCount, tables
    <2>4. ControlInv'
      <3>1. /\ doc[s] \in Doc /\ Len(todo[s]) <= Len(Moves[doc[s]])
            /\ Len(Moves[doc[s]]) \in Nat
        BY <1>0, <1>5 DEF ControlInv, ReadCount
      <3>2. \/ pc'[s] \in {"guard", "post"} /\ todo'[s] = todo[s]
            \/ pc'[s] = "move" /\ todo'[s] \in {todo[s], Tail(todo[s])}
        BY <1>0, <1>5, <2>2 DEF TypeOK, ReadCount
      <3>3. todo[s] # <<>> /\ Len(todo'[s]) <= Len(Moves[doc[s]])
        BY <3>1, <3>2, <2>1, <1>5 DEF ReadCount
      <3>4. \A t \in Session \ {s} : pc'[t] = pc[t] /\ todo'[t] = todo[t]
        BY <1>0, <1>5 DEF TypeOK, ReadCount
      <3> QED
        BY <3>1, <3>2, <3>3, <3>4, <1>0, <1>5 DEF ControlInv, ReadCount, tables
    <2> QED
      BY <2>3, <2>4, <1>5, TablesUntouched DEF ReadCount
  <1>6. ASSUME NEW s \in Session, GuardPasses(s)  PROVE IInv'
    <2>1. TypeOK'
      BY <1>0, <1>6 DEF TypeOK, GuardPasses, tables
    <2>2. pc[s] \notin {"idle", "lines"} /\ todo[s] # <<>>
      BY <1>0, <1>6 DEF ControlInv, GuardPasses, Guarding
    <2>3. ControlInv'
      BY <2>2, <1>0, <1>6 DEF TypeOK, ControlInv, GuardPasses, tables
    <2> QED
      BY <2>1, <2>3, <1>6, TablesUntouched DEF GuardPasses
  <1>6a. ASSUME NEW s \in Session, ReadCost(s)  PROVE IInv'
    <2>1. TypeOK'
      BY <1>0, <1>6a DEF TypeOK, ReadCost, tables
    <2>2. pc[s] \notin {"idle", "lines"} /\ todo[s] # <<>>
      BY <1>6a DEF ReadCost
    <2>3. ControlInv'
      BY <2>2, <1>0, <1>6a DEF TypeOK, ControlInv, ReadCost, tables
    <2> QED
      BY <2>1, <2>3, <1>6a, TablesUntouched DEF ReadCost
  <1>7. ASSUME NEW s \in Session, Posting(s)  PROVE pc[s] # "idle" /\ todo[s] # <<>>
    BY <1>0, <1>7 DEF ControlInv, Posting
  <1>8. ASSUME NEW s \in Session, UpdateBalance(s)  PROVE IInv'
    BY <1>7, <1>8, PostPreserves DEF UpdateBalance, BalanceCheck
  <1>9. ASSUME NEW s \in Session, RowMissing(s)  PROVE IInv'
    <2>1. TypeOK'
      BY <1>0, <1>9 DEF TypeOK, RowMissing, tables
    <2>2. pc[s] \notin {"idle", "lines"} /\ todo[s] # <<>>
      BY <1>7, <1>9 DEF RowMissing, Posting
    <2>3. ControlInv'
      BY <2>2, <1>0, <1>9 DEF TypeOK, ControlInv, RowMissing, tables
    <2> QED
      BY <2>1, <2>3, <1>9, TablesUntouched DEF RowMissing
  <1>10. ASSUME NEW s \in Session, InsertBalance(s)  PROVE IInv'
    <2> DEFINE y == Cur(s).dim
    <2>1. todo[s] # <<>> /\ pc[s] # "idle"
      BY <1>0, <1>10 DEF ControlInv, InsertBalance
    <2>2. y \in Dim /\ Delta(s) \in Int
      BY <1>0, <2>1, CurType
    <2>3. lock[y] \in Session \union {NoSession} /\ ~balance[y].exists
      BY <1>0, <1>10, <2>2 DEF TypeOK, InsertBalance
    <2> HIDE DEF y
    <2>4. balance[y] = committed[y]
      BY <2>2, <2>3 DEF IInv, LockInv
    <2>5. committed[y].qty = 0
      BY <2>2, <2>3, <2>4 DEF IInv, BalanceIsLedgerSum, Total
    <2>6. balance[y].qty + Delta(s) >= 0
      BY <2>2, <2>4, <2>5, <1>10 DEF InsertBalance, BalanceCheck
    <2> QED
      BY <2>1, <2>6, <1>10, PostPreserves DEF InsertBalance, y
  <1>11. ASSUME NEW s \in Session, Rollback(s)  PROVE IInv'
    BY <1>11, RollbackPreserves
  <1>12. ASSUME NEW s \in Session, Finish(s)  PROVE IInv'
    BY <1>12, FinishPreserves
  <1>13. CASE UNCHANGED vars
    <2>1. TypeOK' /\ ControlInv'
      BY <1>0, <1>13 DEF TypeOK, ControlInv, vars, tables
    <2> QED
      BY <2>1, <1>13, TablesUntouched DEF vars
  <1>14. ASSUME NEW s \in Session, Step(s)  PROVE IInv'
    <2>1. (GuardFails(s) \/ CheckViolation(s) \/ InsertFails(s)
             \/ HeaderGone(s) \/ DeadlockVictim(s)) => Rollback(s)
      BY DEF GuardFails, CheckViolation, InsertFails, HeaderGone, DeadlockVictim
    <2> QED
      BY <2>1, <1>4, <1>5, <1>6, <1>6a, <1>8, <1>9, <1>10, <1>11, <1>12, <1>14 DEF Step
  <1> QED
    BY <1>1, <1>2, <1>3, <1>11, <1>13, <1>14 DEF Next, Fail

\* The inductive invariant holds in every reachable state.
THEOREM Inductive == Spec => []IInv
  <1> QED
    BY InitEstablishes, NextPreserves, PTL DEF Spec

-----------------------------------------------------------------------------
(* The properties.                                                         *)

(***************************************************************************)
(* The stock tables and the state of every approval keep their types.      *)
(***************************************************************************)
THEOREM TypeCorrect == Spec => []TypeOK
  <1>1. IInv => TypeOK
    BY DEF IInv
  <1> QED
    BY <1>1, Inductive, PTL

(***************************************************************************)
(* The balance every request can see is the sum of the committed ledger,   *)
(* however approvals interleave, time out or fail: the trigger's row lock  *)
(* (Free) is what the proof rests on.                                      *)
(***************************************************************************)
THEOREM LedgerSum == Spec => []BalanceIsLedgerSum
  <1>1. IInv => BalanceIsLedgerSum
    BY DEF IInv
  <1> QED
    BY <1>1, Inductive, PTL

(***************************************************************************)
(* No committed prefix of the ledger sums to a negative quantity, although *)
(* the guard of postStockMovement reads without a lock.                    *)
(***************************************************************************)
THEOREM StockNeverNegative == Spec => []NeverNegative
  <1>1. IInv => NeverNegative
    BY DEF IInv
  <1> QED
    BY <1>1, Inductive, PTL

(***************************************************************************)
(* A document that is not posted has no row in the ledger, however its     *)
(* approval raced with its deletion or failed half way.                    *)
(***************************************************************************)
THEOREM DraftsMoveNothing == Spec => []OnlyPostedDocumentsHaveMovements
  <1>1. IInv => OnlyPostedDocumentsHaveMovements
    <2> SUFFICES ASSUME IInv, NEW d \in Doc \ Opening, NEW m \in 1..Len(Moves[d]),
                        status[d] # "posted", NEW p \in Postings(d, m)
                 PROVE  FALSE
      BY DEF OnlyPostedDocumentsHaveMovements
    <2>1. PICK x \in Dim : p \in {x} \X (1..Len(ledger[x]))
      BY DEF Postings
    <2>2. p[1] = x /\ p[2] \in 1..Len(ledger[x])
      BY <2>1
    <2>3. ledger[x][p[2]].doc = d
      BY <2>2 DEF Postings
    <2> QED
      BY <2>2, <2>3 DEF IInv, CitationInv
  <1> QED
    BY <1>1, Inductive, PTL

-----------------------------------------------------------------------------
(* Atomicity: what a transaction has posted of its document.               *)

\* The session has read the lines of its document.
Working(s) == pc[s] \notin {"idle", "lines"}

\* How many movements of its document the session is done with.
Past(s) == Len(Moves[doc[s]]) - Len(todo[s])

\* What a movement other than a count adds to the stock.
Signed(move) == IF move.type = "out" THEN -move.qty ELSE move.qty

\* What is still to be posted are the last movements of the document.
TodoInv(s) ==
  \A i \in 1..Len(todo[s]) : todo[s][i] = Moves[doc[s]][Past(s) + i]

\* An uncommitted row posts a movement the session is done with, in full, and
\* no other row of its dimension posts the same movement.
PendingRow(s, x, i) ==
  LET row  == rows[s][x][i]
      move == Moves[doc[s]][row.move]
  IN  /\ row.move \in 1..Past(s)
      /\ move.dim = x
      /\ move.type # "count" => row.delta = Signed(move)
      /\ \A j \in 1..Len(rows[s][x]) : rows[s][x][j].move = row.move => j = i

PendingInv(s) == \A x \in Dim : \A i \in 1..Len(rows[s][x]) : PendingRow(s, x, i)

\* Unless its document has no lines any more, the session has a row for each
\* movement it is done with, but for counts that found nothing to correct.
DoneInv(s) ==
  status[doc[s]] # "deleted" =>
    \A m \in 1..Past(s) :
      LET move == Moves[doc[s]][m]
      IN  move.type # "count" =>
            \E i \in 1..Len(rows[s][move.dim]) : rows[s][move.dim][i].move = m

ProgressInv(s) == Working(s) => TodoInv(s) /\ PendingInv(s) /\ DoneInv(s)

\* A committed row of a document posts one of its movements, where it belongs.
PlaceInv ==
  \A x \in Dim : \A i \in 1..Len(ledger[x]) :
    LET row == ledger[x][i]
    IN  row.doc \in Doc => /\ row.move \in 1..Len(Moves[row.doc])
                           /\ Moves[row.doc][row.move].dim = x

AInv ==
  /\ IInv
  /\ \A d \in Opening : status[d] = "absent"
  /\ \A s \in Session : ProgressInv(s)
  /\ PlaceInv
  /\ MovementsPostTogether

-----------------------------------------------------------------------------
(* Lemmas about one step.                                                  *)

\* The rows of a session stay as they are while it goes on in its document.
LEMMA PendingKept ==
  ASSUME NEW s, PendingInv(s), rows'[s] = rows[s], doc'[s] = doc[s],
         1..Past(s) \subseteq 1..Past(s)'
  PROVE  PendingInv(s)'
  <1> SUFFICES ASSUME NEW x \in Dim, NEW i \in 1..Len(rows'[s][x])
               PROVE  PendingRow(s, x, i)'
    BY DEF PendingInv
  <1>1. i \in 1..Len(rows[s][x])
    OBVIOUS
  <1>2. PendingRow(s, x, i)
    BY <1>1 DEF PendingInv
  <1> QED
    BY <1>2 DEF PendingRow

\* A session keeps its part of the invariant while others work, whatever they
\* do to documents but bring one back that was deleted.
LEMMA OtherSession ==
  ASSUME NEW t \in Session, ProgressInv(t),
         pc'[t] = pc[t], doc'[t] = doc[t], todo'[t] = todo[t], rows'[t] = rows[t],
         status[doc[t]] = "deleted" => status'[doc[t]] = "deleted"
  PROVE  ProgressInv(t)'
  <1>1. Past(t)' = Past(t) /\ (Working(t)' <=> Working(t))
    BY DEF Past, Working
  <1>2. TodoInv(t) => TodoInv(t)'
    BY <1>1 DEF TodoInv
  <1>3. PendingInv(t) => PendingInv(t)'
    BY <1>1, PendingKept
  <1>4. DoneInv(t) => DoneInv(t)'
    BY <1>1 DEF DoneInv
  <1> QED
    BY <1>1, <1>2, <1>3, <1>4 DEF ProgressInv

\* The committed ledger decides what PlaceInv and MovementsPostTogether say.
LEMMA LedgerUntouched ==
  ASSUME PlaceInv, MovementsPostTogether, UNCHANGED ledger
  PROVE  PlaceInv' /\ MovementsPostTogether'
  <1>1. PlaceInv'
    BY DEF PlaceInv
  <1>2. \A d \in Doc : \A m \in 1..Len(Moves[d]) : Postings(d, m)' = Postings(d, m)
    BY DEF Postings
  <1>3. MovementsPostTogether'
    BY <1>2 DEF MovementsPostTogether
  <1> QED
    BY <1>1, <1>3

\* A step between two statements of session s that posts nothing.
LEMMA QuietStep ==
  ASSUME AInv, NEW s \in Session, Working(s), UNCHANGED <<status, tables, doc>>,
         pc' = [pc EXCEPT ![s] = pc'[s]], Working(s)',
         \/ todo' = todo
         \/ /\ todo[s] # <<>> /\ Cur(s).type = "count"
            /\ todo' = [todo EXCEPT ![s] = Tail(todo[s])],
         IInv'
  PROVE  AInv'
  <1>0. TypeOK /\ doc[s] \in Doc /\ Len(todo[s]) <= Len(Moves[doc[s]])
    BY DEF AInv, IInv, ControlInv, Working
  <1>1. UNCHANGED <<status, rows, ledger, doc>>
    BY DEF tables
  <1>2. ASSUME NEW t \in Session, t # s  PROVE ProgressInv(t)'
    <2>1. pc'[t] = pc[t] /\ todo'[t] = todo[t]
      BY <1>0, <1>2 DEF TypeOK
    <2> QED
      BY <1>1, <2>1, OtherSession DEF AInv
  <1>3. ProgressInv(s)'
    <2>1. TodoInv(s) /\ PendingInv(s) /\ DoneInv(s)
      BY DEF AInv, ProgressInv
    <2>2. CASE todo' = todo
      <3>1. Past(s)' = Past(s)
        BY <1>1, <2>2 DEF Past
      <3>2. TodoInv(s)'
        BY <1>1, <2>1, <2>2, <3>1 DEF TodoInv
      <3>3. PendingInv(s)'
        BY <1>1, <2>1, <3>1, PendingKept
      <3>4. DoneInv(s)'
        BY <1>1, <2>1, <3>1 DEF DoneInv
      <3> QED
        BY <3>2, <3>3, <3>4 DEF ProgressInv
    <2>3. CASE /\ todo[s] # <<>> /\ Cur(s).type = "count"
               /\ todo' = [todo EXCEPT ![s] = Tail(todo[s])]
      <3>1. /\ todo[s] \in Seq(Move) /\ todo'[s] = Tail(todo[s])
            /\ Len(todo'[s]) = Len(todo[s]) - 1 /\ Len(todo[s]) \in Nat \ {0}
            /\ \A i \in 1..Len(todo'[s]) : todo'[s][i] = todo[s][i + 1]
        BY <1>0, <2>3 DEF TypeOK
      <3>2. Len(Moves[doc[s]]) \in Nat
        BY <1>0, PostingAssumption
      <3>3. Past(s) \in Nat /\ Past(s)' = Past(s) + 1
        <4>1. Past(s)' = Len(Moves[doc[s]]) - Len(todo'[s])
          BY <1>1 DEF Past
        <4> DEFINE a == Len(Moves[doc[s]])
                   b == Len(todo[s])
                   c == Len(todo'[s])
        <4>2. a \in Nat /\ b \in Nat \ {0} /\ b <= a /\ c = b - 1
          BY <1>0, <3>1, <3>2
        <4>3. Past(s) = a - b /\ Past(s)' = a - c
          BY <4>1 DEF Past
        <4> HIDE DEF a, b, c
        <4> QED
          BY <4>2, <4>3
      <3>4. Moves[doc[s]][Past(s) + 1].type = "count"
        <4>1. todo[s][1] = Moves[doc[s]][Past(s) + 1]
          BY <2>1, <3>1 DEF TodoInv
        <4> QED
          BY <2>3, <4>1 DEF Cur
      <3>5. TodoInv(s)'
        <4> SUFFICES ASSUME NEW i \in 1..Len(todo'[s])
                     PROVE  todo'[s][i] = Moves[doc[s]][Past(s)' + i]
          BY <1>1 DEF TodoInv
        <4>1. i + 1 \in 1..Len(todo[s]) /\ todo'[s][i] = todo[s][i + 1]
          BY <3>1
        <4>2. todo[s][i + 1] = Moves[doc[s]][Past(s) + (i + 1)]
          BY <2>1, <4>1 DEF TodoInv
        <4>3. Past(s) + (i + 1) = Past(s)' + i
          BY <3>3
        <4> QED
          BY <4>1, <4>2, <4>3
      <3>6. PendingInv(s)'
        <4>1. 1..Past(s) \subseteq 1..Past(s)'
          BY <3>3
        <4> QED
          BY <1>1, <2>1, <4>1, PendingKept
      <3>7. DoneInv(s)'
        <4>1. \A m \in 1..Past(s)' : Moves[doc[s]][m].type # "count" => m \in 1..Past(s)
          BY <3>3, <3>4
        <4> QED
          BY <1>1, <2>1, <4>1 DEF DoneInv
      <3> QED
        BY <3>5, <3>6, <3>7 DEF ProgressInv
    <2> QED
      BY <2>2, <2>3
  <1>4. PlaceInv' /\ MovementsPostTogether'
    BY <1>1, LedgerUntouched DEF AInv
  <1> QED
    BY <1>1, <1>2, <1>3, <1>4 DEF AInv

\* A row that is posted is the next movement's.
LEMMA PostAdvances ==
  ASSUME AInv, NEW s \in Session, Working(s), todo[s] # <<>>, Post(s), IInv'
  PROVE  AInv'
  <1> USE PostingAssumption
  <1> DEFINE y == Cur(s).dim
             m == Len(Moves[doc[s]]) - Len(todo[s]) + 1
             old == rows[s][y]
             row == NewEntry(doc[s], m, Delta(s), old)
             new == Append(old, row)
  <1>0. TypeOK /\ doc[s] \in Doc /\ Len(todo[s]) <= Len(Moves[doc[s]])
    BY DEF AInv, IInv, ControlInv, Working
  <1>1. /\ y \in Dim /\ Delta(s) \in Int /\ Cur(s) \in Move
        /\ Len(Tail(todo[s])) = Len(todo[s]) - 1 /\ Len(todo[s]) \in Nat \ {0}
    BY <1>0, CurType
  <1>2. /\ TodoInv(s) /\ PendingInv(s) /\ DoneInv(s)
    BY DEF AInv, ProgressInv
  <1>3. /\ Len(Moves[doc[s]]) \in Nat /\ m \in Nat /\ Past(s) \in Nat /\ m = Past(s) + 1
        /\ m \in 1..Len(Moves[doc[s]])
    <2>1. Len(Moves[doc[s]]) \in Nat
      BY <1>0
    <2> DEFINE a == Len(Moves[doc[s]])
               b == Len(todo[s])
    <2>2. a \in Nat /\ b \in Nat \ {0} /\ b <= a
      BY <1>0, <1>1, <2>1
    <2>3. Past(s) = a - b /\ m = a - b + 1
      BY DEF Past
    <2> HIDE DEF a, b, m
    <2>4. a \in Nat /\ m \in Nat /\ Past(s) \in Nat /\ m = Past(s) + 1 /\ m \in 1..a
      BY <2>2, <2>3
    <2> QED
      BY <2>4 DEF a
  <1>4. Cur(s) = Moves[doc[s]][m]
    <2>1. todo[s][1] = Moves[doc[s]][Past(s) + 1]
      <3>1. TodoInv(s) /\ 1 \in 1..Len(todo[s])
        BY <1>1, <1>2
      <3> QED
        BY SMTT(60), <3>1 DEF TodoInv
    <2>2. Cur(s) = todo[s][1]
      BY DEF Cur
    <2>3. Past(s) + 1 = m
      BY <1>3
    <2> HIDE DEF m
    <2> QED
      BY <2>1, <2>2, <2>3
  <1>5. /\ UNCHANGED <<status, ledger, doc>> /\ rows' = [rows EXCEPT ![s][y] = new]
        /\ pc' = [pc EXCEPT ![s] = "move"] /\ todo' = [todo EXCEPT ![s] = Tail(todo[s])]
    BY DEF Post
  <1>6. row.move = m /\ row.delta = Delta(s)
    BY DEF NewEntry
  <1>7. old \in Seq(Entry)
    BY <1>0, <1>1 DEF TypeOK
  <1> HIDE DEF row, m
  <1>8. /\ Len(new) = Len(old) + 1 /\ new[Len(old) + 1] = row /\ Len(old) \in Nat
        /\ \A i \in 1..Len(old) : new[i] = old[i]
    <2>1. row \in Entry
      BY <1>0, <1>1, <1>3, <1>7, NewRow DEF row
    <2> QED
      BY <1>7, <2>1
  <1> HIDE DEF new, y
  <1>9. /\ rows'[s][y] = new /\ todo'[s] = Tail(todo[s]) /\ pc'[s] = "move"
        /\ \A x \in Dim \ {y} : rows'[s][x] = rows[s][x]
        /\ \A t \in Session \ {s} : /\ rows'[t] = rows[t] /\ pc'[t] = pc[t]
                                    /\ todo'[t] = todo[t]
    BY <1>0, <1>1, <1>5 DEF TypeOK
  <1>10. Past(s)' = m
    <2>1. Past(s)' = Len(Moves[doc[s]]) - Len(todo'[s])
      BY <1>5 DEF Past
    <2> DEFINE a == Len(Moves[doc[s]])
               b == Len(todo[s])
               c == Len(todo'[s])
    <2>2. a \in Nat /\ b \in Nat \ {0} /\ c = b - 1
      BY <1>1, <1>3, <1>9
    <2>3. Past(s)' = a - c /\ m = a - b + 1
      BY <2>1 DEF m
    <2> HIDE DEF a, b, c
    <2> QED
      BY <2>2, <2>3
  <1>11. TodoInv(s)'
    <2> SUFFICES ASSUME NEW i \in 1..Len(todo'[s])
                 PROVE  todo'[s][i] = Moves[doc[s]][Past(s)' + i]
      BY <1>5 DEF TodoInv
    <2>1. todo[s] \in Seq(Move)
      BY <1>0 DEF TypeOK
    <2>2. i + 1 \in 1..Len(todo[s]) /\ todo'[s][i] = todo[s][i + 1]
      BY <1>1, <1>9, <2>1
    <2>3. todo[s][i + 1] = Moves[doc[s]][Past(s) + (i + 1)]
      BY <1>2, <2>2 DEF TodoInv
    <2>4. Past(s) + (i + 1) = Past(s)' + i
      BY <1>3, <1>10
    <2> QED
      BY <2>2, <2>3, <2>4
  <1>12. \A i \in 1..Len(old) :
           /\ old[i].move \in 1..Past(s) /\ old[i].move # m
           /\ \A j \in 1..Len(old) : old[j].move = old[i].move => j = i
    <2>1. y \in Dim /\ old = rows[s][y]
      BY <1>1 DEF old, y
    <2>2. ASSUME NEW i \in 1..Len(old)  PROVE PendingRow(s, y, i)
      BY <1>2, <2>1, <2>2 DEF PendingInv
    <2>3. ASSUME NEW i \in 1..Len(old)
          PROVE  /\ old[i].move \in 1..Past(s)
                 /\ \A j \in 1..Len(old) : old[j].move = old[i].move => j = i
      BY <2>1, <2>2 DEF PendingRow
    <2>4. \A k \in 1..Past(s) : k # m
      BY <1>3
    <2> QED
      BY <2>3, <2>4
  <1>13. PendingInv(s)'
    <2> SUFFICES ASSUME NEW x \in Dim, NEW i \in 1..Len(rows'[s][x])
                 PROVE  PendingRow(s, x, i)'
      BY DEF PendingInv
    <2> SUFFICES
           /\ rows'[s][x][i].move \in 1..m
           /\ Moves[doc[s]][rows'[s][x][i].move].dim = x
           /\ Moves[doc[s]][rows'[s][x][i].move].type # "count" =>
                rows'[s][x][i].delta = Signed(Moves[doc[s]][rows'[s][x][i].move])
           /\ \A j \in 1..Len(rows'[s][x]) :
                rows'[s][x][j].move = rows'[s][x][i].move => j = i
      BY <1>5, <1>10 DEF PendingRow
    <2>0. 1..Past(s) \subseteq 1..m /\ m \in 1..m
      BY <1>3
    <2>1. CASE x # y
      <3>1. rows'[s][x] = rows[s][x]
        BY <1>9, <2>1
      <3>2. PendingRow(s, x, i)
        BY <1>2, <3>1 DEF PendingInv
      <3> QED
        BY <2>0, <3>1, <3>2 DEF PendingRow
    <2>2. CASE x = y /\ i \in 1..Len(old)
      <3>1. /\ new[i] = old[i] /\ new[Len(old) + 1].move # old[i].move
            /\ Len(new) = Len(old) + 1 /\ Len(old) \in Nat
        BY <1>6, <1>8, <1>12, <2>2
      <3>2. /\ Moves[doc[s]][old[i].move].dim = y
            /\ Moves[doc[s]][old[i].move].type # "count" =>
                 old[i].delta = Signed(Moves[doc[s]][old[i].move])
        <4>1. PendingRow(s, y, i)
          BY <1>2, <2>2 DEF PendingInv, old
        <4> QED
          BY <4>1 DEF PendingRow, old
      <3>3. ASSUME NEW j \in 1..Len(new), new[j].move = new[i].move  PROVE j = i
        <4>1. j \in 1..Len(old)
          BY <3>1, <3>3
        <4>2. old[j].move = old[i].move
          BY <1>8, <3>1, <3>3, <4>1
        <4> QED
          BY <1>12, <2>2, <4>1, <4>2
      <3>4. rows'[s][x] = new /\ old[i].move \in 1..m
        BY <1>9, <1>12, <2>0, <2>2
      <3> HIDE DEF old
      <3> QED
        BY <2>2, <3>1, <3>2, <3>3, <3>4
    <2>3. CASE x = y /\ i = Len(old) + 1
      <3>1. new[i].move = m /\ new[i].delta = Delta(s)
        BY <1>6, <1>8, <2>3
      <3>2. Moves[doc[s]][m].dim = y
        BY <1>4 DEF y
      <3>3. Moves[doc[s]][m].type # "count" => Delta(s) = Signed(Moves[doc[s]][m])
        BY <1>1, <1>4 DEF Delta, Signed, Move
      <3>4. ASSUME NEW j \in 1..Len(new), new[j].move = m  PROVE j = i
        <4>1. j \in 1..Len(old) => j \in 1..Len(old) /\ new[j] = old[j] /\ old[j].move # m
          BY <1>8, <1>12
        <4> HIDE DEF old
        <4> QED
          BY <1>8, <2>3, <3>4, <4>1
      <3>5. rows'[s][x] = new
        BY <1>9, <2>3
      <3> QED
        BY <2>0, <2>3, <3>1, <3>2, <3>3, <3>4, <3>5
    <2>4. x = y => i \in 1..Len(old) \/ i = Len(old) + 1
      <3>1. x = y => i \in 1..Len(new)
        BY <1>9
      <3> HIDE DEF old
      <3> QED
        BY <1>8, <3>1
    <2> QED
      BY <2>1, <2>2, <2>3, <2>4
  <1>14. DoneInv(s)'
    <2> SUFFICES ASSUME status'[doc'[s]] # "deleted", NEW n \in 1..Past(s)',
                        Moves[doc'[s]][n].type # "count"
        PROVE \E i \in 1..Len(rows'[s][Moves[doc'[s]][n].dim]) :
                rows'[s][Moves[doc'[s]][n].dim][i].move = n
      BY DEF DoneInv
    <2> SUFFICES ASSUME status[doc[s]] # "deleted", n \in 1..m,
                        Moves[doc[s]][n].type # "count"
        PROVE \E i \in 1..Len(rows'[s][Moves[doc[s]][n].dim]) :
                rows'[s][Moves[doc[s]][n].dim][i].move = n
      BY <1>5, <1>10
    <2>1. CASE n = m
      <3>1. Len(old) + 1 \in 1..Len(new) /\ new[Len(old) + 1].move = m
        BY <1>6, <1>8
      <3> QED
        BY <1>4, <1>9, <2>1, <3>1 DEF y
    <2>2. CASE n # m
      <3> DEFINE x == Moves[doc[s]][n].dim
      <3>1. n \in 1..Past(s)
        BY <1>3, <2>2
      <3>2. PICK i \in 1..Len(rows[s][x]) : rows[s][x][i].move = n
        BY <1>2, <3>1 DEF DoneInv
      <3>3. x \in Dim
        BY <1>0, <1>3 DEF Move
      <3> HIDE DEF x
      <3>4. i \in 1..Len(rows'[s][x]) /\ rows'[s][x][i] = rows[s][x][i]
        <4>1. CASE x = y
          BY <1>8, <1>9, <3>2, <4>1 DEF old
        <4>2. CASE x # y
          BY <1>9, <3>2, <3>3, <4>2
        <4> QED
          BY <4>1, <4>2
      <3> QED
        BY <3>2, <3>4 DEF x
    <2> QED
      BY <2>1, <2>2
  <1>15. \A t \in Session : ProgressInv(t)'
    <2>1. ProgressInv(s)'
      BY <1>11, <1>13, <1>14 DEF ProgressInv
    <2>2. ASSUME NEW t \in Session, t # s  PROVE ProgressInv(t)'
      BY <1>5, <1>9, <2>2, OtherSession DEF AInv
    <2> QED
      BY <2>1, <2>2
  <1>16. PlaceInv' /\ MovementsPostTogether'
    BY <1>5, LedgerUntouched DEF AInv
  <1> QED
    BY <1>5, <1>15, <1>16 DEF AInv

\* A rollback leaves nothing of the session's progress behind.
LEMMA RollbackForgets ==
  ASSUME AInv, NEW s \in Session, Rollback(s), IInv'
  PROVE  AInv'
  <1>0. TypeOK
    BY DEF AInv, IInv
  <1>1. /\ UNCHANGED <<status, ledger>> /\ pc'[s] = "idle"
        /\ \A t \in Session \ {s} : /\ rows'[t] = rows[t] /\ pc'[t] = pc[t]
                                    /\ doc'[t] = doc[t] /\ todo'[t] = todo[t]
    BY <1>0 DEF TypeOK, Rollback, Idle
  <1>2. \A t \in Session : ProgressInv(t)'
    <2>1. ProgressInv(s)'
      BY <1>1 DEF ProgressInv, Working
    <2>2. ASSUME NEW t \in Session, t # s  PROVE ProgressInv(t)'
      BY <1>1, <2>2, OtherSession DEF AInv
    <2> QED
      BY <2>1, <2>2
  <1>3. PlaceInv' /\ MovementsPostTogether'
    BY <1>1, LedgerUntouched DEF AInv
  <1> QED
    BY <1>1, <1>2, <1>3 DEF AInv

-----------------------------------------------------------------------------
(* The commit.                                                             *)

\* The rows that a committing session adds to the ledger of dimension x.
LEMMA Published ==
  ASSUME IInv, NEW s \in Session, Finish(s), NEW x \in Dim
  PROVE  /\ ledger[x] \in Seq(Entry) /\ rows[s][x] \in Seq(Entry)
         /\ Len(ledger[x]) \in Nat /\ Len(rows[s][x]) \in Nat
         /\ Len(ledger'[x]) = Len(ledger[x]) + Len(rows[s][x])
         /\ \A i \in 1..Len(ledger[x]) : ledger'[x][i] = ledger[x][i]
         /\ \A k \in 1..Len(rows[s][x]) :
              /\ ledger'[x][Len(ledger[x]) + k].doc = doc[s]
              /\ ledger'[x][Len(ledger[x]) + k].move = rows[s][x][k].move
              /\ ledger'[x][Len(ledger[x]) + k].delta = rows[s][x][k].delta
         /\ \A i \in Len(ledger[x]) + 1 .. Len(ledger'[x]) :
              \E k \in 1..Len(rows[s][x]) : i = Len(ledger[x]) + k
  <1> DEFINE e == ledger[x]
             r == rows[s][x]
  <1>1. e \in Seq(Entry) /\ r \in Seq(Entry)
    BY DEF IInv, TypeOK
  <1>2. ledger'[x] = Extended(e, r)
    BY DEF Finish, Commit
  <1>3. \A k \in 1..Len(r) : r[k].doc = doc[s]
    BY DEF IInv, CitationInv
  <1> HIDE DEF e, r
  <1>4. /\ Extended(e, r) \in Seq(Entry)
        /\ Len(Extended(e, r)) = Len(e) + Len(r)
        /\ \A i \in 1..Len(e) : Extended(e, r)[i] = e[i]
        /\ \A i \in 1..Len(r) :
             /\ Extended(e, r)[Len(e) + i].doc = r[i].doc
             /\ Extended(e, r)[Len(e) + i].move = r[i].move
             /\ Extended(e, r)[Len(e) + i].delta = r[i].delta
             /\ Extended(e, r)[Len(e) + i].total = r[i].total + Total(e)
        /\ Total(Extended(e, r)) = Total(e) + Total(r)
        /\ (Extended(e, r) = <<>>) <=> (e = <<>> /\ r = <<>>)
        /\ RunningTotals(e) /\ RunningTotals(r) => RunningTotals(Extended(e, r))
    BY <1>1, ExtendedRows
  <1>5. Len(e) \in Nat /\ Len(r) \in Nat
    BY <1>1
  <1>6. \A i \in Len(e) + 1 .. Len(e) + Len(r) : \E k \in 1..Len(r) : i = Len(e) + k
    <2> TAKE i \in Len(e) + 1 .. Len(e) + Len(r)
    <2>1. i - Len(e) \in 1..Len(r) /\ i = Len(e) + (i - Len(e))
      BY <1>5
    <2> QED
      BY <2>1
  <1>7. /\ Len(ledger'[x]) = Len(e) + Len(r)
        /\ \A i \in 1..Len(e) : ledger'[x][i] = e[i]
        /\ \A k \in 1..Len(r) : /\ ledger'[x][Len(e) + k].doc = doc[s]
                                /\ ledger'[x][Len(e) + k].move = r[k].move
                                /\ ledger'[x][Len(e) + k].delta = r[k].delta
        /\ \A i \in Len(e) + 1 .. Len(ledger'[x]) : \E k \in 1..Len(r) : i = Len(e) + k
    BY <1>2, <1>3, <1>4, <1>6
  <1> QED
    BY <1>1, <1>5, <1>7 DEF e, r

\* The positions in the ledger L of the rows that post movement m of document d.
PostingsIn(L, d, m) ==
  {p \in UNION {{x} \X (1..Len(L[x])) : x \in Dim} :
     L[p[1]][p[2]].doc = d /\ L[p[1]][p[2]].move = m}

\* A position in the ledger is a dimension and an index.
LEMMA PostingsMember ==
  ASSUME NEW L, NEW d, NEW m, NEW p
  PROVE  p \in PostingsIn(L, d, m) <=>
           \E x \in Dim : \E i \in 1..Len(L[x]) :
             p = <<x, i>> /\ L[x][i].doc = d /\ L[x][i].move = m
  <1>1. ASSUME p \in PostingsIn(L, d, m)
        PROVE  \E x \in Dim : \E i \in 1..Len(L[x]) :
                 p = <<x, i>> /\ L[x][i].doc = d /\ L[x][i].move = m
    <2>1. PICK x \in Dim : p \in {x} \X (1..Len(L[x]))
      BY <1>1 DEF PostingsIn
    <2>2. p = <<x, p[2]>> /\ p[2] \in 1..Len(L[x]) /\ p[1] = x
      BY <2>1
    <2> QED
      BY <1>1, <2>2 DEF PostingsIn
  <1>2. ASSUME NEW x \in Dim, NEW i \in 1..Len(L[x]),
               p = <<x, i>>, L[x][i].doc = d, L[x][i].move = m
        PROVE  p \in PostingsIn(L, d, m)
    <2>1. p \in {x} \X (1..Len(L[x])) /\ p[1] = x /\ p[2] = i
      BY <1>2
    <2> QED
      BY <1>2, <2>1 DEF PostingsIn
  <1> QED
    BY <1>1, <1>2

\* The rows of one movement are finitely many.
LEMMA PostingsFinite ==
  ASSUME AInv, NEW d \in Doc, NEW m \in 1..Len(Moves[d])
  PROVE  IsFiniteSet(Postings(d, m))
  <1> DEFINE x == Moves[d][m].dim
  <1>1. x \in Dim
    BY PostingAssumption DEF Move
  <1>2. Postings(d, m) \subseteq {x} \X (1..Len(ledger[x]))
    <2> SUFFICES ASSUME NEW p \in Postings(d, m)  PROVE p \in {x} \X (1..Len(ledger[x]))
      OBVIOUS
    <2>1. Postings(d, m) = PostingsIn(ledger, d, m)
      BY DEF Postings, PostingsIn
    <2>2. PICK y \in Dim : \E i \in 1..Len(ledger[y]) :
             p = <<y, i>> /\ ledger[y][i].doc = d /\ ledger[y][i].move = m
      BY <2>1, PostingsMember
    <2>3. PICK i \in 1..Len(ledger[y]) :
             p = <<y, i>> /\ ledger[y][i].doc = d /\ ledger[y][i].move = m
      BY <2>2
    <2>4. y = x
      BY <2>3 DEF AInv, PlaceInv
    <2> QED
      BY <2>3, <2>4
  <1>3. Len(ledger[x]) \in Nat
    BY <1>1 DEF AInv, IInv, TypeOK
  <1>4. IsFiniteSet({x} \X (1..Len(ledger[x])))
    <2> DEFINE I == 1..Len(ledger[x])
    <2>1. IsFiniteSet(I)
      <3> DEFINE n == Len(ledger[x])
      <3>1. n \in Int /\ 1 \in Int
        BY <1>3
      <3> HIDE DEF n
      <3>2. IsFiniteSet(1..n)
        BY <3>1, FS_Interval
      <3> QED
        BY <3>2 DEF n
    <2> HIDE DEF I, x
    <2>3. IsFiniteSet({x})
      BY FS_Singleton
    <2>2. IsFiniteSet({x} \X I)
      BY <2>1, <2>3, FS_Product
    <2> QED
      BY <2>2 DEF I
  <1> QED
    BY <1>2, <1>4, FS_Subset

\* One of the rows that are added to dimension x is movement m of document d.
Publishes(d, m, x) ==
  \E i \in Len(ledger[x]) + 1 .. Len(ledger'[x]) :
    /\ ledger'[x][i].doc = d
    /\ ledger'[x][i].move = m
    /\ ledger'[x][i].delta = Signed(Moves[d][m])
    /\ \A j \in Len(ledger[x]) + 1 .. Len(ledger'[x]) : ledger'[x][j].move = m => j = i

\* A commit adds one row for each movement of its document but the counts ...
LEMMA CommitPostsOnce ==
  ASSUME AInv, NEW s \in Session, Finish(s), NEW m \in 1..Len(Moves[doc[s]]),
         Moves[doc[s]][m].type # "count"
  PROVE  Publishes(doc[s], m, Moves[doc[s]][m].dim)
  <1> DEFINE x == Moves[doc[s]][m].dim
             n == Len(ledger[x])
  <1>1. doc[s] \in Doc /\ Working(s)
    BY DEF AInv, IInv, ControlInv, Finish, Working
  <1>2. x \in Dim
    BY <1>1, PostingAssumption DEF Move
  <1>3. PendingInv(s) /\ DoneInv(s)
    BY <1>1 DEF AInv, ProgressInv
  <1>4. Past(s) = Len(Moves[doc[s]])
    <2>1. Len(todo[s]) = 0 /\ Len(Moves[doc[s]]) \in Nat
      BY <1>1, PostingAssumption DEF Finish
    <2> QED
      BY <2>1 DEF Past
  <1>5. status[doc[s]] # "deleted"
    BY DEF AInv, Finish
  <1>6. PICK k \in 1..Len(rows[s][x]) : rows[s][x][k].move = m
    BY <1>3, <1>4, <1>5 DEF DoneInv
  <1>7. /\ rows[s][x][k].delta = Signed(Moves[doc[s]][m])
        /\ \A j \in 1..Len(rows[s][x]) : rows[s][x][j].move = m => j = k
    <2>1. /\ Moves[doc[s]][rows[s][x][k].move].type # "count" =>
               rows[s][x][k].delta = Signed(Moves[doc[s]][rows[s][x][k].move])
          /\ \A j \in 1..Len(rows[s][x]) :
               rows[s][x][j].move = rows[s][x][k].move => j = k
      <3> HIDE DEF x
      <3> QED
        BY <1>2, <1>3 DEF PendingInv, PendingRow
    <2> QED
      BY <2>1, <1>6
  <1> HIDE DEF x
  <1>8. /\ Len(rows[s][x]) \in Nat /\ n \in Nat /\ Len(ledger'[x]) = n + Len(rows[s][x])
        /\ \A l \in 1..Len(rows[s][x]) :
             /\ ledger'[x][n + l].doc = doc[s]
             /\ ledger'[x][n + l].move = rows[s][x][l].move
             /\ ledger'[x][n + l].delta = rows[s][x][l].delta
        /\ \A i \in n + 1 .. Len(ledger'[x]) : \E l \in 1..Len(rows[s][x]) : i = n + l
    BY <1>2, Published DEF AInv
  <1> HIDE DEF n
  <1>9. n + k \in n + 1 .. Len(ledger'[x])
    BY <1>8
  <1>10. ASSUME NEW j \in n + 1 .. Len(ledger'[x]), ledger'[x][j].move = m
         PROVE  j = n + k
    BY <1>7, <1>8, <1>10
  <1>11. \E i \in n + 1 .. Len(ledger'[x]) :
           /\ ledger'[x][i].doc = doc[s]
           /\ ledger'[x][i].move = m
           /\ ledger'[x][i].delta = Signed(Moves[doc[s]][m])
           /\ \A j \in n + 1 .. Len(ledger'[x]) : ledger'[x][j].move = m => j = i
    <2>1. /\ ledger'[x][n + k].doc = doc[s] /\ ledger'[x][n + k].move = m
          /\ ledger'[x][n + k].delta = Signed(Moves[doc[s]][m])
      BY <1>6, <1>7, <1>8
    <2> WITNESS n + k \in n + 1 .. Len(ledger'[x])
    <2> QED
      BY <2>1, <1>10
  <1>12. Publishes(doc[s], m, x)
    BY <1>11 DEF Publishes, n
  <1> QED
    BY <1>12 DEF x

\* ... and at most one for each count.
LEMMA CommitPostsAtMostOnce ==
  ASSUME AInv, NEW s \in Session, Finish(s), NEW x \in Dim,
         NEW i \in Len(ledger[x]) + 1 .. Len(ledger'[x]),
         NEW j \in Len(ledger[x]) + 1 .. Len(ledger'[x]),
         ledger'[x][i].move = ledger'[x][j].move
  PROVE  i = j
  <1>1. PendingInv(s)
    BY DEF AInv, IInv, ControlInv, Finish, Working, ProgressInv
  <1>2. PICK k \in 1..Len(rows[s][x]) : i = Len(ledger[x]) + k
    BY Published DEF AInv
  <1>3. PICK l \in 1..Len(rows[s][x]) : j = Len(ledger[x]) + l
    BY Published DEF AInv
  <1>4. rows[s][x][k].move = rows[s][x][l].move
    BY <1>2, <1>3, Published DEF AInv
  <1> QED
    BY <1>1, <1>2, <1>3, <1>4 DEF PendingInv, PendingRow

\* The commit of a document keeps its movements posted equally often.
LEMMA FinishPreservesPlaces ==
  ASSUME AInv, NEW s \in Session, Finish(s), IInv'
  PROVE  AInv'
  <1> USE PostingAssumption
  <1>0. TypeOK /\ doc[s] \in Doc /\ Working(s)
    BY DEF AInv, IInv, ControlInv, Finish, Working
  <1>p. ASSUME NEW x \in Dim
        PROVE  /\ Len(ledger[x]) \in Nat
               /\ Len(ledger'[x]) = Len(ledger[x]) + Len(rows[s][x])
               /\ Len(rows[s][x]) \in Nat
               /\ \A i \in 1..Len(ledger[x]) :
                    i \in 1..Len(ledger'[x]) /\ ledger'[x][i] = ledger[x][i]
               /\ \A k \in 1..Len(rows[s][x]) :
                    /\ ledger'[x][Len(ledger[x]) + k].doc = doc[s]
                    /\ ledger'[x][Len(ledger[x]) + k].move = rows[s][x][k].move
               /\ \A i \in Len(ledger[x]) + 1 .. Len(ledger'[x]) :
                    \E k \in 1..Len(rows[s][x]) : i = Len(ledger[x]) + k
    <2>1. IInv
      BY DEF AInv
    <2> HIDE PostingAssumption
    <2>2. /\ Len(ledger[x]) \in Nat /\ Len(rows[s][x]) \in Nat
          /\ Len(ledger'[x]) = Len(ledger[x]) + Len(rows[s][x])
          /\ \A i \in 1..Len(ledger[x]) : ledger'[x][i] = ledger[x][i]
          /\ \A k \in 1..Len(rows[s][x]) :
               /\ ledger'[x][Len(ledger[x]) + k].doc = doc[s]
               /\ ledger'[x][Len(ledger[x]) + k].move = rows[s][x][k].move
          /\ \A i \in Len(ledger[x]) + 1 .. Len(ledger'[x]) :
               \E k \in 1..Len(rows[s][x]) : i = Len(ledger[x]) + k
      BY <2>1, Published
    <2>3. \A i \in 1..Len(ledger[x]) : i \in 1..Len(ledger'[x])
      <3> DEFINE a == Len(ledger[x])
                 b == Len(rows[s][x])
                 c == Len(ledger'[x])
      <3>1. a \in Nat /\ b \in Nat /\ c = a + b
        BY <2>2
      <3> HIDE DEF a, b, c
      <3>2. \A i \in 1..a : i \in 1..c
        BY <3>1
      <3> QED
        BY <3>2 DEF a, c
    <2> QED
      BY <2>2, <2>3
  <1>1. /\ pc'[s] = "idle"
        /\ \A t \in Session \ {s} : /\ rows'[t] = rows[t] /\ pc'[t] = pc[t]
                                    /\ doc'[t] = doc[t] /\ todo'[t] = todo[t]
    BY <1>0 DEF TypeOK, Finish, Commit, Idle
  <1>2. \A d \in Doc : /\ d \in Opening => status'[d] = status[d]
                       /\ status[d] = "deleted" => status'[d] = "deleted"
    BY <1>0 DEF TypeOK, Finish
  <1>3. \A t \in Session : ProgressInv(t)'
    <2>1. ProgressInv(s)'
      BY <1>1 DEF ProgressInv, Working
    <2>2. ASSUME NEW t \in Session, t # s  PROVE ProgressInv(t)'
      <3>1. CASE Working(t)
        <4>1. doc[t] \in Doc
          BY <3>1 DEF AInv, IInv, ControlInv, Working
        <4> QED
          BY <1>1, <1>2, <2>2, <4>1, OtherSession DEF AInv
      <3>2. CASE ~Working(t)
        BY <1>1, <2>2, <3>2 DEF ProgressInv, Working
      <3> QED
        BY <3>1, <3>2
    <2> QED
      BY <2>1, <2>2
  <1>4. Past(s) = Len(Moves[doc[s]]) /\ PendingInv(s)
    <2>1. Len(todo[s]) = 0 /\ Len(Moves[doc[s]]) \in Nat
      BY <1>0 DEF Finish
    <2> QED
      BY <2>1, <1>0 DEF Past, AInv, ProgressInv
  <1>5. PlaceInv'
    <2> SUFFICES ASSUME NEW x \in Dim, NEW i \in 1..Len(ledger'[x]),
                        ledger'[x][i].doc \in Doc
        PROVE /\ ledger'[x][i].move \in 1..Len(Moves[ledger'[x][i].doc])
              /\ Moves[ledger'[x][i].doc][ledger'[x][i].move].dim = x
      BY DEF PlaceInv
    <2>1. CASE i \in 1..Len(ledger[x])
      <3>1. ledger'[x][i] = ledger[x][i]
        BY <2>1, <1>p
      <3> QED
        BY <2>1, <3>1 DEF AInv, PlaceInv
    <2>2. CASE i \notin 1..Len(ledger[x])
      <3>1. i \in Len(ledger[x]) + 1 .. Len(ledger'[x])
        <4> DEFINE a == Len(ledger[x])
                   b == Len(ledger'[x])
        <4>1. a \in Nat /\ b \in Nat
          BY <1>0 DEF AInv, IInv, TypeOK
        <4>2. i \in 1..b /\ i \notin 1..a
          BY <2>2
        <4> HIDE DEF a, b
        <4>3. i \in a + 1 .. b
          BY <4>1, <4>2
        <4> QED
          BY <4>3 DEF a, b
      <3>2. PICK k \in 1..Len(rows[s][x]) : i = Len(ledger[x]) + k
        BY <3>1, <1>p
      <3>3. ledger'[x][i].doc = doc[s] /\ ledger'[x][i].move = rows[s][x][k].move
        BY <3>2, <1>p
      <3>4. /\ rows[s][x][k].move \in 1..Len(Moves[doc[s]])
            /\ Moves[doc[s]][rows[s][x][k].move].dim = x
        BY <1>4 DEF PendingInv, PendingRow
      <3> QED
        BY <3>3, <3>4
    <2> QED
      BY <2>1, <2>2
  <1>6. \A d \in Doc, m \in Nat : /\ Postings(d, m) = PostingsIn(ledger, d, m)
                                  /\ Postings(d, m)' = PostingsIn(ledger', d, m)
    BY DEF Postings, PostingsIn
  <1>7. ASSUME NEW d \in Doc, NEW m \in 1..Len(Moves[d])
        PROVE  Postings(d, m) \subseteq Postings(d, m)'
    <2> SUFFICES ASSUME NEW p \in PostingsIn(ledger, d, m)
                 PROVE  p \in PostingsIn(ledger', d, m)
      BY <1>6
    <2>1. PICK x \in Dim : \E i \in 1..Len(ledger[x]) :
             p = <<x, i>> /\ ledger[x][i].doc = d /\ ledger[x][i].move = m
      BY PostingsMember
    <2>2. PICK i \in 1..Len(ledger[x]) :
             p = <<x, i>> /\ ledger[x][i].doc = d /\ ledger[x][i].move = m
      BY <2>1
    <2>3. i \in 1..Len(ledger'[x]) /\ ledger'[x][i] = ledger[x][i]
      BY <1>p
    <2> QED
      BY <2>2, <2>3, PostingsMember
  <1>8. ASSUME NEW d \in Doc, NEW m \in 1..Len(Moves[d]),
               NEW p \in Postings(d, m)', p \notin Postings(d, m)
        PROVE  LET x == Moves[d][m].dim
               IN  d = doc[s] /\ \E i \in Len(ledger[x]) + 1 .. Len(ledger'[x]) :
                                   p = <<x, i>> /\ ledger'[x][i].move = m
    <2>1. PICK x \in Dim : \E i \in 1..Len(ledger'[x]) :
             p = <<x, i>> /\ ledger'[x][i].doc = d /\ ledger'[x][i].move = m
      BY <1>6, PostingsMember
    <2>2. PICK i \in 1..Len(ledger'[x]) :
             p = <<x, i>> /\ ledger'[x][i].doc = d /\ ledger'[x][i].move = m
      BY <2>1
    <2>3. x = Moves[d][m].dim
      BY <1>5, <2>2 DEF PlaceInv
    <2>4. i \notin 1..Len(ledger[x])
      <3> SUFFICES ASSUME i \in 1..Len(ledger[x])  PROVE FALSE
        OBVIOUS
      <3>1. ledger'[x][i] = ledger[x][i]
        BY <1>p
      <3>2. p \in PostingsIn(ledger, d, m)
        BY <2>2, <3>1, PostingsMember
      <3> QED
        BY <1>6, <1>8, <3>2
    <2>5. i \in Len(ledger[x]) + 1 .. Len(ledger'[x])
      <3> DEFINE a == Len(ledger[x])
                 b == Len(ledger'[x])
      <3>1. a \in Nat /\ b \in Nat /\ i \in 1..b /\ i \notin 1..a
        BY <1>0, <2>4 DEF AInv, IInv, TypeOK
      <3> HIDE DEF a, b
      <3>2. i \in a + 1 .. b
        BY <3>1
      <3> QED
        BY <3>2 DEF a, b
    <2>6. d = doc[s]
      <3>1. PICK k \in 1..Len(rows[s][x]) : i = Len(ledger[x]) + k
        BY <2>5, <1>p
      <3> QED
        BY <2>2, <3>1, <1>p
    <2> QED
      BY <2>2, <2>3, <2>5, <2>6
  <1>9. ASSUME NEW d \in Doc, NEW m \in 1..Len(Moves[d]), Moves[d][m].type # "count"
        PROVE  Cardinality(Postings(d, m)') =
                 Cardinality(Postings(d, m)) + (IF d = doc[s] THEN 1 ELSE 0)
    <2>1. IsFiniteSet(Postings(d, m)) /\ Cardinality(Postings(d, m)) \in Nat
      BY PostingsFinite, FS_CardinalityType
    <2>2. CASE d # doc[s]
      <3>1. Postings(d, m)' = Postings(d, m)
        BY <1>7, <1>8, <2>2
      <3> QED
        BY <2>1, <2>2, <3>1
    <2>3. CASE d = doc[s]
      <3> DEFINE x == Moves[d][m].dim
      <3>1. PICK i \in Len(ledger[x]) + 1 .. Len(ledger'[x]) :
              /\ ledger'[x][i].doc = doc[s]
              /\ ledger'[x][i].move = m
              /\ \A j \in Len(ledger[x]) + 1 .. Len(ledger'[x]) :
                   ledger'[x][j].move = m => j = i
        <4>1. m \in 1..Len(Moves[doc[s]]) /\ Moves[doc[s]][m].type # "count"
          BY <1>9, <2>3
        <4>2. Publishes(doc[s], m, x)
          BY <4>1, <2>3, CommitPostsOnce
        <4> HIDE DEF x
        <4> QED
          BY <4>2 DEF Publishes
      <3>2. x \in Dim
        BY DEF Move
      <3>3. Postings(d, m)' \subseteq Postings(d, m) \cup {<<x, i>>}
        BY <1>8, <3>1
      <3> HIDE DEF x
      <3>4. i \in 1..Len(ledger'[x]) /\ i \notin 1..Len(ledger[x])
        BY <3>2, <1>p
      <3>5. <<x, i>> \in Postings(d, m)'
        <4>1. <<x, i>> \in PostingsIn(ledger', d, m)
          BY <2>3, <3>1, <3>2, <3>4, PostingsMember
        <4> QED
          BY <1>6, <4>1
      <3>6. <<x, i>> \notin Postings(d, m)
        <4> SUFFICES ASSUME <<x, i>> \in PostingsIn(ledger, d, m)  PROVE FALSE
          BY <1>6
        <4>1. PICK y \in Dim : \E j \in 1..Len(ledger[y]) : <<x, i>> = <<y, j>>
          BY PostingsMember
        <4> QED
          BY <3>4, <4>1
      <3>7. Postings(d, m)' = Postings(d, m) \cup {<<x, i>>}
        BY <1>7, <3>3, <3>5
      <3> QED
        BY <2>1, <2>3, <3>6, <3>7, FS_AddElement
    <2> QED
      BY <2>2, <2>3
  <1>10. MovementsPostTogether'
    BY <1>9 DEF AInv, MovementsPostTogether
  <1> QED
    BY <1>0, <1>2, <1>3, <1>5, <1>10 DEF AInv

-----------------------------------------------------------------------------
(* The invariant is inductive.                                             *)

\* The invariant holds in the initial states: no document has a row.
LEMMA InitEstablishesAInv == Init => AInv
  <1> SUFFICES ASSUME Init  PROVE AInv
    OBVIOUS
  <1> USE PostingAssumption
  <1>1. IInv
    BY InitEstablishes
  <1>2. \A s \in Session : ProgressInv(s)
    BY DEF Init, ProgressInv, Working
  <1>3. \A x \in Dim : \A i \in 1..Len(ledger[x]) : ledger[x][i].doc \notin Doc
    <2> SUFFICES ASSUME NEW x \in Dim, NEW i \in 1..Len(ledger[x])
                 PROVE  ledger[x][i].doc = Prior
      OBVIOUS
    <2>1. CASE InitialStock[x] = 0
      <3>1. ledger[x] = <<>>
        BY <2>1 DEF Init
      <3> QED
        BY <3>1, EmptySeq
    <2>2. CASE InitialStock[x] # 0
      <3> DEFINE row == NewEntry(Prior, 0, InitialStock[x], <<>>)
      <3>1. ledger[x] = <<row>> /\ row.doc = Prior
        BY <2>2 DEF Init, NewEntry
      <3> HIDE DEF row
      <3>2. i = 1 /\ ledger[x][1] = row
        BY <3>1
      <3> QED
        BY <3>1, <3>2
    <2> QED
      BY <2>1, <2>2
  <1>4. PlaceInv
    BY <1>3 DEF PlaceInv
  <1>5. ASSUME NEW d \in Doc, NEW m \in Nat  PROVE Postings(d, m) = {}
    <2> SUFFICES ASSUME NEW p \in PostingsIn(ledger, d, m)  PROVE FALSE
      BY DEF Postings, PostingsIn
    <2>1. \E x \in Dim : \E i \in 1..Len(ledger[x]) :
             p = <<x, i>> /\ ledger[x][i].doc = d /\ ledger[x][i].move = m
      BY PostingsMember
    <2> QED
      BY <1>3, <2>1
  <1>6. MovementsPostTogether
    <2>1. \A d \in Doc : \A m \in 1..Len(Moves[d]) : m \in Nat
      OBVIOUS
    <2> QED
      BY <1>5, <2>1 DEF MovementsPostTogether
  <1> QED
    BY <1>1, <1>2, <1>4, <1>6 DEF AInv, Init

\* Every step of the specification keeps the invariant.
LEMMA NextPreservesAInv == AInv /\ [Next]_vars => AInv'
  <1> SUFFICES ASSUME AInv, [Next]_vars  PROVE AInv'
    OBVIOUS
  <1>0. IInv' /\ TypeOK /\ IInv
    BY NextPreserves DEF AInv, IInv
  <1>1. ASSUME UNCHANGED <<tables, pc, doc, todo>>,
               \A d \in Opening : status'[d] = status[d],
               \A d \in Doc : status[d] = "deleted" => status'[d] = "deleted"
        PROVE  AInv'
    <2>1. ASSUME NEW t \in Session  PROVE ProgressInv(t)'
      <3>1. CASE Working(t)
        <4>1. doc[t] \in Doc
          BY <1>0, <3>1 DEF IInv, ControlInv, Working
        <4> QED
          BY <1>1, <4>1, OtherSession DEF AInv, tables
      <3>2. CASE ~Working(t)
        BY <1>1, <3>2 DEF ProgressInv, Working
      <3> QED
        BY <3>1, <3>2
    <2>2. PlaceInv' /\ MovementsPostTogether'
      BY <1>1, LedgerUntouched DEF AInv, tables
    <2> QED
      BY <1>0, <1>1, <2>1, <2>2 DEF AInv
  <1>2. ASSUME NEW d \in Doc, Create(d) \/ Delete(d)  PROVE AInv'
    <2>1. /\ status[d] \in {"absent", "draft"} /\ d \notin Opening
          /\ status' = [status EXCEPT ![d] = status'[d]]
          /\ UNCHANGED <<tables, pc, doc, todo>>
      BY <1>0, <1>2 DEF Create, Delete, TypeOK, AInv
    <2>2. \A e \in Doc : e # d => status'[e] = status[e]
      BY <1>0, <1>2 DEF Create, Delete, TypeOK
    <2>3. Opening \subseteq Doc
      BY PostingAssumption
    <2> QED
      BY <1>1, <2>1, <2>2, <2>3
  <1>3. ASSUME NEW s \in Session, NEW d \in Doc, Begin(s, d)  PROVE AInv'
    <2>1. /\ UNCHANGED <<status, rows, ledger, todo>> /\ pc'[s] = "lines"
          /\ \A t \in Session \ {s} : pc'[t] = pc[t] /\ doc'[t] = doc[t]
      BY <1>0, <1>3 DEF Begin, TypeOK, tables
    <2>2. ProgressInv(s)'
      BY <2>1 DEF ProgressInv, Working
    <2>3. ASSUME NEW t \in Session, t # s  PROVE ProgressInv(t)'
      BY <2>1, <2>3, OtherSession DEF AInv
    <2>4. PlaceInv' /\ MovementsPostTogether'
      BY <2>1, LedgerUntouched DEF AInv
    <2> QED
      BY <1>0, <2>1, <2>2, <2>3, <2>4 DEF AInv
  <1>4. ASSUME NEW s \in Session, ReadLines(s)  PROVE AInv'
    <2>1. /\ UNCHANGED <<status, rows, ledger, doc>> /\ pc[s] = "lines"
          /\ todo'[s] = IF status[doc[s]] = "deleted" THEN <<>> ELSE Moves[doc[s]]
          /\ \A t \in Session \ {s} : pc'[t] = pc[t] /\ todo'[t] = todo[t]
      BY <1>0, <1>4 DEF ReadLines, TypeOK, tables
    <2>2. doc[s] \in Doc /\ Len(Moves[doc[s]]) \in Nat /\ \A x \in Dim : rows[s][x] = <<>>
      BY <1>0, <2>1, PostingAssumption DEF IInv, ControlInv
    <2>3. ProgressInv(s)'
      <3>1. PendingInv(s)'
        <4>1. \A x \in Dim : \A i \in 1..Len(rows'[s][x]) : FALSE
          BY <2>1, <2>2, EmptySeq
        <4> QED
          BY <4>1 DEF PendingInv
      <3>2. CASE status[doc[s]] = "deleted"
        <4>1. TodoInv(s)' /\ DoneInv(s)'
          BY <2>1, <3>2, EmptySeq DEF TodoInv, DoneInv
        <4> QED
          BY <3>1, <4>1 DEF ProgressInv
      <3>3. CASE status[doc[s]] # "deleted"
        <4>1. Past(s)' = 0
          BY <2>1, <2>2, <3>3 DEF Past
        <4>2. TodoInv(s)'
          BY SMTT(60), <2>1, <2>2, <3>3, <4>1 DEF TodoInv
        <4>3. DoneInv(s)'
          BY SMTT(60), <4>1 DEF DoneInv
        <4> QED
          BY <3>1, <4>2, <4>3 DEF ProgressInv
      <3> QED
        BY <3>2, <3>3
    <2>4. ASSUME NEW t \in Session, t # s  PROVE ProgressInv(t)'
      BY <2>1, <2>4, OtherSession DEF AInv
    <2>5. PlaceInv' /\ MovementsPostTogether'
      BY <2>1, LedgerUntouched DEF AInv
    <2> QED
      BY <1>0, <2>1, <2>3, <2>4, <2>5 DEF AInv
  <1>5. ASSUME NEW s \in Session, ReadCount(s)  PROVE AInv'
    <2> DEFINE d == Cur(s).qty - Available(s, Cur(s).dim)
    <2>1. /\ Working(s) /\ UNCHANGED <<status, tables, doc>>
          /\ todo[s] # <<>> /\ Cur(s).type = "count"
          /\ pc' = [pc EXCEPT ![s] =
                      IF d < 0 THEN "guard" ELSE IF d > 0 THEN "post" ELSE "move"]
          /\ todo' = [todo EXCEPT ![s] = IF d = 0 THEN Tail(todo[s]) ELSE todo[s]]
      BY <1>5 DEF ReadCount, Working
    <2> HIDE DEF d
    <2>2. pc'[s] \in {"guard", "post", "move"} /\ pc' = [pc EXCEPT ![s] = pc'[s]]
      BY <1>0, <2>1 DEF TypeOK
    <2>3. todo' = todo \/ todo' = [todo EXCEPT ![s] = Tail(todo[s])]
      BY <1>0, <2>1 DEF TypeOK
    <2>4. Working(s)'
      BY <2>2 DEF Working
    <2> QED
      BY <1>0, <2>1, <2>2, <2>3, <2>4, QuietStep
  <1>6. ASSUME NEW s \in Session, ReadCost(s) \/ GuardPasses(s) \/ RowMissing(s)
        PROVE  AInv'
    <2>1. Working(s) /\ UNCHANGED <<status, tables, doc, todo>>
      BY <1>6 DEF ReadCost, GuardPasses, RowMissing, Guarding, Posting, Working
    <2>2. /\ pc' = [pc EXCEPT ![s] = pc'[s]]
          /\ pc'[s] \in {"post", "hung", "insert"}
      BY <1>0, <1>6 DEF ReadCost, GuardPasses, RowMissing, TypeOK
    <2>3. Working(s)'
      BY <2>2 DEF Working
    <2> QED
      BY <1>0, <2>1, <2>2, <2>3, QuietStep
  <1>7. ASSUME NEW s \in Session, UpdateBalance(s) \/ InsertBalance(s)  PROVE AInv'
    <2>1. Working(s) /\ todo[s] # <<>> /\ Post(s)
      BY <1>0, <1>7 DEF UpdateBalance, InsertBalance, Posting, Working, IInv, ControlInv
    <2> QED
      BY <1>0, <2>1, PostAdvances
  <1>8. ASSUME NEW s \in Session, Rollback(s)  PROVE AInv'
    BY <1>0, <1>8, RollbackForgets
  <1>9. ASSUME NEW s \in Session, Finish(s)  PROVE AInv'
    BY <1>0, <1>9, FinishPreservesPlaces
  <1>10. CASE UNCHANGED vars
    BY <1>1, <1>10 DEF vars
  <1>11. ASSUME NEW s \in Session, Step(s) \/ Fail(s)  PROVE AInv'
    <2>1. (GuardFails(s) \/ CheckViolation(s) \/ InsertFails(s) \/ HeaderGone(s)
             \/ DeadlockVictim(s) \/ Fail(s)) => Rollback(s)
      BY DEF GuardFails, CheckViolation, InsertFails, HeaderGone, DeadlockVictim, Fail
    <2> QED
      BY <2>1, <1>4, <1>5, <1>6, <1>7, <1>8, <1>9, <1>11 DEF Step
  <1> QED
    BY <1>2, <1>3, <1>10, <1>11 DEF Next

\* The inductive invariant holds in every reachable state.
THEOREM AtomicityInvariant == Spec => []AInv
  <1> QED
    BY InitEstablishesAInv, NextPreservesAInv, PTL DEF Spec

(***************************************************************************)
(* The movements of a document other than its counts have been posted      *)
(* equally often, whoever approved it together with whom, and however      *)
(* often an approval failed half way: a transfer takes nothing out of one  *)
(* place that it does not put into the other.                              *)
(***************************************************************************)
THEOREM PostedTogether == Spec => []MovementsPostTogether
  <1>1. AInv => MovementsPostTogether
    BY DEF AInv
  <1> QED
    BY <1>1, AtomicityInvariant, PTL

-----------------------------------------------------------------------------
(* The refinement.                                                         *)

\* The initial states are initial states of the abstract ledger.
LEMMA InitRefines == Init => SL!Init
  <1> SUFFICES ASSUME Init  PROVE SL!Init
    OBVIOUS
  <1>1. [x \in Dim |-> committed[x].qty] = InitialStock
    BY PostingAssumption DEF Init
  <1>2. ASSUME NEW x \in Dim
        PROVE  NewEntry(Prior, 0, InitialStock[x], <<>>) =
                 [doc |-> Prior, move |-> 0,
                  delta |-> InitialStock[x], total |-> InitialStock[x]]
    <2>1. InitialStock[x] \in Nat
      BY PostingAssumption
    <2> QED
      BY <2>1 DEF NewEntry, Total
  <1>3. ledger = [x \in Dim |->
            IF InitialStock[x] = 0 THEN <<>>
            ELSE <<[doc |-> Prior, move |-> 0,
                    delta |-> InitialStock[x], total |-> InitialStock[x]]>>]
    BY <1>2 DEF Init
  <1> QED
    BY <1>1, <1>3 DEF Init, SL!Init

\* A commit is an atomic approval.
LEMMA FinishRefines ==
  ASSUME AInv, IInv', NEW s \in Session, Finish(s), NEW d \in Doc, doc[s] = d
  PROVE  SL!Approve(d)
  <1>1. IF d \in Opening THEN UNCHANGED status
        ELSE /\ status[d] \in {"draft", "posted"}
             /\ status' = [status EXCEPT ![d] = "posted"]
    BY DEF Finish
  <1>2. ledger' \in [Dim -> Seq(SL!Entry)]
    BY DEF IInv, TypeOK, Entry, SL!Entry
  <1>3. ASSUME NEW x \in Dim  PROVE SL!Extends(d, x)
    <2>1. /\ Len(ledger[x]) \in Nat /\ Len(rows[s][x]) \in Nat
          /\ Len(ledger'[x]) = Len(ledger[x]) + Len(rows[s][x])
          /\ \A i \in 1..Len(ledger[x]) : ledger'[x][i] = ledger[x][i]
          /\ \A k \in 1..Len(rows[s][x]) :
               /\ ledger'[x][Len(ledger[x]) + k].doc = doc[s]
               /\ ledger'[x][Len(ledger[x]) + k].move = rows[s][x][k].move
          /\ \A i \in Len(ledger[x]) + 1 .. Len(ledger'[x]) :
               \E k \in 1..Len(rows[s][x]) : i = Len(ledger[x]) + k
      <3>1. IInv
        BY DEF AInv
      <3> QED
        BY <3>1, Published
    <2>2. /\ Len(ledger[x]) <= Len(ledger'[x])
          /\ \A i \in Len(ledger[x]) + 1 .. Len(ledger'[x]) : i \in 1..Len(ledger'[x])
      <3> DEFINE a == Len(ledger[x])
                 b == Len(rows[s][x])
                 c == Len(ledger'[x])
      <3>1. a \in Nat /\ b \in Nat /\ c = a + b
        BY <2>1
      <3> HIDE DEF a, b, c
      <3>2. a <= c /\ \A i \in a + 1 .. c : i \in 1..c
        BY <3>1
      <3> QED
        BY <3>2 DEF a, c
    <2>3. ASSUME NEW i \in Len(ledger[x]) + 1 .. Len(ledger'[x])
          PROVE  /\ ledger'[x][i].doc = d
                 /\ \E m \in 1..Len(Moves[d]) :
                      ledger'[x][i].move = m /\ Moves[d][m].dim = x
      <3>1. PICK k \in 1..Len(rows[s][x]) : i = Len(ledger[x]) + k
        BY <2>1
      <3>2. PendingInv(s) /\ Past(s) = Len(Moves[d])
        <4>1. Len(todo[s]) = 0 /\ Len(Moves[d]) \in Nat
          BY PostingAssumption DEF Finish
        <4>2. Working(s)
          BY DEF Finish, Working
        <4> QED
          BY <4>1, <4>2 DEF Past, AInv, ProgressInv
      <3>3. /\ rows[s][x][k].move \in 1..Len(Moves[d])
            /\ Moves[d][rows[s][x][k].move].dim = x
        BY <3>2 DEF PendingInv, PendingRow
      <3> QED
        BY <2>1, <3>1, <3>3
    <2>4. ASSUME NEW i \in Len(ledger[x]) + 1 .. Len(ledger'[x])
          PROVE  /\ ledger'[x][i].total = ledger'[x][i].delta +
                      (IF i = 1 THEN 0 ELSE ledger'[x][i - 1].total)
                 /\ ledger'[x][i].total >= 0
      <3>1. i \in 1..Len(ledger'[x])
        BY <2>2
      <3> QED
        BY <3>1 DEF IInv, BalanceIsLedgerSum, RunningTotals, NeverNegative
    <2> QED
      BY <2>1, <2>2, <2>3, <2>4 DEF SL!Extends
  <1>4. ASSUME NEW m \in 1..Len(Moves[d])  PROVE SL!Carries(d, m)
    <2> DEFINE x == Moves[d][m].dim
               New == {i \in Len(ledger[x]) + 1 .. Len(ledger'[x]) :
                         ledger'[x][i].doc = d /\ ledger'[x][i].move = m}
    <2>1. Moves[d][m] \in Move /\ x \in Dim
      BY PostingAssumption DEF Move
    <2>2. SL!NewRows(d, m) = New
      BY DEF SL!NewRows
    <2>3. CASE Moves[d][m].type # "count"
      <3>1. PICK i \in Len(ledger[x]) + 1 .. Len(ledger'[x]) :
              /\ ledger'[x][i].doc = d
              /\ ledger'[x][i].move = m
              /\ ledger'[x][i].delta = Signed(Moves[d][m])
              /\ \A j \in Len(ledger[x]) + 1 .. Len(ledger'[x]) :
                   ledger'[x][j].move = m => j = i
        <4>1. m \in 1..Len(Moves[doc[s]]) /\ Moves[doc[s]][m].type # "count"
          BY <2>3
        <4>2. Publishes(doc[s], m, x)
          BY <4>1, CommitPostsOnce
        <4> HIDE DEF x
        <4> QED
          BY <4>2 DEF Publishes
      <3>2. New = {i} /\ i \in New
        BY <3>1
      <3>3. Moves[d][m].type \in {"in", "out", "return"}
        BY <2>1, <2>3 DEF Move
      <3> HIDE DEF New
      <3> QED
        BY <2>2, <3>1, <3>2, <3>3 DEF SL!Carries, Signed
    <2>4. CASE Moves[d][m].type = "count"
      <3>1. ASSUME NEW i \in New, NEW j \in New  PROVE i = j
        <4>1. /\ i \in Len(ledger[x]) + 1 .. Len(ledger'[x])
              /\ j \in Len(ledger[x]) + 1 .. Len(ledger'[x])
              /\ ledger'[x][i].move = ledger'[x][j].move
          OBVIOUS
        <4> HIDE DEF x, New
        <4> QED
          BY <2>1, <4>1, CommitPostsAtMostOnce
      <3>4. ~(Moves[d][m].type \in {"in", "return"}) /\ Moves[d][m].type # "out"
        BY <2>4
      <3> QED
        BY <2>2, <3>1, <3>4 DEF SL!Carries
    <2> QED
      BY <2>3, <2>4
  <1>5. [x \in Dim |-> committed'[x].qty] = [x \in Dim |->
           IF ledger'[x] = <<>> THEN 0 ELSE ledger'[x][Len(ledger'[x])].total]
    BY DEF IInv, BalanceIsLedgerSum, Total
  <1> QED
    BY <1>1, <1>2, <1>3, <1>4, <1>5 DEF SL!Approve

\* Every step is a step of the abstract ledger, or changes nothing it knows.
LEMMA NextRefines == AInv /\ IInv' /\ [Next]_vars => [SL!Next]_SL!vars
  <1> SUFFICES ASSUME AInv, IInv', [Next]_vars  PROVE [SL!Next]_SL!vars
    OBVIOUS
  <1>1. UNCHANGED <<status, committed, ledger>> => UNCHANGED SL!vars
    BY DEF SL!vars
  <1>2. ASSUME NEW d \in Doc, Create(d)  PROVE SL!Next
    <2>1. SL!Create(d)
      BY <1>2 DEF Create, SL!Create, tables
    <2> QED
      BY <2>1 DEF SL!Next
  <1>3. ASSUME NEW d \in Doc, Delete(d)  PROVE SL!Next
    <2>1. SL!Delete(d)
      BY <1>3 DEF Delete, SL!Delete, tables
    <2> QED
      BY <2>1 DEF SL!Next
  <1>4. ASSUME NEW s \in Session, Finish(s)  PROVE SL!Next
    <2>1. PICK d \in Doc : doc[s] = d
      BY <1>4 DEF AInv, IInv, ControlInv, Finish
    <2>2. SL!Approve(d)
      BY <1>4, <2>1, FinishRefines
    <2> QED
      BY <2>2 DEF SL!Next
  <1>5. ASSUME NEW s \in Session, Step(s) \/ Fail(s) \/ \E d \in Doc : Begin(s, d),
               ~Finish(s)
        PROVE  UNCHANGED <<status, committed, ledger>>
    <2>1. (GuardFails(s) \/ CheckViolation(s) \/ InsertFails(s) \/ HeaderGone(s)
             \/ DeadlockVictim(s) \/ Fail(s)) => Rollback(s)
      BY DEF GuardFails, CheckViolation, InsertFails, HeaderGone, DeadlockVictim, Fail
    <2>2. Rollback(s) => UNCHANGED <<status, committed, ledger>>
      BY DEF Rollback
    <2>3. (UpdateBalance(s) \/ InsertBalance(s)) => UNCHANGED <<status, committed, ledger>>
      BY DEF UpdateBalance, InsertBalance, Post
    <2>4. (ReadLines(s) \/ ReadCount(s) \/ ReadCost(s) \/ GuardPasses(s) \/ RowMissing(s)
             \/ \E d \in Doc : Begin(s, d)) => UNCHANGED <<status, committed, ledger>>
      BY DEF ReadLines, ReadCount, ReadCost, GuardPasses, RowMissing, Begin, tables
    <2> QED
      BY <1>5, <2>1, <2>2, <2>3, <2>4 DEF Step
  <1>6. CASE UNCHANGED vars
    BY <1>1, <1>6 DEF vars, tables
  <1> QED
    BY <1>1, <1>2, <1>3, <1>4, <1>5, <1>6 DEF Next

(***************************************************************************)
(* StockPosting implements StockLedger: whatever statements of other       *)
(* requests come between its own, an approval is one atomic step of the    *)
(* ledger, complete and with true running totals, or no step at all.       *)
(***************************************************************************)
THEOREM PostingRefinesLedger == Spec => ApprovalIsAtomic
  <1>1. AInv => IInv
    BY DEF AInv
  <1> QED
    BY <1>1, AtomicityInvariant, InitRefines, NextRefines, PTL
       DEF Spec, SL!Spec, ApprovalIsAtomic
=============================================================================

----------------------------- MODULE StockPosting -----------------------------
(***************************************************************************)
(* Stock documents posted by concurrent requests.                          *)
(*                                                                         *)
(* Approving a stock transfer, adjustment, verification, damage entry or   *)
(* return (and completing a goods receipt or delivering a challan, which   *)
(* post stock the same way) runs ONE PostgreSQL transaction at the default *)
(* READ COMMITTED isolation: a plain read of the header, a plain read of   *)
(* the lines, one or more calls of postStockMovement per line, and an      *)
(* UPDATE of the header.  postStockMovement reads the balance to guard an  *)
(* outbound quantity and inserts a ledger row; the AFTER INSERT trigger    *)
(* trg_stock_ledger_to_balance locks the balance row and moves it.         *)
(*                                                                         *)
(* Each read and each row write of the transaction is a step of its own,   *)
(* so every interleaving PostgreSQL allows between two approvals is a      *)
(* behaviour of Spec.                                                      *)
(***************************************************************************)
EXTENDS Integers, Sequences, FiniteSets

CONSTANTS
  Session,       \* database connections, one per HTTP request being served
  Doc,           \* document ids; for an opening stock, the product id
  Dim,           \* (product, warehouse, rack, location, batch) combinations
  Moves,         \* the movements the lines of a document ask for, in line order
  Opening,       \* the members of Doc that stand for a product's opening stock
  InitialStock,  \* on-hand quantity per dimension before the first step
  Prior,         \* reference of the ledger rows older than the first step
  NoDoc, NoSession

(***************************************************************************)
(* A movement: "in" (purchase_in, return_in, opening_stock, transfer_in),  *)
(* "out" (transfer_out, damage_out, sales_out, return_out), "return" (the  *)
(* return_in of a sales return) or "count", the line of an adjustment or   *)
(* verification, whose qty is a target.  A line that moves nothing is      *)
(* refused: CHECK (quantity > 0) of the line tables.                       *)
(***************************************************************************)
Move == [type : {"in", "out", "return"}, dim : Dim, qty : Nat \ {0}]
          \union [type : {"count"}, dim : Dim, qty : Nat]

ASSUME PostingAssumption ==
  /\ Moves \in [Doc -> Seq(Move)]
  /\ Opening \subseteq Doc
  /\ InitialStock \in [Dim -> Nat]
  /\ Prior \notin Doc
  /\ NoDoc \notin Doc
  /\ NoSession \notin Session

VARIABLES
  status,     \* status column of each document header
  balance,    \* latest version of each dimension's stock_balances row
  committed,  \* the version of that row other sessions see
  lock,       \* the session whose transaction has written that row
  ledger,     \* committed stock_ledger rows, per dimension
  rows,       \* ledger rows each session's transaction has inserted so far
  pc,         \* where each session's transaction stands
  doc,        \* the document it approves
  todo,       \* movements still to be posted
  diff        \* what a count line found missing (> 0) or in excess (< 0)

tables == <<balance, committed, lock, ledger, rows>>
vars   == <<status, tables, pc, doc, todo, diff>>

Status == {"absent", "draft", "posted", "deleted"}
Entry  == [doc : Doc \union {Prior}, move : Nat, delta : Int, total : Int]
Row    == [exists : BOOLEAN, qty : Int]

(***************************************************************************)
(* total is history: the running sum of delta over the rows of a dimension *)
(* (for rows not yet committed, over those of their transaction), what     *)
(* SUM(qty_in - qty_out) up to that row gives.  The program stores no such *)
(* column.                                                                 *)
(***************************************************************************)
Total(entries) == IF entries = <<>> THEN 0 ELSE entries[Len(entries)].total

NewEntry(d, m, q, entries) ==
  [doc |-> d, move |-> m, delta |-> q, total |-> Total(entries) + q]

Shift(e, n) == [e EXCEPT !.total = @ + n]

\* The committed rows of a dimension followed by those of a committing one.
Extended(entries, new) ==
  [i \in 1..Len(entries) + Len(new) |->
     IF i <= Len(entries) THEN entries[i]
     ELSE Shift(new[i - Len(entries)], Total(entries))]

Init ==
  /\ status = [d \in Doc |-> "absent"]
  /\ balance = [x \in Dim |-> [exists |-> InitialStock[x] > 0,
                               qty    |-> InitialStock[x]]]
  /\ committed = balance
  /\ lock = [x \in Dim |-> NoSession]
  /\ ledger = [x \in Dim |-> IF InitialStock[x] = 0 THEN <<>>
                  ELSE <<NewEntry(Prior, 0, InitialStock[x], <<>>)>>]
  /\ rows = [s \in Session |-> [x \in Dim |-> <<>>]]
  /\ pc = [s \in Session |-> "idle"]
  /\ doc = [s \in Session |-> NoDoc]
  /\ todo = [s \in Session |-> <<>>]
  /\ diff = [s \in Session |-> 0]

-----------------------------------------------------------------------------
(* What a statement of session s sees, and the end of its transaction.     *)

\* READ COMMITTED: a plain SELECT sees committed rows and the transaction's own.
Seen(s, x) == IF lock[x] = s THEN balance[x] ELSE committed[x]

\* getLiveBalance; a missing row counts as 0 (balance?.quantity ?? 0).
Available(s, x) == Seen(s, x).qty

\* Variant for the sensitivity checks: a trigger that does not lock the row.
Free_NoRowLock(s, x) == TRUE

Free(s, x) == lock[x] \in {NoSession, s}

\* Variant: the connection goes back to the pool with its transaction open.
Idle_LeavesLocks(s) ==
  /\ UNCHANGED lock
  /\ rows' = [rows EXCEPT ![s] = [x \in Dim |-> <<>>]]
  /\ pc' = [pc EXCEPT ![s] = "idle"]
  /\ doc' = [doc EXCEPT ![s] = NoDoc]
  /\ todo' = [todo EXCEPT ![s] = <<>>]
  /\ diff' = [diff EXCEPT ![s] = 0]

\* The connection is released: no row lock, nothing pending, no transaction.
Idle(s) ==
  /\ lock' = [x \in Dim |-> IF lock[x] = s THEN NoSession ELSE lock[x]]
  /\ rows' = [rows EXCEPT ![s] = [x \in Dim |-> <<>>]]
  /\ pc' = [pc EXCEPT ![s] = "idle"]
  /\ doc' = [doc EXCEPT ![s] = NoDoc]
  /\ todo' = [todo EXCEPT ![s] = <<>>]
  /\ diff' = [diff EXCEPT ![s] = 0]

Commit(s) ==
  /\ committed' = [x \in Dim |-> Seen(s, x)]
  /\ ledger' = [x \in Dim |-> Extended(ledger[x], rows[s][x])]
  /\ UNCHANGED balance
  /\ Idle(s)

\* Variant: statements run outside a transaction, so a failure keeps them.
Rollback_Autocommit(s) == UNCHANGED status /\ Commit(s)

Rollback(s) ==
  /\ balance' = [x \in Dim |-> IF lock[x] = s THEN committed[x] ELSE balance[x]]
  /\ UNCHANGED <<status, committed, ledger>>
  /\ Idle(s)

-----------------------------------------------------------------------------
(* Drafts.                                                                 *)

\* createWithLines: header and lines are inserted in one transaction.
Create(d) ==
  /\ d \notin Opening
  /\ status[d] = "absent"
  /\ status' = [status EXCEPT ![d] = "draft"]
  /\ UNCHANGED <<tables, pc, doc, todo, diff>>

\* Variants: a delete that keeps the row, and one without the status filter.
Delete_Cancels(d) ==
  /\ status[d] = "draft"
  /\ status' = [status EXCEPT ![d] = "cancelled"]
  /\ UNCHANGED <<tables, pc, doc, todo, diff>>

Delete_AnyStatus(d) ==
  /\ status[d] \in {"draft", "posted"}
  /\ status' = [status EXCEPT ![d] = "deleted"]
  /\ UNCHANGED <<tables, pc, doc, todo, diff>>

\* delete: DELETE ... WHERE id = $1 AND status = 'draft', in autocommit.
Delete(d) ==
  /\ status[d] = "draft"
  /\ status' = [status EXCEPT ![d] = "deleted"]
  /\ UNCHANGED <<tables, pc, doc, todo, diff>>

-----------------------------------------------------------------------------
(* approve() / complete() / deliver() / post(), statement by statement.    *)

\* The opening-stock rows of product d that a plain SELECT finds.
OpeningPosted(d) ==
  \E x \in Dim : \E i \in 1..Len(ledger[x]) :
    ledger[x][i].doc = d

\* The header read.  Any other status ends the request without a change.
Begin(s, d) ==
  /\ pc[s] = "idle"
  /\ IF d \in Opening THEN ~OpeningPosted(d) ELSE status[d] = "draft"
  /\ pc' = [pc EXCEPT ![s] = "lines"]
  /\ doc' = [doc EXCEPT ![s] = d]
  /\ UNCHANGED <<status, tables, todo, diff>>

\* The line read; the lines of a header deleted meanwhile are gone (CASCADE).
ReadLines(s) ==
  /\ pc[s] = "lines"
  /\ pc' = [pc EXCEPT ![s] = "move"]
  /\ todo' = [todo EXCEPT ![s] =
                IF status[doc[s]] = "deleted" THEN <<>> ELSE Moves[doc[s]]]
  /\ UNCHANGED <<status, tables, doc, diff>>

Cur(s) == Head(todo[s])

Delta(s) == CASE Cur(s).type \in {"in", "return"} -> Cur(s).qty
              [] Cur(s).type = "out"              -> -Cur(s).qty
              [] Cur(s).type = "count"            -> diff[s]

\* A count line recomputes its difference against the live balance.
ReadCount(s) ==
  /\ pc[s] = "move" /\ todo[s] # <<>> /\ Cur(s).type = "count"
  /\ LET d == Cur(s).qty - Available(s, Cur(s).dim)
     IN  /\ diff' = [diff EXCEPT ![s] = d]
         /\ pc' = [pc EXCEPT ![s] =
                     IF d < 0 THEN "guard" ELSE IF d > 0 THEN "post" ELSE "move"]
         /\ todo' = [todo EXCEPT ![s] = IF d = 0 THEN Tail(@) ELSE @]
  /\ UNCHANGED <<status, tables, doc>>

(***************************************************************************)
(* A sales return takes the cost of a line from its balance row.  If there *)
(* is none, it asks productRepository.findById, which does not use the     *)
(* transaction but the connection of the request; that connection serves   *)
(* one caller at a time and is the transaction's until it ends.  So the    *)
(* request waits for itself, and no statement is running that could time   *)
(* out.                                                                    *)
(***************************************************************************)
ReadCost(s) ==
  /\ pc[s] = "move" /\ todo[s] # <<>> /\ Cur(s).type = "return"
  /\ pc' = [pc EXCEPT ![s] = IF Seen(s, Cur(s).dim).exists THEN "post" ELSE "hung"]
  /\ UNCHANGED <<status, tables, doc, todo, diff>>

\* postStockMovement is about to test an outbound quantity.
Guarding(s) ==
  \/ pc[s] = "guard"
  \/ pc[s] = "move" /\ todo[s] # <<>> /\ Cur(s).type = "out"

InsufficientStock(s) == Available(s, Cur(s).dim) < -Delta(s)

GuardPasses(s) ==
  /\ Guarding(s)
  /\ ~InsufficientStock(s)
  /\ pc' = [pc EXCEPT ![s] = "post"]
  /\ UNCHANGED <<status, tables, doc, todo, diff>>

\* Variant: the short line is skipped instead of failing the document.
GuardFails_SkipsLine(s) ==
  /\ Guarding(s)
  /\ InsufficientStock(s)
  /\ pc' = [pc EXCEPT ![s] = "move"]
  /\ todo' = [todo EXCEPT ![s] = Tail(@)]
  /\ diff' = [diff EXCEPT ![s] = 0]
  /\ UNCHANGED <<status, tables, doc>>

GuardFails(s) ==
  /\ Guarding(s)
  /\ InsufficientStock(s)
  /\ Rollback(s)

\* The INSERT into stock_ledger is next; its trigger looks for the balance row.
Posting(s) ==
  \/ pc[s] = "post"
  \/ pc[s] = "move" /\ todo[s] # <<>> /\ Cur(s).type = "in"

Post(s) ==
  LET x == Cur(s).dim
      m == Len(Moves[doc[s]]) - Len(todo[s]) + 1
  IN  /\ rows' = [rows EXCEPT ![s][x] = Append(@, NewEntry(doc[s], m, Delta(s), @))]
      /\ balance' = [balance EXCEPT ![x] =
                       [exists |-> TRUE, qty |-> balance[x].qty + Delta(s)]]
      /\ lock' = [lock EXCEPT ![x] = s]
      /\ pc' = [pc EXCEPT ![s] = "move"]
      /\ todo' = [todo EXCEPT ![s] = Tail(@)]
      /\ diff' = [diff EXCEPT ![s] = 0]
      /\ UNCHANGED <<status, committed, ledger, doc>>

\* Variant: a stock_balances table without the CHECK.
BalanceCheck_None(q) == TRUE

\* CHECK (quantity >= 0) of stock_balances.
BalanceCheck(q) == q >= 0

\* SELECT ... FOR UPDATE found the row: the UPDATE follows under its lock.
UpdateBalance(s) ==
  /\ Posting(s)
  /\ Seen(s, Cur(s).dim).exists
  /\ Free(s, Cur(s).dim)
  /\ BalanceCheck(balance[Cur(s).dim].qty + Delta(s))
  /\ Post(s)

CheckViolation(s) ==
  /\ Posting(s)
  /\ Seen(s, Cur(s).dim).exists
  /\ Free(s, Cur(s).dim)
  /\ ~BalanceCheck(balance[Cur(s).dim].qty + Delta(s))
  /\ Rollback(s)

\* SELECT ... FOR UPDATE found no row; an uncommitted one is invisible to it.
RowMissing(s) ==
  /\ Posting(s)
  /\ ~Seen(s, Cur(s).dim).exists
  /\ pc' = [pc EXCEPT ![s] = "insert"]
  /\ UNCHANGED <<status, tables, doc, todo, diff>>

\* The INSERT waits for a concurrent insert of the same key, then succeeds ...
InsertBalance(s) ==
  /\ pc[s] = "insert"
  /\ Free(s, Cur(s).dim)
  /\ ~balance[Cur(s).dim].exists
  /\ BalanceCheck(Delta(s))
  /\ Post(s)

\* ... or breaks uq_stock_balances_dimensions or the CHECK.
InsertFails(s) ==
  /\ pc[s] = "insert"
  /\ Free(s, Cur(s).dim)
  /\ balance[Cur(s).dim].exists \/ ~BalanceCheck(Delta(s))
  /\ Rollback(s)

(***************************************************************************)
(* The header UPDATE (WHERE id only, executeTakeFirstOrThrow) is the last  *)
(* statement before COMMIT: whoever wants the header row in between waits  *)
(* for the commit, so the two are one action.  An opening stock has no     *)
(* header.                                                                 *)
(***************************************************************************)
Finish(s) ==
  /\ pc[s] = "move" /\ todo[s] = <<>>
  /\ IF doc[s] \in Opening
     THEN UNCHANGED status
     ELSE /\ status[doc[s]] \in {"draft", "posted"}
          /\ status' = [status EXCEPT ![doc[s]] = "posted"]
  /\ Commit(s)

HeaderGone(s) ==
  /\ pc[s] = "move" /\ todo[s] = <<>>
  /\ status[doc[s]] = "deleted"
  /\ Rollback(s)

-----------------------------------------------------------------------------
(* PostgreSQL's own part.                                                  *)

\* The session is blocked on a row another transaction has written.
Waiting(s) ==
  /\ \/ Posting(s) /\ Seen(s, Cur(s).dim).exists
     \/ pc[s] = "insert"
  /\ ~Free(s, Cur(s).dim)

InWaitCycle(s) ==
  \E C \in SUBSET Session :
    /\ s \in C
    /\ \A t \in C : Waiting(t)
    /\ {lock[Cur(t).dim] : t \in C} = C

\* The deadlock detector cancels a transaction of the cycle.
DeadlockVictim(s) == InWaitCycle(s) /\ Rollback(s)

\* statement_timeout, a lost connection or a crash of the backend process.
Fail(s) == pc[s] # "idle" /\ Rollback(s)

Step(s) ==
  \/ ReadLines(s) \/ ReadCount(s) \/ ReadCost(s)
  \/ GuardPasses(s) \/ GuardFails(s)
  \/ UpdateBalance(s) \/ CheckViolation(s)
  \/ RowMissing(s) \/ InsertBalance(s) \/ InsertFails(s)
  \/ Finish(s) \/ HeaderGone(s) \/ DeadlockVictim(s)

Next ==
  \/ \E d \in Doc : Create(d) \/ Delete(d)
  \/ \E s \in Session : Step(s) \/ Fail(s) \/ \E d \in Doc : Begin(s, d)

Spec == Init /\ [][Next]_vars

(***************************************************************************)
(* A transaction that can take a step takes it: Node serves every request, *)
(* and PostgreSQL breaks a cycle of waits.  Strong fairness, because the   *)
(* waiters of a row queue in order of arrival: a transaction that finds    *)
(* the row free again and again is not overtaken for ever.  Nothing makes  *)
(* a client create, delete or approve a document, and nothing makes a      *)
(* transaction fail.                                                       *)
(***************************************************************************)
FairSpec == Spec /\ \A s \in Session : SF_vars(Step(s))

-----------------------------------------------------------------------------
(* Properties.                                                             *)

TypeOK ==
  /\ status \in [Doc -> Status]
  /\ balance \in [Dim -> Row]
  /\ committed \in [Dim -> Row]
  /\ lock \in [Dim -> Session \union {NoSession}]
  /\ ledger \in [Dim -> Seq(Entry)]
  /\ rows \in [Session -> [Dim -> Seq(Entry)]]
  /\ pc \in [Session -> {"idle", "lines", "move", "guard", "post", "insert",
                         "hung"}]
  /\ doc \in [Session -> Doc \union {NoDoc}]
  /\ todo \in [Session -> Seq(Move)]
  /\ diff \in [Session -> Int]

RunningTotals(entries) ==
  \A i \in 1..Len(entries) :
    entries[i].total =
      entries[i].delta + (IF i = 1 THEN 0 ELSE entries[i-1].total)

(***************************************************************************)
(* "This keeps current stock always derivable": whatever transactions      *)
(* interleave, time out or fail, the balance every other request can see   *)
(* is the sum of the ledger rows it can see, and there is a balance row    *)
(* exactly when there is a ledger row.  A trigger without the row lock     *)
(* loses an update here.                                                   *)
(***************************************************************************)
BalanceIsLedgerSum ==
  \A x \in Dim :
    /\ RunningTotals(ledger[x])
    /\ committed[x].qty = Total(ledger[x])
    /\ committed[x].exists <=> ledger[x] # <<>>

(***************************************************************************)
(* Stock was at no moment of the ledger's history negative, although the   *)
(* guard of postStockMovement reads the balance without a lock and two     *)
(* issues can both pass it: the CHECK under the row lock has the last word.*)
(***************************************************************************)
NeverNegative ==
  \A x \in Dim : \A i \in 1..Len(ledger[x]) : ledger[x][i].total >= 0

\* The ledger rows <<dimension, position>> that post movement m of document d.
Postings(d, m) ==
  {p \in UNION {{x} \X (1..Len(ledger[x])) : x \in Dim} :
     ledger[p[1]][p[2]].doc = d /\ ledger[p[1]][p[2]].move = m}

(***************************************************************************)
(* "The header status update and every line's ledger post commit or roll   *)
(* back together": a document that is a draft, or was deleted as one, has  *)
(* no ledger row, however its approval raced with the delete or failed.    *)
(***************************************************************************)
OnlyPostedDocumentsHaveMovements ==
  \A d \in Doc \ Opening : \A m \in 1..Len(Moves[d]) :
    status[d] # "posted" => Postings(d, m) = {}

(***************************************************************************)
(* Every approval that commits has posted all its movements: the movements *)
(* of a document other than its counts have been posted equally often.  So *)
(* a transfer never takes stock out of one place without adding it to the  *)
(* other, and a delivery never issues half of its lines.                   *)
(***************************************************************************)
MovementsPostTogether ==
  \A d \in Doc : \A m, n \in 1..Len(Moves[d]) :
    Moves[d][m].type # "count" /\ Moves[d][n].type # "count"
      => Cardinality(Postings(d, m)) = Cardinality(Postings(d, n))

(***************************************************************************)
(* The interleaved statements of all approvals implement StockLedger: seen *)
(* through the committed rows, each approval is one atomic, append-only    *)
(* step, which moves every balance by exactly what it adds to the ledger.  *)
(***************************************************************************)
SL == INSTANCE StockLedger WITH onHand <- [x \in Dim |-> committed[x].qty]
ApprovalIsAtomic == SL!Spec

(***************************************************************************)
(* Every request is answered: no approval waits for ever, not even when    *)
(* two of them lock the same balance rows in opposite orders.              *)
(***************************************************************************)
RequestsFinish == \A s \in Session : pc[s] # "idle" ~> pc[s] = "idle"

(***************************************************************************)
(* What the comments of the code say, and the interleavings refute (runs   *)
(* that expect a violation).                                               *)
(***************************************************************************)

\* "Wrong-status checks must happen there, atomically with the posting": a
\* document posts each of its movements once, whoever approves it meanwhile.
PostedOnce ==
  \A d \in Doc : \A m \in 1..Len(Moves[d]) : Cardinality(Postings(d, m)) <= 1

\* "Quantity-to-a-target moves (adjustments/verifications) never trip this."
CountNeverInsufficient ==
  \A s \in Session : pc[s] = "guard" => ~InsufficientStock(s)

\* approve() of a sales return "posts return_in per line ... at live average
\* cost, falling back to products.purchasePrice": it does not stop half-way.
ReturnFallsBack ==
  \A s \in Session :
    pc[s] # "idle" /\ (\E i \in 1..Len(todo[s]) : todo[s][i].type = "return")
      ~> pc[s] = "idle"
=============================================================================

----------------------------- MODULE StockLedger -----------------------------
(***************************************************************************)
(* What the stock core promises, without transactions or locks: each       *)
(* approval of a document is one atomic step that appends the document's   *)
(* movements to the ledger, all of them or none, and moves the on-hand     *)
(* quantities with it; no quantity is ever negative; drafts move nothing.  *)
(*                                                                         *)
(* The specification does not promise that a document is posted once:      *)
(* StockPosting refutes that (PostedOnce), so Approve is allowed on a      *)
(* posted document too.                                                    *)
(***************************************************************************)
EXTENDS Integers, Sequences

CONSTANTS Doc, Dim, Moves, Opening, InitialStock, Prior

VARIABLES
  status,   \* the life of each document
  onHand,   \* quantity per dimension
  ledger    \* its movements per dimension, oldest first

vars == <<status, onHand, ledger>>

Entry == [doc : Doc \union {Prior}, move : Nat, delta : Int, total : Int]

Init ==
  /\ status = [d \in Doc |-> "absent"]
  /\ onHand = InitialStock
  /\ ledger = [x \in Dim |->
       IF InitialStock[x] = 0 THEN <<>>
       ELSE <<[doc |-> Prior, move |-> 0,
               delta |-> InitialStock[x], total |-> InitialStock[x]]>>]

Create(d) ==
  /\ status[d] = "absent" /\ d \notin Opening
  /\ status' = [status EXCEPT ![d] = "draft"]
  /\ UNCHANGED <<onHand, ledger>>

Delete(d) ==
  /\ status[d] = "draft"
  /\ status' = [status EXCEPT ![d] = "deleted"]
  /\ UNCHANGED <<onHand, ledger>>

\* Positions of the rows this step appends for movement m of document d.
NewRows(d, m) ==
  LET x == Moves[d][m].dim
  IN  {i \in Len(ledger[x]) + 1 .. Len(ledger'[x]) :
         ledger'[x][i].doc = d /\ ledger'[x][i].move = m}

\* One row of the stated quantity per movement; a count may need none.
Carries(d, m) ==
  LET x == Moves[d][m].dim
      q == Moves[d][m].qty
      New == NewRows(d, m)
  IN  CASE Moves[d][m].type \in {"in", "return"} ->
             \E i \in New : New = {i} /\ ledger'[x][i].delta = q
        [] Moves[d][m].type = "out" ->
             \E i \in New : New = {i} /\ ledger'[x][i].delta = -q
        [] OTHER -> \A i, j \in New : i = j

\* The rows of dimension x that were there stay; the new ones are d's.
Extends(d, x) ==
  /\ Len(ledger[x]) <= Len(ledger'[x])
  /\ \A i \in 1..Len(ledger[x]) : ledger'[x][i] = ledger[x][i]
  /\ \A i \in Len(ledger[x]) + 1 .. Len(ledger'[x]) :
       LET row == ledger'[x][i]
       IN  /\ row.doc = d
           /\ \E m \in 1..Len(Moves[d]) : row.move = m /\ Moves[d][m].dim = x
           /\ row.total = row.delta +
                (IF i = 1 THEN 0 ELSE ledger'[x][i - 1].total)
           /\ row.total >= 0

Approve(d) ==
  /\ IF d \in Opening THEN UNCHANGED status
     ELSE /\ status[d] \in {"draft", "posted"}
          /\ status' = [status EXCEPT ![d] = "posted"]
  /\ ledger' \in [Dim -> Seq(Entry)]
  /\ \A x \in Dim : Extends(d, x)
  /\ \A m \in 1..Len(Moves[d]) : Carries(d, m)
  /\ onHand' = [x \in Dim |->
       IF ledger'[x] = <<>> THEN 0 ELSE ledger'[x][Len(ledger'[x])].total]

Next == \E d \in Doc : Create(d) \/ Delete(d) \/ Approve(d)

Spec == Init /\ [][Next]_vars
=============================================================================

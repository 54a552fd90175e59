------------------------------ MODULE StockHolds ------------------------------
(***************************************************************************)
(* Reserved and blocked stock.                                             *)
(*                                                                         *)
(* A reservation or a block is one row, and only triggers write what it    *)
(* holds to stock_balances: on INSERT they add its quantity to EVERY       *)
(* balance row of its product, warehouse and batch, whatever the rack and  *)
(* location; when it leaves 'active' or 'blocked' they subtract it again,  *)
(* down to 0 at the least.  A balance row is created by its first stock    *)
(* movement, which may come after the reservation.                         *)
(*                                                                         *)
(* Reserving, releasing and expiring are transactions of one statement,    *)
(* which locks the rows it writes one after the other; stock movements     *)
(* lock balance rows too.  A movement is one step here; StockPosting has   *)
(* its reads and writes one by one.                                        *)
(***************************************************************************)
EXTENDS Integers, Sequences, FiniteSets, FiniteSetsExt

CONSTANTS
  Session,
  Dim,           \* (product, warehouse, rack, location, batch) combinations
  Reservation, Block,
  HeldIn,        \* the dimensions of the product, warehouse and batch of a hold
  Quantity,      \* its quantity
  Movements,     \* what a stock document may post: sequences of [dim, delta]
  InitialStock,
  MaxQuantity,   \* bound: no movement is posted beyond this quantity
  NoSession, NoHold

Hold == Reservation \union Block

ASSUME HoldAssumption ==
  /\ IsFiniteSet(Hold)
  /\ Reservation \intersect Block = {} /\ Hold \intersect Dim = {}  \* three tables
  /\ HeldIn \in [Hold -> SUBSET Dim]
  /\ Quantity \in [Hold -> Nat \ {0}]
  /\ Movements \subseteq Seq([dim : Dim, delta : Int \ {0}])
  /\ InitialStock \in [Dim -> Nat]
  /\ NoSession \notin Session /\ NoHold \notin Hold

VARIABLES
  status, balance,           \* newest version of each hold and balance row
  savedStatus, savedBalance, \* the version other sessions see
  holder,                    \* the session whose transaction has written a row
  pc,
  ending,                    \* hold rows a statement has still to update
  fired,                     \* holds whose trigger has still to run
  counting, dims,            \* the hold whose trigger runs, and the rows it
                             \* has still to write
  moves                      \* movements still to be posted

rowVars == <<status, balance, savedStatus, savedBalance, holder>>
vars    == <<rowVars, pc, ending, fired, counting, dims, moves>>

BalanceRow == [exists : BOOLEAN, quantity : Nat, reserved : Nat, blocked : Nat]

Init ==
  /\ status = [h \in Hold |-> "absent"]
  /\ balance = [x \in Dim |-> [exists |-> InitialStock[x] > 0,
                               quantity |-> InitialStock[x],
                               reserved |-> 0, blocked |-> 0]]
  /\ savedStatus = status /\ savedBalance = balance
  /\ holder = [r \in Hold \union Dim |-> NoSession]
  /\ pc = [s \in Session |-> "idle"]
  /\ ending = [s \in Session |-> {}]
  /\ fired = [s \in Session |-> {}]
  /\ counting = [s \in Session |-> NoHold]
  /\ dims = [s \in Session |-> {}]
  /\ moves = [s \in Session |-> <<>>]

Free(s, r) == holder[r] \in {NoSession, s}
Seen(s, x) == IF holder[x] = s THEN balance[x] ELSE savedBalance[x]

Idle(s) ==
  /\ holder' = [r \in DOMAIN holder |-> IF holder[r] = s THEN NoSession ELSE holder[r]]
  /\ pc' = [pc EXCEPT ![s] = "idle"]
  /\ ending' = [ending EXCEPT ![s] = {}]
  /\ fired' = [fired EXCEPT ![s] = {}]
  /\ counting' = [counting EXCEPT ![s] = NoHold]
  /\ dims' = [dims EXCEPT ![s] = {}]
  /\ moves' = [moves EXCEPT ![s] = <<>>]

\* Variant: a failing trigger does not undo the statement that fired it.
Rollback_KeepsHold(s) ==
  /\ savedStatus' = [h \in Hold |-> IF holder[h] = s THEN status[h] ELSE savedStatus[h]]
  /\ balance' = [x \in Dim |-> IF holder[x] = s THEN savedBalance[x] ELSE balance[x]]
  /\ UNCHANGED <<status, savedBalance>>
  /\ Idle(s)

Rollback(s) ==
  /\ status' = [h \in Hold |-> IF holder[h] = s THEN savedStatus[h] ELSE status[h]]
  /\ balance' = [x \in Dim |-> IF holder[x] = s THEN savedBalance[x] ELSE balance[x]]
  /\ UNCHANGED <<savedStatus, savedBalance>>
  /\ Idle(s)

Commit(s) ==
  /\ pc[s] # "idle"
  /\ ending[s] = {} /\ fired[s] = {} /\ dims[s] = {} /\ moves[s] = <<>>
  /\ savedStatus' = [h \in Hold |-> IF holder[h] = s THEN status[h] ELSE savedStatus[h]]
  /\ savedBalance' = [x \in Dim |-> Seen(s, x)]
  /\ UNCHANGED <<status, balance>>
  /\ Idle(s)

WriteBalance(s, x, row) ==
  /\ balance' = [balance EXCEPT ![x] = row]
  /\ holder' = [holder EXCEPT ![x] = s]
  /\ UNCHANGED <<savedStatus, savedBalance>>

\* CHECK (quantity >= 0), CHECK (reserved_quantity + blocked_quantity <= quantity).
BalanceCheck(row) ==
  row.quantity >= 0 /\ row.reserved + row.blocked <= row.quantity

-----------------------------------------------------------------------------
(* Holds.                                                                  *)

\* INSERT of a reservation or block; the row is not visible to others yet.
CreateHold(s, h) ==
  /\ pc[s] = "idle" /\ status[h] = "absent"
  /\ status' = [status EXCEPT ![h] = "active"]
  /\ holder' = [holder EXCEPT ![h] = s]
  /\ pc' = [pc EXCEPT ![s] = "create"]
  /\ fired' = [fired EXCEPT ![s] = {h}]
  /\ UNCHANGED <<balance, savedStatus, savedBalance, ending, counting, dims, moves>>

\* UPDATE ... SET status = 'released' WHERE id AND status = 'active'.
Release(s, h) ==
  /\ pc[s] = "idle" /\ savedStatus[h] = "active"
  /\ pc' = [pc EXCEPT ![s] = "released"]
  /\ ending' = [ending EXCEPT ![s] = {h}]
  /\ UNCHANGED <<rowVars, fired, counting, dims, moves>>

\* fn_release_expired_reservations, whose scheduler is outside this repository:
\* expired are the active reservations with expires_at <= now(), any of them.
ReleaseExpired(s, expired) ==
  /\ pc[s] = "idle" /\ expired # {}
  /\ \A h \in expired : savedStatus[h] = "active"
  /\ pc' = [pc EXCEPT ![s] = "expired"]
  /\ ending' = [ending EXCEPT ![s] = expired]
  /\ UNCHANGED <<rowVars, fired, counting, dims, moves>>

\* After waiting for a row PostgreSQL evaluates the WHERE clause again.
EndHold(s, h) ==
  /\ h \in ending[s] /\ Free(s, h)
  /\ ending' = [ending EXCEPT ![s] = @ \ {h}]
  /\ IF status[h] = "active"
     THEN /\ status' = [status EXCEPT ![h] = pc[s]]
          /\ holder' = [holder EXCEPT ![h] = s]
          /\ fired' = [fired EXCEPT ![s] = @ \union {h}]
     ELSE UNCHANGED <<status, holder, fired>>
  /\ UNCHANGED <<balance, savedStatus, savedBalance, pc, counting, dims, moves>>

\* The UPDATE of the AFTER ROW trigger sees the balance rows there are now.
FireTrigger(s) ==
  /\ ending[s] = {} /\ dims[s] = {}
  /\ \E h \in fired[s] :
       /\ fired' = [fired EXCEPT ![s] = @ \ {h}]
       /\ counting' = [counting EXCEPT ![s] = h]
       /\ dims' = [dims EXCEPT ![s] = {x \in HeldIn[h] : Seen(s, x).exists}]
  /\ UNCHANGED <<rowVars, pc, ending, moves>>

\* Variants: a released block stays counted; GREATEST is missing.
Counted_KeepsBlock(h, held, row) ==
  IF h \in Reservation
  THEN [row EXCEPT !.reserved = IF held THEN @ + Quantity[h]
                                ELSE Max({@ - Quantity[h], 0})]
  ELSE [row EXCEPT !.blocked = IF held THEN @ + Quantity[h] ELSE @]

Counted_BelowZero(h, held, row) ==
  LET New(n) == IF held THEN n + Quantity[h] ELSE n - Quantity[h]
  IN  IF h \in Reservation THEN [row EXCEPT !.reserved = New(@)]
                           ELSE [row EXCEPT !.blocked = New(@)]

\* reserved_quantity + quantity, or GREATEST(reserved_quantity - quantity, 0).
Counted(h, held, row) ==
  LET New(n) == IF held THEN n + Quantity[h] ELSE Max({n - Quantity[h], 0})
  IN  IF h \in Reservation THEN [row EXCEPT !.reserved = New(@)]
                           ELSE [row EXCEPT !.blocked = New(@)]

CountRow(s, x) ==
  LET row == Counted(counting[s], pc[s] = "create", balance[x])
  IN  /\ x \in dims[s] /\ Free(s, x)
      /\ BalanceCheck(row)
      /\ WriteBalance(s, x, row)
      /\ dims' = [dims EXCEPT ![s] = @ \ {x}]
      /\ UNCHANGED <<status, pc, ending, fired, counting, moves>>

\* More is held than there is: the reservation itself fails, with the raw error.
CountFails(s, x) ==
  /\ x \in dims[s] /\ Free(s, x)
  /\ ~BalanceCheck(Counted(counting[s], pc[s] = "create", balance[x]))
  /\ Rollback(s)

-----------------------------------------------------------------------------
(* Stock movements.                                                        *)

BeginMovements(s, m) ==
  /\ pc[s] = "idle"
  /\ pc' = [pc EXCEPT ![s] = "move"]
  /\ moves' = [moves EXCEPT ![s] = m]
  /\ UNCHANGED <<rowVars, ending, fired, counting, dims>>

Moved(row, delta) == [row EXCEPT !.exists = TRUE, !.quantity = @ + delta]

PostMovement(s) ==
  /\ moves[s] # <<>>
  /\ LET x   == Head(moves[s]).dim
         row == Moved(balance[x], Head(moves[s]).delta)
     IN  /\ Free(s, x)
         /\ row.quantity <= MaxQuantity
         /\ BalanceCheck(row)
         /\ WriteBalance(s, x, row)
  /\ moves' = [moves EXCEPT ![s] = Tail(@)]
  /\ UNCHANGED <<status, pc, ending, fired, counting, dims>>

\* InsufficientStockError, or the CHECK (held stock is not on offer).
RefuseMovement(s) ==
  /\ moves[s] # <<>>
  /\ LET x   == Head(moves[s]).dim
         row == Moved(balance[x], Head(moves[s]).delta)
     IN  /\ Free(s, x)
         /\ row.quantity > MaxQuantity \/ ~BalanceCheck(row)
  /\ Rollback(s)

-----------------------------------------------------------------------------
(* Row waits, deadlocks, failures.                                         *)

\* Rows of which the session needs one next: a statement that still has to
\* write rows x and y writes whichever its plan finds first.
Wanted(s) ==
  IF ending[s] # {} THEN ending[s]
  ELSE IF dims[s] # {} THEN dims[s]
  ELSE IF moves[s] # <<>> THEN {Head(moves[s]).dim}
  ELSE {}

\* Each session of C has come to a row that another one of C has written.
InWaitCycle(s) ==
  \E C \in SUBSET Session :
    /\ s \in C
    /\ \A t \in C : Wanted(t) # {} /\ \E r \in Wanted(t) : holder[r] \in C \ {t}

\* Variant: no deadlock detection.
DeadlockVictim_None(s) == FALSE /\ Rollback(s)

DeadlockVictim(s) == InWaitCycle(s) /\ Rollback(s)

Fail(s) == pc[s] # "idle" /\ Rollback(s)

Step(s) ==
  \/ \E h \in Hold : EndHold(s, h)
  \/ FireTrigger(s)
  \/ \E x \in Dim : CountRow(s, x) \/ CountFails(s, x)
  \/ PostMovement(s) \/ RefuseMovement(s)
  \/ Commit(s) \/ DeadlockVictim(s)

Next ==
  \E s \in Session :
       \/ Step(s) \/ Fail(s)
       \/ \E expired \in SUBSET Reservation : ReleaseExpired(s, expired)
       \/ \E h \in Hold : CreateHold(s, h) \/ Release(s, h)
       \/ \E m \in Movements : BeginMovements(s, m)

Spec == Init /\ [][Next]_vars

\* Statements run to their end and row queues are first come, first served.
FairSpec == Spec /\ \A s \in Session : SF_vars(Step(s))

-----------------------------------------------------------------------------
(* Properties.                                                             *)

HoldStatus == {"absent", "active", "released", "expired"}

TypeOK ==
  /\ status \in [Hold -> HoldStatus] /\ savedStatus \in [Hold -> HoldStatus]
  /\ balance \in [Dim -> BalanceRow] /\ savedBalance \in [Dim -> BalanceRow]
  /\ holder \in [Hold \union Dim -> Session \union {NoSession}]
  /\ pc \in [Session -> {"idle", "create", "released", "expired", "move"}]
  /\ ending \in [Session -> SUBSET Hold] /\ fired \in [Session -> SUBSET Hold]
  /\ counting \in [Session -> Hold \union {NoHold}]
  /\ dims \in [Session -> SUBSET Dim]
  /\ moves \in [Session -> Seq([dim : Dim, delta : Int])]

\* What the active holds among H, as other sessions see them, hold in x.
ActiveIn(x, H) ==
  SumFunctionOnSet(Quantity, {h \in H : savedStatus[h] = "active" /\ x \in HeldIn[h]})

(***************************************************************************)
(* Stock is never withheld without a reason: what a balance row shows as   *)
(* reserved or blocked is covered by holds that are active, although a     *)
(* release, an expiry and a failing insert may overlap, and a hold may be  *)
(* released that was never counted.                                        *)
(***************************************************************************)
NoPhantomHold ==
  \A x \in Dim :
    /\ savedBalance[x].reserved <= ActiveIn(x, Reservation)
    /\ savedBalance[x].blocked <= ActiveIn(x, Block)

(***************************************************************************)
(* On a balance row that is older than every hold, the columns are exactly *)
(* the sums of the active holds, at every commit.                          *)
(***************************************************************************)
HoldsAreCounted ==
  \A x \in Dim : InitialStock[x] > 0 =>
    /\ savedBalance[x].reserved = ActiveIn(x, Reservation)
    /\ savedBalance[x].blocked = ActiveIn(x, Block)

(***************************************************************************)
(* Every request is answered, also when a reservation and a transfer want  *)
(* the balance rows of two racks in opposite orders.                       *)
(***************************************************************************)
RequestsFinish == \A s \in Session : pc[s] # "idle" ~> pc[s] = "idle"

(***************************************************************************)
(* "Insert alone is enough": a reservation that is active is held in the   *)
(* balance of its product.  Refuted: if there is no balance row yet, the   *)
(* trigger updates nothing, and no later movement makes up for it; and the *)
(* release of such a reservation is taken from what others reserved.       *)
(***************************************************************************)
InsertAloneIsEnough ==
  \A h \in Reservation :
    savedStatus[h] = "active" =>
      \E x \in HeldIn[h] : savedBalance[x].reserved >= Quantity[h]
=============================================================================

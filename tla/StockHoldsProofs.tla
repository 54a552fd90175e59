-------------------------- MODULE StockHoldsProofs --------------------------
(***************************************************************************)
(* Proofs about StockHolds, for any number of reservations, blocks,        *)
(* balance rows and connections: the types, that no stock is withheld      *)
(* without an active hold, and that a balance row which is older than      *)
(* every hold shows exactly the sum of the active ones.                    *)
(*                                                                         *)
(* The invariant says which holds each version of a balance row covers.    *)
(* A hold whose trigger has still to write the row is covered as it was    *)
(* before its statement; one whose trigger has written it, as its new      *)
(* status says in the new version and as its old one says in the version   *)
(* others see; and one whose trigger found no row yet, in neither.         *)
(***************************************************************************)
EXTENDS StockHolds, Sums

\* The trigger of hold h has still to write row x.
Pending(s, h, x) == h \in fired[s] \/ (h = counting[s] /\ x \in dims[s])

\* The trigger of h has run in a transaction that has not written row x.
Skipped(h, x) ==
  \E s \in Session : holder[h] = s /\ holder[x] # s /\ ~Pending(s, h, x)

Written(h, x) ==
  \E s \in Session : holder[h] = s /\ holder[x] = s /\ ~Pending(s, h, x)

\* Whether the newest version of row x covers h, and whether the version
\* others see does.
CoversNow(h, x) ==
  /\ ~Skipped(h, x)
  /\ IF Written(h, x) THEN status[h] = "active" ELSE savedStatus[h] = "active"

CoversBefore(h, x) == ~Skipped(h, x) /\ savedStatus[h] = "active"

Now(x, H)    == {h \in H : x \in HeldIn[h] /\ CoversNow(h, x)}
Before(x, H) == {h \in H : x \in HeldIn[h] /\ CoversBefore(h, x)}

\* A column does not exceed the holds it covers, and if the row is older
\* than all of them it is their sum.
Covered(x, n, H) ==
  /\ n <= SumFunctionOnSet(Quantity, H)
  /\ InitialStock[x] > 0 => n = SumFunctionOnSet(Quantity, H)

Cover(x) ==
  /\ Covered(x, balance[x].reserved, Now(x, Reservation))
  /\ Covered(x, balance[x].blocked, Now(x, Block))
  /\ Covered(x, savedBalance[x].reserved, Before(x, Reservation))
  /\ Covered(x, savedBalance[x].blocked, Before(x, Block))

\* A balance row that others do not see yet withholds nothing, and one they
\* see is never gone again.
RowsInv ==
  /\ \A h \in Hold : holder[h] = NoSession => status[h] = savedStatus[h]
  /\ \A x \in Dim :
       /\ InitialStock[x] > 0 => savedBalance[x].exists
       /\ savedBalance[x].exists => balance[x].exists
       /\ ~savedBalance[x].exists =>
            /\ balance[x].reserved = 0 /\ balance[x].blocked = 0
            /\ savedBalance[x].reserved = 0 /\ savedBalance[x].blocked = 0

Ending == {"released", "expired"}

\* What a session has still to do, by the statement it runs.
Work(s) ==
  /\ pc[s] \notin Ending => ending[s] = {}
  /\ pc[s] # "move" => moves[s] = <<>>
  /\ pc[s] \in {"idle", "move"} => fired[s] = {} /\ dims[s] = {}
  /\ \A h \in fired[s] : holder[h] = s
  /\ dims[s] # {} =>
       /\ counting[s] \in Hold /\ counting[s] \notin fired[s]
       /\ holder[counting[s]] = s /\ dims[s] \subseteq HeldIn[counting[s]]
       /\ \A x \in dims[s] : savedBalance[x].exists

\* The rows its transaction has written.
Holds(s) ==
  /\ \A h \in Hold : holder[h] = s =>
       \/ /\ pc[s] = "create" /\ status[h] = "active" /\ savedStatus[h] = "absent"
          /\ \A g \in Hold : holder[g] = s => g = h
       \/ pc[s] \in Ending /\ status[h] = pc[s] /\ savedStatus[h] = "active"
  /\ \A h \in Hold : holder[h] = s =>
       \A x \in HeldIn[h] : InitialStock[x] > 0 => ~Skipped(h, x)
  /\ \A x \in Dim : holder[x] = s =>
       pc[s] # "idle" /\ (pc[s] # "move" => savedBalance[x].exists)

SessionInv(s) == Work(s) /\ Holds(s)

IInv ==
  /\ TypeOK
  /\ RowsInv
  /\ \A s \in Session : SessionInv(s)
  /\ \A x \in Dim : Cover(x)

-----------------------------------------------------------------------------
(* The constants, and sums of quantities.                                  *)

\* Holds have a quantity, and are no balance rows.
LEMMA Constants ==
  /\ \A h \in Hold : /\ HeldIn[h] \subseteq Dim /\ h \notin Dim /\ h # NoHold
                     /\ Quantity[h] \in Nat /\ Quantity[h] > 0
  /\ \A s \in Session : s # NoSession
  /\ \A x \in Dim : InitialStock[x] \in Nat /\ x \notin Hold
  /\ Reservation \subseteq Hold /\ Block \subseteq Hold
  /\ \A h \in Block : h \notin Reservation
  <1>1. Hold \intersect Dim = {} /\ Reservation \intersect Block = {}
    BY HoldAssumption DEF HoldAssumption
  <1>2. Reservation \subseteq Hold /\ Block \subseteq Hold
    BY DEF Hold
  <1>3. HeldIn \in [Hold -> SUBSET Dim] /\ Quantity \in [Hold -> Nat \ {0}]
    BY HoldAssumption DEF HoldAssumption
  <1>4. InitialStock \in [Dim -> Nat] /\ NoSession \notin Session /\ NoHold \notin Hold
    BY HoldAssumption DEF HoldAssumption
  <1>5. \A h \in Hold : HeldIn[h] \subseteq Dim /\ Quantity[h] \in Nat /\ Quantity[h] > 0
    BY <1>3
  <1> QED  BY <1>1, <1>2, <1>4, <1>5

\* Sums of holds are natural numbers.
LEMMA HeldType ==
  ASSUME NEW S \in SUBSET Hold
  PROVE  IsFiniteSet(S) /\ SumFunctionOnSet(Quantity, S) \in Nat
  <1>1. IsFiniteSet(S)
    BY HoldAssumption, FS_Subset DEF HoldAssumption
  <1>2. \A h \in S : Quantity[h] \in Nat
    BY Constants
  <1> QED  BY <1>1, <1>2, SumNat

\* A column stays covered when more holds cover it, unless the row is older
\* than the holds: then they are the same.
LEMMA CoveredGrows ==
  ASSUME NEW x \in Dim, NEW n \in Nat, NEW S \in SUBSET Hold, NEW T \in SUBSET Hold,
         S \subseteq T, InitialStock[x] > 0 => T \subseteq S, Covered(x, n, S)
  PROVE  Covered(x, n, T)
  <1>1. CASE S = T
    BY <1>1
  <1>2. CASE S # T
    <2>1. ~ (InitialStock[x] > 0)
      BY <1>2
    <2> DEFINE a == SumFunctionOnSet(Quantity, S)
               b == SumFunctionOnSet(Quantity, T \ S)
    <2>2. a \in Nat /\ b \in Nat /\ IsFiniteSet(S) /\ IsFiniteSet(T \ S)
      BY HeldType
    <2>3. SumFunctionOnSet(Quantity, S \cup (T \ S)) = a + b
      <3>1. S \intersect (T \ S) = {}
        OBVIOUS
      <3>2. \A h \in S \cup (T \ S) : Quantity[h] \in Int
        BY Constants
      <3> QED  BY <2>2, <3>1, <3>2, SumUnion
    <2>4. S \cup (T \ S) = T
      OBVIOUS
    <2>5. n <= a
      BY DEF Covered
    <2> HIDE DEF a, b
    <2>6. SumFunctionOnSet(Quantity, T) = a + b
      BY <2>3, <2>4
    <2>7. n <= a + b
      BY <2>2, <2>5
    <2> QED  BY <2>1, <2>6, <2>7 DEF Covered
  <1> QED  BY <1>1, <1>2

\* It is covered after one more hold has been added to both.
LEMMA CoveredAdd ==
  ASSUME NEW x \in Dim, NEW n \in Nat, NEW S \in SUBSET Hold, NEW h \in Hold \ S,
         Covered(x, n, S)
  PROVE  Covered(x, n + Quantity[h], S \cup {h})
  <1> DEFINE a == SumFunctionOnSet(Quantity, S)
             q == Quantity[h]
             b == SumFunctionOnSet(Quantity, S \cup {h})
  <1>1. a \in Nat /\ q \in Nat /\ IsFiniteSet(S)
    BY HeldType, Constants
  <1>2. b = a + q
    <2>1. \A g \in S \cup {h} : Quantity[g] \in Int
      BY Constants
    <2> QED  BY <1>1, <2>1, SumAdd
  <1>3. n <= a /\ (InitialStock[x] > 0 => n = a)
    BY DEF Covered
  <1> HIDE DEF a, q, b
  <1>4. n + q <= b /\ (InitialStock[x] > 0 => n + q = b)
    BY <1>1, <1>2, <1>3
  <1> QED  BY <1>4 DEF Covered, q, b

\* GREATEST(n - quantity, 0) is what the other holds cover, or less.
LEMMA CoveredRemove ==
  ASSUME NEW x \in Dim, NEW n \in Nat, NEW S \in SUBSET Hold, NEW h \in S,
         Covered(x, n, S)
  PROVE  /\ Covered(x, Max({n - Quantity[h], 0}), S \ {h})
         /\ Max({n - Quantity[h], 0}) \in Nat
  <1> DEFINE a == SumFunctionOnSet(Quantity, S)
             q == Quantity[h]
             b == SumFunctionOnSet(Quantity, S \ {h})
             m == Max({n - q, 0})
  <1>1. a \in Nat /\ q \in Nat /\ b \in Nat /\ IsFiniteSet(S)
    BY HeldType, Constants
  <1>2. a = q + b
    <2>1. \A g \in S : Quantity[g] \in Int
      BY Constants
    <2> QED  BY <1>1, <2>1, SumRemove
  <1>3. n <= a /\ (InitialStock[x] > 0 => n = a)
    BY DEF Covered
  <1>4. m = IF n >= q THEN n - q ELSE 0
    <2> HIDE DEF q
    <2>1. n - q \in Int
      BY <1>1
    <2> DEFINE w == IF n >= q THEN n - q ELSE 0
    <2>2. w \in {n - q, 0} /\ \A y \in {n - q, 0} : w >= y
      BY <1>1, <2>1
    <2>3. \A z \in {n - q, 0} : (\A y \in {n - q, 0} : z >= y) => z = w
      BY <1>1, <2>1
    <2> HIDE DEF w
    <2>4. m = CHOOSE z \in {n - q, 0} : \A y \in {n - q, 0} : z >= y
      BY DEF Max
    <2>5. m = w
      BY <2>2, <2>3, <2>4
    <2> QED  BY <2>5 DEF w
  <1> HIDE DEF a, q, b, m
  <1>5. m <= b /\ (InitialStock[x] > 0 => m = b) /\ m \in Nat
    BY <1>1, <1>2, <1>3, <1>4
  <1> QED  BY <1>5 DEF Covered, q, b, m

-----------------------------------------------------------------------------
(* The steps.                                                              *)

\* A session begins a statement that ends some holds.
Ends(s) ==
  \E p \in Ending, H \in SUBSET Hold :
    /\ pc[s] = "idle"
    /\ pc' = [pc EXCEPT ![s] = p]
    /\ ending' = [ending EXCEPT ![s] = H]
    /\ UNCHANGED <<rowVars, fired, counting, dims, moves>>

Does(s) ==
  \/ Rollback(s) \/ Commit(s) \/ Ends(s) \/ FireTrigger(s) \/ PostMovement(s)
  \/ \E h \in Hold : CreateHold(s, h) \/ EndHold(s, h)
  \/ \E x \in Dim : CountRow(s, x)
  \/ \E m \in Movements : BeginMovements(s, m)

\* Whatever fails is rolled back; releases and expiries begin alike.
LEMMA Kinds ==
  ASSUME Next
  PROVE  \E s \in Session : Does(s)
  <1>1. PICK s \in Session :
          \/ Step(s) \/ Fail(s)
          \/ \E expired \in SUBSET Reservation : ReleaseExpired(s, expired)
          \/ \E h \in Hold : CreateHold(s, h) \/ Release(s, h)
          \/ \E m \in Movements : BeginMovements(s, m)
    BY DEF Next
  <1>2. CASE Step(s)
    BY <1>2 DEF Step, Does, CountFails, RefuseMovement, DeadlockVictim
  <1>3. CASE Fail(s)
    BY <1>3 DEF Fail, Does
  <1>4. ASSUME NEW expired \in SUBSET Reservation, ReleaseExpired(s, expired)
        PROVE  Does(s)
    <2>1. expired \in SUBSET Hold /\ "expired" \in Ending
      BY Constants DEF Ending
    <2>2. Ends(s)
      BY <1>4, <2>1 DEF ReleaseExpired, Ends
    <2> QED  BY <2>2 DEF Does
  <1>5. ASSUME NEW h \in Hold, Release(s, h)
        PROVE  Does(s)
    <2>1. {h} \in SUBSET Hold /\ "released" \in Ending
      BY DEF Ending
    <2>2. Ends(s)
      BY <1>5, <2>1 DEF Release, Ends
    <2> QED  BY <2>2 DEF Does
  <1>6. CASE \/ \E h \in Hold : CreateHold(s, h)
             \/ \E m \in Movements : BeginMovements(s, m)
    BY <1>6 DEF Does
  <1> QED  BY <1>1, <1>2, <1>3, <1>4, <1>5, <1>6

\* The end of a transaction.
LEMMA IdleTypes ==
  ASSUME TypeOK, NEW s \in Session, Idle(s)
  PROVE  /\ holder' \in [Hold \union Dim -> Session \union {NoSession}]
         /\ pc' \in [Session -> {"idle", "create", "released", "expired", "move"}]
         /\ ending' \in [Session -> SUBSET Hold] /\ fired' \in [Session -> SUBSET Hold]
         /\ counting' \in [Session -> Hold \union {NoHold}]
         /\ dims' \in [Session -> SUBSET Dim]
         /\ moves' \in [Session -> Seq([dim : Dim, delta : Int])]
  <1>1. <<>> \in Seq([dim : Dim, delta : Int])
    OBVIOUS
  <1> QED  BY <1>1 DEF TypeOK, Idle

\* A trigger keeps a column a natural number.
LEMMA CountedTypes ==
  ASSUME NEW h \in Hold, NEW held \in BOOLEAN, NEW row \in BalanceRow
  PROVE  /\ Counted(h, held, row) \in BalanceRow
         /\ Counted(h, held, row).exists = row.exists
         /\ Counted(h, held, row).quantity = row.quantity
         /\ Counted(h, held, row).reserved =
              IF h \notin Reservation THEN row.reserved
              ELSE IF held THEN row.reserved + Quantity[h]
              ELSE Max({row.reserved - Quantity[h], 0})
         /\ Counted(h, held, row).blocked =
              IF h \in Reservation THEN row.blocked
              ELSE IF held THEN row.blocked + Quantity[h]
              ELSE Max({row.blocked - Quantity[h], 0})
  <1> DEFINE New(n) == IF held THEN n + Quantity[h] ELSE Max({n - Quantity[h], 0})
  <1>1. \A n \in Nat : Max({n - Quantity[h], 0}) \in Nat
    <2> TAKE n \in Nat
    <2>1. n - Quantity[h] \in Int
      BY Constants
    <2> DEFINE w == IF n - Quantity[h] >= 0 THEN n - Quantity[h] ELSE 0
    <2>2. w \in {n - Quantity[h], 0} /\ \A y \in {n - Quantity[h], 0} : w >= y
      BY <2>1
    <2>3. Max({n - Quantity[h], 0}) \in {n - Quantity[h], 0}
          /\ Max({n - Quantity[h], 0}) >= 0
      BY <2>2 DEF Max
    <2> QED  BY <2>1, <2>3
  <1>2. \A n \in Nat : n + Quantity[h] \in Nat
    BY Constants
  <1>3. \A n \in Nat : New(n) \in Nat
    BY <1>1, <1>2
  <1> HIDE DEF New
  <1>4. row.reserved \in Nat /\ row.blocked \in Nat
    BY DEF BalanceRow
  <1>5. Counted(h, held, row) = IF h \in Reservation
                                THEN [row EXCEPT !.reserved = New(row.reserved)]
                                ELSE [row EXCEPT !.blocked = New(row.blocked)]
    BY DEF Counted, New
  <1>6. Counted(h, held, row) \in BalanceRow
    BY <1>3, <1>4, <1>5 DEF BalanceRow
  <1>7. /\ Counted(h, held, row).exists = row.exists
        /\ Counted(h, held, row).quantity = row.quantity
        /\ Counted(h, held, row).reserved =
             IF h \notin Reservation THEN row.reserved ELSE New(row.reserved)
        /\ Counted(h, held, row).blocked =
             IF h \in Reservation THEN row.blocked ELSE New(row.blocked)
    BY <1>5 DEF BalanceRow
  <1> QED  BY <1>6, <1>7 DEF New

\* A movement changes only what is there.
LEMMA MovedTypes ==
  ASSUME NEW row \in BalanceRow, NEW d \in Int, BalanceCheck(Moved(row, d))
  PROVE  /\ Moved(row, d) \in BalanceRow /\ Moved(row, d).exists
         /\ Moved(row, d).reserved = row.reserved /\ Moved(row, d).blocked = row.blocked
  <1> DEFINE n == row.quantity + d
  <1>1. Moved(row, d) = [row EXCEPT !.exists = TRUE, !.quantity = n]
    BY DEF Moved
  <1>2. row.quantity \in Nat
    BY DEF BalanceRow
  <1>3. n \in Int
    BY <1>2
  <1> HIDE DEF n
  <1>4. Moved(row, d).quantity = n
    BY <1>1 DEF BalanceRow
  <1>5. n \in Nat
    BY <1>3, <1>4 DEF BalanceCheck
  <1> QED  BY <1>1, <1>5 DEF BalanceRow

\* A sequence of movements, and what is left of it.
LEMMA MovementTypes ==
  /\ \A m \in Movements : m \in Seq([dim : Dim, delta : Int])
  /\ \A m \in Seq([dim : Dim, delta : Int]) : m # <<>> =>
       /\ Head(m).dim \in Dim /\ Head(m).delta \in Int
       /\ Tail(m) \in Seq([dim : Dim, delta : Int])
  <1> DEFINE M == [dim : Dim, delta : Int]
             L == [dim : Dim, delta : Int \ {0}]
  <1>1. L \subseteq M /\ \A e \in M : e.dim \in Dim /\ e.delta \in Int
    OBVIOUS
  <1>2. \A m \in Movements : m \in Seq(L)
    BY HoldAssumption DEF HoldAssumption
  <1> HIDE DEF M, L
  <1>3. \A m \in Seq(L) : m \in Seq(M)
    <2> TAKE m \in Seq(L)
    <2>1. Len(m) \in Nat /\ m \in [1..Len(m) -> L]
      OBVIOUS
    <2>2. m \in [1..Len(m) -> M]
      BY <1>1, <2>1
    <2> QED  BY <2>1, <2>2
  <1>4. \A m \in Seq(M) : m # <<>> => Head(m) \in M /\ Tail(m) \in Seq(M)
    OBVIOUS
  <1>5. \A m \in Seq(M) : m # <<>> =>
          Head(m).dim \in Dim /\ Head(m).delta \in Int /\ Tail(m) \in Seq(M)
    BY <1>1, <1>4
  <1> QED  BY <1>2, <1>3, <1>5 DEF M

\* Types.
LEMMA TypesStep ==
  ASSUME TypeOK, NEW s \in Session, SessionInv(s), Does(s)
  PROVE  TypeOK'
  <1> USE DEF TypeOK, HoldStatus, BalanceRow
  <1>1. CASE Rollback(s)
    <2>1. /\ status' \in [Hold -> HoldStatus] /\ savedStatus' \in [Hold -> HoldStatus]
          /\ balance' \in [Dim -> BalanceRow] /\ savedBalance' \in [Dim -> BalanceRow]
          /\ Idle(s)
      BY <1>1 DEF Rollback
    <2> QED  BY <2>1, IdleTypes
  <1>2. CASE Commit(s)
    <2>1. /\ status' \in [Hold -> HoldStatus] /\ savedStatus' \in [Hold -> HoldStatus]
          /\ balance' \in [Dim -> BalanceRow] /\ savedBalance' \in [Dim -> BalanceRow]
          /\ Idle(s)
      BY <1>2 DEF Commit, Seen
    <2> QED  BY <2>1, IdleTypes
  <1>3. CASE Ends(s)
    <2>1. PICK p \in Ending, H \in SUBSET Hold :
            pc' = [pc EXCEPT ![s] = p] /\ ending' = [ending EXCEPT ![s] = H]
      BY <1>3 DEF Ends
    <2>2. /\ status' = status /\ savedStatus' = savedStatus /\ balance' = balance
          /\ savedBalance' = savedBalance /\ holder' = holder
          /\ fired' = fired /\ counting' = counting /\ dims' = dims /\ moves' = moves
      BY <1>3 DEF Ends, rowVars
    <2>3. /\ pc' \in [Session -> {"idle", "create", "released", "expired", "move"}]
          /\ ending' \in [Session -> SUBSET Hold]
      BY <2>1 DEF Ending
    <2> QED  BY <2>2, <2>3
  <1>4. CASE FireTrigger(s)
    <2>1. PICK h \in fired[s] :
            /\ fired' = [fired EXCEPT ![s] = @ \ {h}]
            /\ counting' = [counting EXCEPT ![s] = h]
            /\ dims' = [dims EXCEPT ![s] = {x \in HeldIn[h] : Seen(s, x).exists}]
      BY <1>4 DEF FireTrigger
    <2>2. h \in Hold /\ HeldIn[h] \subseteq Dim
      BY Constants
    <2>3. /\ status' = status /\ savedStatus' = savedStatus /\ balance' = balance
          /\ savedBalance' = savedBalance /\ holder' = holder
          /\ pc' = pc /\ ending' = ending /\ moves' = moves
      BY <1>4 DEF FireTrigger, rowVars
    <2>4. /\ fired' \in [Session -> SUBSET Hold] /\ dims' \in [Session -> SUBSET Dim]
          /\ counting' \in [Session -> Hold \union {NoHold}]
      BY <2>1, <2>2
    <2> QED  BY <2>3, <2>4
  <1>5. CASE PostMovement(s)
    <2>1. moves[s] \in Seq([dim : Dim, delta : Int]) /\ moves[s] # <<>>
      BY <1>5 DEF PostMovement
    <2>2. /\ Head(moves[s]).dim \in Dim /\ Head(moves[s]).delta \in Int
          /\ Tail(moves[s]) \in Seq([dim : Dim, delta : Int])
      BY <2>1, MovementTypes
    <2> DEFINE x == Head(moves[s]).dim
               row == Moved(balance[x], Head(moves[s]).delta)
    <2>3. x \in Dim /\ row \in BalanceRow
      <3>1. BalanceCheck(row) /\ x \in Dim /\ balance[x] \in BalanceRow
        BY <1>5, <2>2 DEF PostMovement
      <3> QED  BY <2>2, <3>1, MovedTypes
    <2>4. /\ WriteBalance(s, x, row) /\ moves' = [moves EXCEPT ![s] = Tail(@)]
          /\ UNCHANGED <<status, pc, ending, fired, counting, dims>>
      BY <1>5 DEF PostMovement
    <2> HIDE DEF x, row
    <2> QED  BY <2>2, <2>3, <2>4 DEF WriteBalance
  <1>6. ASSUME NEW h \in Hold, CreateHold(s, h)  PROVE TypeOK'
    BY <1>6 DEF CreateHold
  <1>7. ASSUME NEW h \in Hold, EndHold(s, h)  PROVE TypeOK'
    <2>1. status[h] = "active" => pc[s] \in HoldStatus
      BY <1>7 DEF EndHold, SessionInv, Work, Ending
    <2>2. status' \in [Hold -> HoldStatus] /\ holder' \in [Hold \union Dim -> Session \union {NoSession}]
      BY ZenonT(90), <1>7, <2>1 DEF EndHold
    <2>3. ending' \in [Session -> SUBSET Hold] /\ fired' \in [Session -> SUBSET Hold]
      <3>1. \/ fired' = fired
            \/ fired' = [fired EXCEPT ![s] = fired[s] \union {h}]
        BY <1>7 DEF EndHold
      <3>2. ending' = [ending EXCEPT ![s] = ending[s] \ {h}]
        BY <1>7 DEF EndHold
      <3>3. fired \in [Session -> SUBSET Hold] /\ ending \in [Session -> SUBSET Hold]
        OBVIOUS
      <3> HIDE DEF TypeOK
      <3>4. \A H \in SUBSET Hold : [fired EXCEPT ![s] = H] \in [Session -> SUBSET Hold]
        BY <3>3
      <3>5. fired[s] \union {h} \in SUBSET Hold /\ ending[s] \ {h} \in SUBSET Hold
        BY <3>3
      <3> QED  BY <3>1, <3>2, <3>3, <3>4, <3>5
    <2> QED  BY <1>7, <2>2, <2>3 DEF EndHold
  <1>8. ASSUME NEW x \in Dim, CountRow(s, x)  PROVE TypeOK'
    <2> DEFINE row == Counted(counting[s], pc[s] = "create", balance[x])
    <2>1. row \in BalanceRow
      <3>1. counting[s] \in Hold
        BY <1>8 DEF CountRow, SessionInv, Work
      <3> QED  BY <3>1, CountedTypes
    <2>2. /\ WriteBalance(s, x, row) /\ dims' = [dims EXCEPT ![s] = @ \ {x}]
          /\ UNCHANGED <<status, pc, ending, fired, counting, moves>>
      BY <1>8 DEF CountRow
    <2> HIDE DEF row
    <2> QED  BY <2>1, <2>2 DEF WriteBalance
  <1>9. ASSUME NEW m \in Movements, BeginMovements(s, m)  PROVE TypeOK'
    <2>1. m \in Seq([dim : Dim, delta : Int])
      BY MovementTypes
    <2> QED  BY <1>9, <2>1 DEF BeginMovements, rowVars
  <1> QED
    BY <1>1, <1>2, <1>3, <1>4, <1>5, <1>6, <1>7, <1>8, <1>9 DEF Does

-----------------------------------------------------------------------------
(* What a step leaves of the other sessions.                               *)

\* A hold that no transaction has written is neither skipped nor written;
\* of one that s has written, row x is pending, written or skipped.
LEMMA Coverage ==
  ASSUME NEW h, NEW x
  PROVE  /\ holder[h] \notin Session => ~Skipped(h, x) /\ ~Written(h, x)
         /\ \A s \in Session : holder[h] = s =>
              /\ Skipped(h, x) <=> holder[x] # s /\ ~Pending(s, h, x)
              /\ Written(h, x) <=> holder[x] = s /\ ~Pending(s, h, x)
  BY DEF Skipped, Written

\* The same after a step.
LEMMA CoverageNext ==
  ASSUME NEW h, NEW x
  PROVE  /\ holder'[h] \notin Session => ~Skipped(h, x)' /\ ~Written(h, x)'
         /\ \A s \in Session : holder'[h] = s =>
              /\ Skipped(h, x)' <=> holder'[x] # s /\ ~Pending(s, h, x)'
              /\ Written(h, x)' <=> holder'[x] = s /\ ~Pending(s, h, x)'
  BY DEF Skipped, Written

Untouched(t) ==
  /\ pc'[t] = pc[t] /\ ending'[t] = ending[t] /\ fired'[t] = fired[t]
  /\ counting'[t] = counting[t] /\ dims'[t] = dims[t] /\ moves'[t] = moves[t]
  /\ \A r \in Hold \union Dim : holder'[r] = t <=> holder[r] = t
  /\ \A h \in Hold : holder[h] = t =>
       status'[h] = status[h] /\ savedStatus'[h] = savedStatus[h]

\* A balance row never goes away.
LEMMA RowsRemain ==
  ASSUME TypeOK, RowsInv, NEW s \in Session, Does(s)
  PROVE  \A x \in Dim : savedBalance[x].exists => savedBalance'[x].exists
  <1>1. CASE Commit(s)
    BY <1>1 DEF Commit, Seen, RowsInv, TypeOK
  <1>2. CASE savedBalance' = savedBalance
    BY <1>2
  <1> QED
    BY <1>1, <1>2
    DEF Does, Rollback, Ends, FireTrigger, PostMovement, CreateHold, EndHold, CountRow,
        BeginMovements, WriteBalance, rowVars

\* The rest of a session is its own.
LEMMA IdleUntouched ==
  ASSUME TypeOK, NEW s \in Session, Idle(s), NEW t \in Session, s # t
  PROVE  /\ pc'[t] = pc[t] /\ ending'[t] = ending[t] /\ fired'[t] = fired[t]
         /\ counting'[t] = counting[t] /\ dims'[t] = dims[t] /\ moves'[t] = moves[t]
         /\ \A r \in Hold \union Dim : holder'[r] = t <=> holder[r] = t
  BY Constants DEF TypeOK, Idle

\* A session writes only rows that are free or its own.
LEMMA OthersUntouched ==
  ASSUME TypeOK, NEW s \in Session, Does(s), NEW t \in Session, s # t, SessionInv(t)
  PROVE  Untouched(t)
  <1>1. CASE Rollback(s)
    <2>1. Idle(s)
      BY <1>1 DEF Rollback
    <2>2. \A h \in Hold : holder[h] = t =>
            status'[h] = status[h] /\ savedStatus'[h] = savedStatus[h]
      BY <1>1 DEF Rollback
    <2> QED  BY <2>1, <2>2, IdleUntouched DEF Untouched
  <1>2. CASE Commit(s)
    <2>1. Idle(s)
      BY <1>2 DEF Commit
    <2>2. \A h \in Hold : holder[h] = t =>
            status'[h] = status[h] /\ savedStatus'[h] = savedStatus[h]
      BY <1>2 DEF Commit
    <2> QED  BY <2>1, <2>2, IdleUntouched DEF Untouched
  <1>3. CASE Ends(s)
    BY <1>3 DEF Ends, TypeOK, rowVars, Untouched
  <1>4. CASE FireTrigger(s)
    BY <1>4 DEF FireTrigger, TypeOK, rowVars, Untouched
  <1>5. CASE PostMovement(s)
    <2> DEFINE x == Head(moves[s]).dim
    <2>1. /\ Free(s, x) /\ holder' = [holder EXCEPT ![x] = s]
          /\ moves' = [moves EXCEPT ![s] = Tail(@)]
          /\ UNCHANGED <<status, savedStatus, pc, ending, fired, counting, dims>>
      BY <1>5 DEF PostMovement, WriteBalance
    <2>2. x \in Dim
      BY <1>5, MovementTypes DEF PostMovement, TypeOK
    <2> HIDE DEF x
    <2> QED  BY <2>1, <2>2, Constants DEF Free, TypeOK, Untouched
  <1>6. ASSUME NEW h \in Hold, CreateHold(s, h)  PROVE Untouched(t)
    <2>1. holder[h] # t
      BY <1>6 DEF CreateHold, SessionInv, Holds, Ending
    <2> QED  BY <1>6, <2>1 DEF CreateHold, TypeOK, Untouched
  <1>7. ASSUME NEW h \in Hold, EndHold(s, h)  PROVE Untouched(t)
    <2>1. holder[h] # t
      BY <1>7, Constants DEF EndHold, Free
    <2> QED  BY <1>7, <2>1 DEF EndHold, TypeOK, Untouched
  <1>8. ASSUME NEW x \in Dim, CountRow(s, x)  PROVE Untouched(t)
    <2>1. holder[x] # t
      BY <1>8, Constants DEF CountRow, Free
    <2>2. /\ holder' = [holder EXCEPT ![x] = s] /\ dims' = [dims EXCEPT ![s] = @ \ {x}]
          /\ UNCHANGED <<status, savedStatus, pc, ending, fired, counting, moves>>
      BY <1>8 DEF CountRow, WriteBalance
    <2> QED  BY <2>1, <2>2 DEF TypeOK, Untouched
  <1>9. ASSUME NEW m \in Movements, BeginMovements(s, m)  PROVE Untouched(t)
    BY <1>9 DEF BeginMovements, TypeOK, rowVars, Untouched
  <1> QED
    BY <1>1, <1>2, <1>3, <1>4, <1>5, <1>6, <1>7, <1>8, <1>9 DEF Does

\* Its triggers still have the same rows to write, and have skipped the same.
LEMMA OtherCovers ==
  ASSUME NEW t \in Session, Untouched(t), NEW h \in Hold, holder[h] = t, NEW x \in Dim
  PROVE  /\ holder'[h] = t /\ Pending(t, h, x)' = Pending(t, h, x)
         /\ Skipped(h, x)' = Skipped(h, x)
         /\ CoversNow(h, x)' = CoversNow(h, x)
         /\ CoversBefore(h, x)' = CoversBefore(h, x)
  <1>1. holder'[h] = t /\ (holder'[x] = t <=> holder[x] = t)
    BY DEF Untouched
  <1>2. Pending(t, h, x)' = Pending(t, h, x)
    BY DEF Untouched, Pending
  <1>3. Skipped(h, x)' = Skipped(h, x) /\ Written(h, x)' = Written(h, x)
    <2>1. (Skipped(h, x)' <=> Skipped(h, x)) /\ (Written(h, x)' <=> Written(h, x))
      BY <1>1, <1>2, Coverage, CoverageNext
    <2>2. Skipped(h, x) \in BOOLEAN /\ Written(h, x) \in BOOLEAN
          /\ Skipped(h, x)' \in BOOLEAN /\ Written(h, x)' \in BOOLEAN
      BY DEF Skipped, Written
    <2> QED  BY <2>1, <2>2
  <1>4. status'[h] = status[h] /\ savedStatus'[h] = savedStatus[h]
    BY DEF Untouched
  <1> QED  BY <1>1, <1>2, <1>3, <1>4 DEF CoversNow, CoversBefore

\* So what is true of another session stays true.
LEMMA OtherSession ==
  ASSUME NEW t \in Session, Untouched(t), SessionInv(t),
         HeldIn \in [Hold -> SUBSET Dim],
         \A x \in Dim : savedBalance[x].exists => savedBalance'[x].exists,
         dims[t] \subseteq Dim, fired[t] \subseteq Hold
  PROVE  SessionInv(t)'
  <1>1. Work(t)'
    BY DEF SessionInv, Work, Untouched, Ending
  <1>2. \A h \in Hold : holder'[h] = t =>
          \A x \in HeldIn[h] : InitialStock[x] > 0 => ~Skipped(h, x)'
    BY OtherCovers DEF SessionInv, Holds, Untouched
  <1>3. Holds(t)'
    BY <1>2 DEF SessionInv, Holds, Untouched, Ending
  <1> QED  BY <1>1, <1>3 DEF SessionInv

-----------------------------------------------------------------------------
(* What a step does to its own session, and to the rows.                   *)

\* A transaction that has ended has nothing left to do.
LEMMA AfterEnd ==
  ASSUME TypeOK, NEW s \in Session, Idle(s)
  PROVE  SessionInv(s)' /\ \A r \in Hold \union Dim : holder'[r] # s
  <1>1. /\ pc'[s] = "idle" /\ ending'[s] = {} /\ fired'[s] = {} /\ dims'[s] = {}
        /\ moves'[s] = <<>> /\ \A r \in Hold \union Dim : holder'[r] # s
    BY Constants DEF TypeOK, Idle
  <1>2. Work(s)'
    BY <1>1 DEF Work, Ending
  <1>3. Holds(s)'
    BY <1>1 DEF Holds
  <1> QED  BY <1>1, <1>2, <1>3 DEF SessionInv

\* When it begins, it has written nothing.
LEMMA AtBegin ==
  ASSUME TypeOK, NEW s \in Session, SessionInv(s), pc[s] = "idle"
  PROVE  /\ \A r \in Hold \union Dim : holder[r] # s
         /\ ending[s] = {} /\ fired[s] = {} /\ dims[s] = {} /\ moves[s] = <<>>
  BY DEF SessionInv, Work, Holds, Ending

\* A hold that is absent has been written by nobody.
LEMMA HolderAbsent ==
  ASSUME TypeOK, RowsInv, \A t \in Session : SessionInv(t),
         NEW h \in Hold, status[h] = "absent"
  PROVE  holder[h] = NoSession /\ savedStatus[h] = "absent"
  <1>1. holder[h] \in Session \union {NoSession}
    BY DEF TypeOK
  <1>2. \A t \in Session : holder[h] # t
    BY DEF SessionInv, Holds, Ending
  <1> QED  BY <1>1, <1>2 DEF RowsInv

\* An ended hold is pending, the others of its statement are as they were.
LEMMA OwnSession ==
  ASSUME TypeOK, RowsInv, \A t \in Session : SessionInv(t),
         NEW s \in Session, SessionInv(s), Does(s)
  PROVE  SessionInv(s)'
  <1>1. CASE Idle(s)
    BY <1>1, AfterEnd
  <1>2. CASE Ends(s)
    <2>1. PICK p \in Ending, H \in SUBSET Hold :
            pc' = [pc EXCEPT ![s] = p] /\ ending' = [ending EXCEPT ![s] = H]
      BY <1>2 DEF Ends
    <2>2. /\ \A r \in Hold \union Dim : holder[r] # s
          /\ fired[s] = {} /\ dims[s] = {} /\ moves[s] = <<>>
      BY <1>2, AtBegin DEF Ends
    <2>3. holder' = holder /\ fired' = fired /\ dims' = dims /\ moves' = moves
      BY <1>2 DEF Ends, rowVars
    <2>4. pc'[s] = p /\ ending'[s] = H
      BY <2>1 DEF TypeOK
    <2>5. Work(s)'
      BY <2>1, <2>2, <2>3, <2>4 DEF Work, Ending
    <2>6. Holds(s)'
      BY <2>2, <2>3 DEF Holds
    <2> QED  BY <2>5, <2>6 DEF SessionInv
  <1>3. CASE FireTrigger(s)
    <2>1. PICK h \in fired[s] :
            /\ fired' = [fired EXCEPT ![s] = @ \ {h}]
            /\ counting' = [counting EXCEPT ![s] = h]
            /\ dims' = [dims EXCEPT ![s] = {x \in HeldIn[h] : Seen(s, x).exists}]
      BY <1>3 DEF FireTrigger
    <2>2. /\ status' = status /\ savedStatus' = savedStatus /\ balance' = balance
          /\ savedBalance' = savedBalance /\ holder' = holder
          /\ pc' = pc /\ ending' = ending /\ moves' = moves /\ dims[s] = {}
      BY <1>3 DEF FireTrigger, rowVars
    <2>3. /\ fired'[s] = fired[s] \ {h} /\ counting'[s] = h
          /\ dims'[s] = {x \in HeldIn[h] : Seen(s, x).exists}
          /\ h \in Hold /\ holder[h] = s /\ HeldIn[h] \subseteq Dim
      BY <2>1, Constants DEF TypeOK, SessionInv, Work
    <2>4. pc[s] \notin {"idle", "move"}
      BY <2>1 DEF SessionInv, Work
    <2>5. \A x \in Dim : Seen(s, x).exists <=> savedBalance[x].exists
      BY <2>4 DEF Seen, RowsInv, SessionInv, Holds
    <2>6. Work(s)'
      BY <2>2, <2>3, <2>4, <2>5 DEF SessionInv, Work, Ending
    <2>7. ASSUME NEW g \in Hold, holder[g] = s, NEW x \in HeldIn[g], InitialStock[x] > 0
          PROVE  ~Skipped(g, x)'
      <3>1. holder[x] = s \/ Pending(s, g, x)
        BY <2>7, Coverage DEF SessionInv, Holds
      <3>2. Pending(s, g, x) => Pending(s, g, x)'
        <4>1. CASE g = h
          <5>1. x \in Dim /\ savedBalance[x].exists
            BY <2>7, Constants DEF RowsInv
          <5> QED  BY <2>3, <2>5, <4>1, <2>7, <5>1 DEF Pending
        <4>2. CASE g # h
          BY <2>2, <2>3, <4>2 DEF Pending
        <4> QED  BY <4>1, <4>2
      <3> QED  BY <2>2, <2>7, <3>1, <3>2, CoverageNext
    <2>8. Holds(s)'
      BY <2>2, <2>7 DEF SessionInv, Holds, Ending
    <2> QED  BY <2>6, <2>8 DEF SessionInv
  <1>4. CASE PostMovement(s)
    <2> DEFINE x == Head(moves[s]).dim
    <2>1. /\ holder' = [holder EXCEPT ![x] = s] /\ moves' = [moves EXCEPT ![s] = Tail(@)]
          /\ status' = status /\ savedStatus' = savedStatus
          /\ savedBalance' = savedBalance /\ pc' = pc /\ ending' = ending
          /\ fired' = fired /\ counting' = counting /\ dims' = dims
      BY <1>4 DEF PostMovement, WriteBalance
    <2>2. x \in Dim
      BY <1>4, MovementTypes DEF PostMovement, TypeOK
    <2>3. pc[s] = "move" /\ fired[s] = {} /\ dims[s] = {} /\ ending[s] = {}
      BY <1>4 DEF PostMovement, SessionInv, Work, Ending
    <2> HIDE DEF x
    <2>4. \A h \in Hold : holder'[h] # s
      BY <2>1, <2>2, <2>3, Constants DEF TypeOK, SessionInv, Holds, Ending
    <2>5. Work(s)'
      BY <2>1, <2>3 DEF Work, Ending
    <2>6. Holds(s)'
      BY <2>1, <2>3, <2>4 DEF Holds
    <2> QED  BY <2>5, <2>6 DEF SessionInv
  <1>5. ASSUME NEW h \in Hold, CreateHold(s, h)  PROVE SessionInv(s)'
    <2>1. /\ \A r \in Hold \union Dim : holder[r] # s
          /\ ending[s] = {} /\ dims[s] = {} /\ moves[s] = <<>>
      BY <1>5, AtBegin DEF CreateHold
    <2>2. /\ pc'[s] = "create" /\ fired'[s] = {h} /\ ending'[s] = {} /\ dims'[s] = {}
          /\ moves'[s] = <<>> /\ status'[h] = "active" /\ savedStatus' = savedStatus
          /\ holder'[h] = s /\ \A r \in (Hold \union Dim) \ {h} : holder'[r] = holder[r]
      BY <1>5, <2>1 DEF CreateHold, TypeOK
    <2>3. savedStatus[h] = "absent"
      <3>1. status[h] = "absent"
        BY <1>5 DEF CreateHold
      <3> QED  BY <1>5, <3>1, HolderAbsent
    <2>4. Work(s)'
      BY <2>2 DEF Work, Ending
    <2>5. \A x : Pending(s, h, x)'
      BY <2>2 DEF Pending
    <2>6. \A g \in Hold : holder'[g] = s => g = h
      BY <2>1, <2>2
    <2>7. \A x \in Dim : holder'[x] # s
      BY <2>1, <2>2, Constants
    <2>8. \A x : ~Skipped(h, x)'
      BY <2>2, <2>5, CoverageNext
    <2>9. Holds(s)'
      BY <2>2, <2>3, <2>6, <2>7, <2>8 DEF Holds
    <2> QED  BY <2>4, <2>9 DEF SessionInv
  <1>6. ASSUME NEW h \in Hold, EndHold(s, h)  PROVE SessionInv(s)'
    <2>1. pc[s] \in Ending /\ pc' = pc /\ moves' = moves /\ dims' = dims
          /\ counting' = counting /\ savedStatus' = savedStatus
          /\ savedBalance' = savedBalance
      BY <1>6 DEF EndHold, SessionInv, Work
    <2>2. CASE status[h] # "active"
      <3>1. status' = status /\ holder' = holder /\ fired' = fired
        BY <1>6, <2>2 DEF EndHold
      <3>2. Work(s)'
        BY <2>1, <3>1 DEF SessionInv, Work, Ending
      <3>3. \A g, x : Skipped(g, x)' = Skipped(g, x)
        BY <2>1, <3>1 DEF Skipped, Pending
      <3>4. Holds(s)'
        BY <2>1, <3>1, <3>3 DEF SessionInv, Holds
      <3> QED  BY <3>2, <3>4 DEF SessionInv
    <2>3. CASE status[h] = "active"
      <3>1. holder[h] = NoSession /\ savedStatus[h] = "active"
        <4>1. holder[h] # s
          BY <2>1, <2>3 DEF SessionInv, Holds, Ending
        <4> QED  BY <1>6, <2>3, <4>1 DEF EndHold, Free, RowsInv
      <3>2. /\ status' = [status EXCEPT ![h] = pc[s]] /\ holder' = [holder EXCEPT ![h] = s]
            /\ fired' = [fired EXCEPT ![s] = @ \union {h}]
        BY <1>6, <2>3 DEF EndHold
      <3>3. /\ status'[h] = pc[s] /\ holder'[h] = s /\ fired'[s] = fired[s] \union {h}
            /\ \A g \in Hold \ {h} : status'[g] = status[g]
            /\ \A r \in (Hold \union Dim) \ {h} : holder'[r] = holder[r]
        BY <3>2 DEF TypeOK
      <3>4. counting[s] # h \/ dims[s] = {}
        BY <3>1, Constants DEF SessionInv, Work
      <3>5. Work(s)'
        <4>1. ASSUME NEW g \in fired'[s]  PROVE holder'[g] = s
          <5>1. g = h \/ (g \in fired[s] /\ g \in Hold \ {h} /\ holder[g] = s)
            BY <3>3 DEF TypeOK, SessionInv, Work
          <5> QED  BY <3>3, <5>1
        <4>2. dims[s] # {} =>
                /\ counting[s] \in Hold /\ counting[s] \notin fired'[s]
                /\ holder'[counting[s]] = s /\ dims[s] \subseteq HeldIn[counting[s]]
                /\ \A x \in dims[s] : savedBalance[x].exists
          BY <3>3, <3>4 DEF SessionInv, Work
        <4>3. /\ pc[s] \notin {"idle", "move"}
              /\ pc[s] # "move" => moves[s] = <<>>
          BY <2>1 DEF Ending, SessionInv, Work
        <4> QED  BY <2>1, <4>1, <4>2, <4>3 DEF Work
      <3>6. ASSUME NEW g \in Hold, holder'[g] = s, NEW x \in HeldIn[g], InitialStock[x] > 0
            PROVE  ~Skipped(g, x)'
        <4>1. CASE g = h
          BY <3>3, <4>1, CoverageNext DEF Pending
        <4>2. CASE g # h
          <5>1. x \in Dim /\ holder[g] = s /\ holder'[x] = holder[x]
            BY <3>3, <3>6, <4>2, Constants
          <5>2. holder[x] = s \/ Pending(s, g, x)
            BY <3>6, <5>1, Coverage DEF SessionInv, Holds
          <5>3. Pending(s, g, x) => Pending(s, g, x)'
            BY <2>1, <3>3 DEF Pending
          <5> QED  BY <3>6, <5>1, <5>2, <5>3, CoverageNext
        <4> QED  BY <4>1, <4>2
      <3>7. \A g \in Hold : holder'[g] = s => status'[g] = pc[s] /\ savedStatus[g] = "active"
        BY <2>1, <3>1, <3>3 DEF SessionInv, Holds, Ending
      <3>8. \A x \in Dim : holder'[x] = s <=> holder[x] = s
        BY <3>3, Constants
      <3>9. Holds(s)'
        BY <2>1, <3>6, <3>7, <3>8 DEF SessionInv, Holds, Ending
      <3> QED  BY <3>5, <3>9 DEF SessionInv
    <2> QED  BY <2>2, <2>3
  <1>7. ASSUME NEW x \in Dim, CountRow(s, x)  PROVE SessionInv(s)'
    <2>1. /\ x \in dims[s] /\ holder' = [holder EXCEPT ![x] = s]
          /\ dims' = [dims EXCEPT ![s] = @ \ {x}]
          /\ status' = status /\ savedStatus' = savedStatus
          /\ savedBalance' = savedBalance /\ pc' = pc /\ ending' = ending
          /\ fired' = fired /\ counting' = counting /\ moves' = moves
      BY <1>7 DEF CountRow, WriteBalance
    <2>2. /\ holder'[x] = s /\ dims'[s] = dims[s] \ {x}
          /\ \A r \in (Hold \union Dim) \ {x} : holder'[r] = holder[r]
      BY <2>1 DEF TypeOK
    <2>3. \A h \in Hold : holder'[h] = holder[h]
      BY <2>2, Constants
    <2>4. Work(s)'
      BY <2>1, <2>2, <2>3 DEF SessionInv, Work, Ending
    <2>5. ASSUME NEW g \in Hold, holder[g] = s, NEW y \in HeldIn[g], InitialStock[y] > 0
          PROVE  ~Skipped(g, y)'
      <3>1. holder[y] = s \/ Pending(s, g, y)
        BY <2>5, Coverage DEF SessionInv, Holds
      <3>2. y # x => (Pending(s, g, y) => Pending(s, g, y)')
        BY <2>1, <2>2 DEF Pending
      <3>3. y \in Dim
        BY <2>5, Constants
      <3> QED  BY <2>2, <2>3, <2>5, <3>1, <3>2, <3>3, CoverageNext
    <2>6. pc[s] \notin {"idle", "move"} /\ savedBalance[x].exists
      BY <2>1 DEF SessionInv, Work
    <2>7. Holds(s)'
      BY <2>1, <2>2, <2>3, <2>5, <2>6 DEF SessionInv, Holds, Ending
    <2> QED  BY <2>4, <2>7 DEF SessionInv
  <1>8. ASSUME NEW m \in Movements, BeginMovements(s, m)  PROVE SessionInv(s)'
    <2>1. /\ \A r \in Hold \union Dim : holder[r] # s
          /\ ending[s] = {} /\ dims[s] = {} /\ fired[s] = {}
      BY <1>8, AtBegin DEF BeginMovements
    <2>2. /\ pc'[s] = "move" /\ holder' = holder /\ ending' = ending
          /\ fired' = fired /\ dims' = dims
      BY <1>8 DEF BeginMovements, TypeOK, rowVars
    <2>3. Work(s)'
      BY <2>1, <2>2 DEF Work, Ending
    <2>4. Holds(s)'
      BY <2>1, <2>2 DEF Holds
    <2> QED  BY <2>3, <2>4 DEF SessionInv
  <1> QED
    BY <1>1, <1>2, <1>3, <1>4, <1>5, <1>6, <1>7, <1>8 DEF Does, Rollback, Commit

\* Rows stay what they are until their transaction ends, and a balance row
\* that only its own transaction sees withholds nothing.
LEMMA RowsStep ==
  ASSUME TypeOK, RowsInv, \A t \in Session : SessionInv(t), NEW s \in Session, Does(s)
  PROVE  RowsInv'
  <1>1. CASE Rollback(s)
    <2>1. \A h \in Hold : holder'[h] = NoSession => status'[h] = savedStatus'[h]
      BY <1>1, Constants DEF Rollback, Idle, RowsInv, TypeOK
    <2>2. /\ savedBalance' = savedBalance
          /\ \A x \in Dim : balance'[x] \in {balance[x], savedBalance[x]}
      BY <1>1 DEF Rollback
    <2> QED  BY <2>1, <2>2 DEF RowsInv
  <1>2. CASE Commit(s)
    <2>1. \A h \in Hold : holder'[h] = NoSession => status'[h] = savedStatus'[h]
      BY <1>2, Constants DEF Commit, Idle, RowsInv, TypeOK
    <2>2. /\ balance' = balance
          /\ \A x \in Dim : savedBalance'[x] \in {balance[x], savedBalance[x]}
      BY <1>2 DEF Commit, Seen
    <2>3. \A x \in Dim : savedBalance[x].exists => savedBalance'[x].exists
      BY <1>2, RowsRemain DEF Does
    <2> QED  BY <2>1, <2>2, <2>3 DEF RowsInv
  <1>3. CASE Ends(s) \/ FireTrigger(s) \/ \E m \in Movements : BeginMovements(s, m)
    <2>1. /\ status' = status /\ savedStatus' = savedStatus /\ balance' = balance
          /\ savedBalance' = savedBalance /\ holder' = holder
      BY <1>3 DEF Ends, FireTrigger, BeginMovements, rowVars
    <2> QED  BY <2>1 DEF RowsInv
  <1>4. CASE PostMovement(s)
    <2> DEFINE x == Head(moves[s]).dim
               d == Head(moves[s]).delta
    <2>1. /\ balance' = [balance EXCEPT ![x] = Moved(balance[x], d)]
          /\ holder' = [holder EXCEPT ![x] = s] /\ BalanceCheck(Moved(balance[x], d))
          /\ status' = status /\ savedStatus' = savedStatus /\ savedBalance' = savedBalance
      BY <1>4 DEF PostMovement, WriteBalance
    <2>2. x \in Dim /\ d \in Int /\ balance[x] \in BalanceRow
      BY <1>4, MovementTypes DEF PostMovement, TypeOK
    <2> HIDE DEF x, d
    <2>3. /\ balance'[x].exists /\ balance'[x].reserved = balance[x].reserved
          /\ balance'[x].blocked = balance[x].blocked
          /\ \A y \in Dim \ {x} : balance'[y] = balance[y]
      BY <2>1, <2>2, MovedTypes DEF TypeOK
    <2>4. \A h \in Hold : holder'[h] = holder[h]
      BY <2>1, <2>2, Constants DEF TypeOK
    <2> QED  BY <2>1, <2>3, <2>4 DEF RowsInv
  <1>5. ASSUME NEW h \in Hold, CreateHold(s, h) \/ EndHold(s, h)  PROVE RowsInv'
    <2>1. /\ savedStatus' = savedStatus /\ balance' = balance /\ savedBalance' = savedBalance
          /\ \/ status' = status /\ holder' = holder
             \/ /\ \A g \in Hold \ {h} : status'[g] = status[g] /\ holder'[g] = holder[g]
                /\ holder'[h] = s
      BY <1>5 DEF CreateHold, EndHold, TypeOK
    <2> QED  BY <2>1, Constants DEF RowsInv
  <1>6. ASSUME NEW x \in Dim, CountRow(s, x)  PROVE RowsInv'
    <2> DEFINE row == Counted(counting[s], pc[s] = "create", balance[x])
    <2>1. /\ balance' = [balance EXCEPT ![x] = row] /\ holder' = [holder EXCEPT ![x] = s]
          /\ status' = status /\ savedStatus' = savedStatus /\ savedBalance' = savedBalance
          /\ x \in dims[s]
      BY <1>6 DEF CountRow, WriteBalance
    <2>2. counting[s] \in Hold /\ savedBalance[x].exists /\ balance[x] \in BalanceRow
      BY <2>1 DEF SessionInv, Work, TypeOK
    <2>3. row.exists = balance[x].exists
      BY <2>2, CountedTypes
    <2> HIDE DEF row
    <2>4. /\ balance'[x].exists = balance[x].exists
          /\ \A y \in Dim \ {x} : balance'[y] = balance[y]
          /\ \A h \in Hold : holder'[h] = holder[h]
      BY <2>1, <2>3, Constants DEF TypeOK
    <2> QED  BY <2>1, <2>2, <2>4 DEF RowsInv
  <1> QED  BY <1>1, <1>2, <1>3, <1>4, <1>5, <1>6 DEF Does

-----------------------------------------------------------------------------
(* What the columns cover.                                                 *)

\* Nothing is asked of a row that withholds nothing.
LEMMA CoverZero ==
  ASSUME NEW x \in Dim, ~ (InitialStock[x] > 0),
         balance'[x].reserved = 0, balance'[x].blocked = 0,
         savedBalance'[x].reserved = 0, savedBalance'[x].blocked = 0
  PROVE  Cover(x)'
  <1>1. \A S \in SUBSET Hold : Covered(x, 0, S)
    BY HeldType DEF Covered
  <1>2. /\ Now(x, Reservation)' \subseteq Hold /\ Now(x, Block)' \subseteq Hold
        /\ Before(x, Reservation)' \subseteq Hold /\ Before(x, Block)' \subseteq Hold
    BY Constants DEF Now, Before
  <1> QED  BY <1>1, <1>2 DEF Cover

\* The sets of holds.
LEMMA CoverTypes ==
  ASSUME TypeOK, NEW x \in Dim
  PROVE  /\ Now(x, Reservation) \in SUBSET Hold /\ Now(x, Block) \in SUBSET Hold
         /\ Before(x, Reservation) \in SUBSET Hold /\ Before(x, Block) \in SUBSET Hold
         /\ Now(x, Reservation)' \in SUBSET Hold /\ Now(x, Block)' \in SUBSET Hold
         /\ Before(x, Reservation)' \in SUBSET Hold /\ Before(x, Block)' \in SUBSET Hold
         /\ balance[x].reserved \in Nat /\ balance[x].blocked \in Nat
         /\ savedBalance[x].reserved \in Nat /\ savedBalance[x].blocked \in Nat
  BY Constants DEF TypeOK, BalanceRow, Now, Before

\* Columns that are as they were stay covered if no hold is less covered.
LEMMA NowFrame ==
  ASSUME TypeOK, NEW x \in Dim, Cover(x),
         balance'[x].reserved = balance[x].reserved,
         balance'[x].blocked = balance[x].blocked,
         \A h \in Hold : x \in HeldIn[h] =>
           /\ CoversNow(h, x) => CoversNow(h, x)'
           /\ InitialStock[x] > 0 /\ CoversNow(h, x)' => CoversNow(h, x)
  PROVE  /\ Covered(x, balance'[x].reserved, Now(x, Reservation)')
         /\ Covered(x, balance'[x].blocked, Now(x, Block)')
  <1>1. /\ Now(x, Reservation) \subseteq Now(x, Reservation)'
        /\ Now(x, Block) \subseteq Now(x, Block)'
        /\ InitialStock[x] > 0 => /\ Now(x, Reservation)' \subseteq Now(x, Reservation)
                                  /\ Now(x, Block)' \subseteq Now(x, Block)
    BY Constants DEF Now
  <1> QED  BY <1>1, CoverTypes, CoveredGrows DEF Cover

LEMMA BeforeFrame ==
  ASSUME TypeOK, NEW x \in Dim, Cover(x),
         savedBalance'[x].reserved = savedBalance[x].reserved,
         savedBalance'[x].blocked = savedBalance[x].blocked,
         \A h \in Hold : x \in HeldIn[h] =>
           /\ CoversBefore(h, x) => CoversBefore(h, x)'
           /\ InitialStock[x] > 0 /\ CoversBefore(h, x)' => CoversBefore(h, x)
  PROVE  /\ Covered(x, savedBalance'[x].reserved, Before(x, Reservation)')
         /\ Covered(x, savedBalance'[x].blocked, Before(x, Block)')
  <1>1. /\ Before(x, Reservation) \subseteq Before(x, Reservation)'
        /\ Before(x, Block) \subseteq Before(x, Block)'
        /\ InitialStock[x] > 0 => /\ Before(x, Reservation)' \subseteq Before(x, Reservation)
                                  /\ Before(x, Block)' \subseteq Before(x, Block)
    BY Constants DEF Before
  <1> QED  BY <1>1, CoverTypes, CoveredGrows DEF Cover

\* A rollback gives a row back what others saw of it.
LEMMA UndoFrame ==
  ASSUME TypeOK, NEW x \in Dim, Cover(x), balance'[x] = savedBalance[x],
         \A h \in Hold : x \in HeldIn[h] =>
           /\ CoversBefore(h, x) => CoversNow(h, x)'
           /\ InitialStock[x] > 0 /\ CoversNow(h, x)' => CoversBefore(h, x)
  PROVE  /\ Covered(x, balance'[x].reserved, Now(x, Reservation)')
         /\ Covered(x, balance'[x].blocked, Now(x, Block)')
  <1>1. /\ Before(x, Reservation) \subseteq Now(x, Reservation)'
        /\ Before(x, Block) \subseteq Now(x, Block)'
        /\ InitialStock[x] > 0 => /\ Now(x, Reservation)' \subseteq Before(x, Reservation)
                                  /\ Now(x, Block)' \subseteq Before(x, Block)
    BY Constants DEF Now, Before
  <1> QED  BY <1>1, CoverTypes, CoveredGrows DEF Cover

\* A commit shows others what the transaction has made of it.
LEMMA ShowFrame ==
  ASSUME TypeOK, NEW x \in Dim, Cover(x), savedBalance'[x] = balance[x],
         \A h \in Hold : x \in HeldIn[h] =>
           /\ CoversNow(h, x) => CoversBefore(h, x)'
           /\ InitialStock[x] > 0 /\ CoversBefore(h, x)' => CoversNow(h, x)
  PROVE  /\ Covered(x, savedBalance'[x].reserved, Before(x, Reservation)')
         /\ Covered(x, savedBalance'[x].blocked, Before(x, Block)')
  <1>1. /\ Now(x, Reservation) \subseteq Before(x, Reservation)'
        /\ Now(x, Block) \subseteq Before(x, Block)'
        /\ InitialStock[x] > 0 => /\ Before(x, Reservation)' \subseteq Now(x, Reservation)
                                  /\ Before(x, Block)' \subseteq Now(x, Block)
    BY Constants DEF Now, Before
  <1> QED  BY <1>1, CoverTypes, CoveredGrows DEF Cover

\* A hold that the session of a step has not written, before or after it.
LEMMA Elsewhere ==
  ASSUME TypeOK, NEW s \in Session, Does(s), \A t \in Session : SessionInv(t),
         NEW h \in Hold, holder[h] # s, holder'[h] # s, NEW x \in Dim
  PROVE  /\ status'[h] = status[h] /\ savedStatus'[h] = savedStatus[h]
         /\ holder'[h] = holder[h]
         /\ CoversNow(h, x)' = CoversNow(h, x)
         /\ CoversBefore(h, x)' = CoversBefore(h, x)
  <1>1. \A t \in Session : t # s => Untouched(t)
    BY OthersUntouched
  <1>2. CASE holder[h] \in Session
    <2> DEFINE t == holder[h]
    <2>1. t \in Session /\ Untouched(t) /\ holder[h] = t
      BY <1>1, <1>2
    <2>2. status'[h] = status[h] /\ savedStatus'[h] = savedStatus[h]
      BY <2>1 DEF Untouched
    <2> HIDE DEF t
    <2> QED  BY <2>1, <2>2, OtherCovers
  <1>3. CASE holder[h] = NoSession
    <2>1. status'[h] = status[h] /\ savedStatus'[h] = savedStatus[h]
          /\ holder'[h] \in {holder[h], NoSession}
      <3>1. CASE Rollback(s) \/ Commit(s)
        BY <3>1 DEF Rollback, Commit, Idle, TypeOK
      <3>2. CASE Ends(s) \/ FireTrigger(s) \/ \E m \in Movements : BeginMovements(s, m)
        BY <3>2 DEF Ends, FireTrigger, BeginMovements, rowVars
      <3>3. ASSUME NEW y \in Dim, savedStatus' = savedStatus, status' = status,
                   holder' = [holder EXCEPT ![y] = s]
            PROVE  status'[h] = status[h] /\ savedStatus'[h] = savedStatus[h]
                   /\ holder'[h] = holder[h]
        BY <3>3, Constants DEF TypeOK
      <3>4. CASE PostMovement(s)
        <4>1. Head(moves[s]).dim \in Dim
          BY <3>4, MovementTypes DEF PostMovement, TypeOK
        <4> QED  BY <3>3, <3>4, <4>1 DEF PostMovement, WriteBalance
      <3>5. CASE \E y \in Dim : CountRow(s, y)
        BY <3>3, <3>5 DEF CountRow, WriteBalance
      <3>6. ASSUME NEW g \in Hold, CreateHold(s, g) \/ EndHold(s, g)
            PROVE  status'[h] = status[h] /\ savedStatus'[h] = savedStatus[h]
                   /\ holder'[h] = holder[h]
        BY <3>6 DEF CreateHold, EndHold, TypeOK
      <3> QED  BY <3>1, <3>2, <3>4, <3>5, <3>6 DEF Does
    <2>2. holder[h] \notin Session /\ holder'[h] \notin Session /\ holder'[h] = holder[h]
      BY <1>3, <2>1, Constants
    <2>3. /\ CoversNow(h, x) <=> savedStatus[h] = "active"
          /\ CoversBefore(h, x) <=> savedStatus[h] = "active"
      BY <2>2, Coverage DEF CoversNow, CoversBefore
    <2>4. /\ CoversNow(h, x)' <=> savedStatus'[h] = "active"
          /\ CoversBefore(h, x)' <=> savedStatus'[h] = "active"
      BY <2>2, CoverageNext DEF CoversNow, CoversBefore
    <2> QED  BY <2>1, <2>2, <2>3, <2>4 DEF CoversNow, CoversBefore
  <1> QED  BY <1>2, <1>3 DEF TypeOK

\* A hold the session has written: pending, written or skipped.
LEMMA OwnCovers ==
  ASSUME NEW s \in Session, NEW h, holder[h] = s, NEW x
  PROVE  /\ Pending(s, h, x) => /\ CoversNow(h, x) <=> savedStatus[h] = "active"
                                /\ CoversBefore(h, x) <=> savedStatus[h] = "active"
         /\ ~Pending(s, h, x) /\ holder[x] = s =>
              /\ CoversNow(h, x) <=> status[h] = "active"
              /\ CoversBefore(h, x) <=> savedStatus[h] = "active"
         /\ ~Pending(s, h, x) /\ holder[x] # s => ~CoversNow(h, x) /\ ~CoversBefore(h, x)
  BY Coverage DEF CoversNow, CoversBefore

\* The same after a step.
LEMMA OwnCoversNext ==
  ASSUME NEW s \in Session, NEW h, holder'[h] = s, NEW x
  PROVE  /\ Pending(s, h, x)' => /\ CoversNow(h, x)' <=> savedStatus'[h] = "active"
                                 /\ CoversBefore(h, x)' <=> savedStatus'[h] = "active"
         /\ ~Pending(s, h, x)' /\ holder'[x] = s =>
              /\ CoversNow(h, x)' <=> status'[h] = "active"
              /\ CoversBefore(h, x)' <=> savedStatus'[h] = "active"
         /\ ~Pending(s, h, x)' /\ holder'[x] # s =>
              ~CoversNow(h, x)' /\ ~CoversBefore(h, x)'
  BY CoverageNext DEF CoversNow, CoversBefore

\* A hold nobody has written is covered if it is active.
LEMMA FreeCovers ==
  ASSUME NEW h, NEW x
  PROVE  /\ holder[h] \notin Session =>
              /\ CoversNow(h, x) <=> savedStatus[h] = "active"
              /\ CoversBefore(h, x) <=> savedStatus[h] = "active"
         /\ holder'[h] \notin Session =>
              /\ CoversNow(h, x)' <=> savedStatus'[h] = "active"
              /\ CoversBefore(h, x)' <=> savedStatus'[h] = "active"
  BY Coverage, CoverageNext DEF CoversNow, CoversBefore

\* A rollback takes back what its transaction did to a row, for every hold.
LEMMA RollbackCover ==
  ASSUME TypeOK, RowsInv, \A t \in Session : SessionInv(t),
         NEW s \in Session, Rollback(s), NEW x \in Dim, Cover(x)
  PROVE  Cover(x)'
  <1>1. Does(s) /\ Idle(s)
    BY DEF Does, Rollback
  <1>2. \A r \in Hold \union Dim : holder'[r] # s /\ (holder[r] = s => holder'[r] = NoSession)
    BY <1>1, Constants DEF Idle, TypeOK
  <1>3. \A h \in Hold : holder[h] # s =>
          /\ CoversNow(h, x)' = CoversNow(h, x)
          /\ CoversBefore(h, x)' = CoversBefore(h, x)
    BY <1>1, <1>2, Elsewhere
  <1>4. \A h \in Hold : holder[h] = s =>
          /\ CoversNow(h, x)' <=> savedStatus[h] = "active"
          /\ CoversBefore(h, x)' <=> savedStatus[h] = "active"
    BY <1>2, Constants, FreeCovers DEF Rollback
  <1>5. \A h \in Hold : holder[h] = s /\ x \in HeldIn[h] /\ InitialStock[x] > 0 =>
          ~Skipped(h, x)
    BY DEF SessionInv, Holds
  <1>6. \A h \in Hold : x \in HeldIn[h] =>
          /\ CoversBefore(h, x) => CoversBefore(h, x)'
          /\ InitialStock[x] > 0 /\ CoversBefore(h, x)' => CoversBefore(h, x)
    BY <1>3, <1>4, <1>5 DEF CoversBefore
  <1>7. savedBalance' = savedBalance
    BY DEF Rollback
  <1>8. CASE holder[x] = s
    <2>1. balance'[x] = savedBalance[x]
      BY <1>8 DEF Rollback
    <2>2. ASSUME NEW h \in Hold, x \in HeldIn[h]
          PROVE  /\ CoversBefore(h, x) => CoversNow(h, x)'
                 /\ InitialStock[x] > 0 /\ CoversNow(h, x)' => CoversBefore(h, x)
      <3>1. CASE holder[h] = s
        BY <1>4, <1>5, <2>2, <3>1 DEF CoversBefore
      <3>2. CASE holder[h] # s
        <4>1. ~Written(h, x)
          BY <1>8, <3>2 DEF Written
        <4>2. CoversNow(h, x) = CoversBefore(h, x)
          BY <4>1 DEF CoversNow, CoversBefore
        <4> QED  BY <1>3, <3>2, <4>2
      <3> QED  BY <3>1, <3>2
    <2>3. /\ Covered(x, balance'[x].reserved, Now(x, Reservation)')
          /\ Covered(x, balance'[x].blocked, Now(x, Block)')
      BY <2>1, <2>2, UndoFrame
    <2>4. /\ Covered(x, savedBalance'[x].reserved, Before(x, Reservation)')
          /\ Covered(x, savedBalance'[x].blocked, Before(x, Block)')
      BY <1>6, <1>7, BeforeFrame
    <2> QED  BY <2>3, <2>4 DEF Cover
  <1>9. CASE holder[x] # s
    <2>1. balance'[x] = balance[x]
      BY <1>9 DEF Rollback
    <2>2. ASSUME NEW h \in Hold, x \in HeldIn[h]
          PROVE  /\ CoversNow(h, x) => CoversNow(h, x)'
                 /\ InitialStock[x] > 0 /\ CoversNow(h, x)' => CoversNow(h, x)
      <3>1. CASE holder[h] = s
        <4>1. CoversNow(h, x) <=> ~Skipped(h, x) /\ savedStatus[h] = "active"
          BY <1>9, <3>1, Coverage DEF CoversNow
        <4> QED  BY <1>4, <1>5, <2>2, <3>1, <4>1
      <3>2. CASE holder[h] # s
        BY <1>3, <3>2
      <3> QED  BY <3>1, <3>2
    <2>3. /\ Covered(x, balance'[x].reserved, Now(x, Reservation)')
          /\ Covered(x, balance'[x].blocked, Now(x, Block)')
      BY <2>1, <2>2, NowFrame
    <2>4. /\ Covered(x, savedBalance'[x].reserved, Before(x, Reservation)')
          /\ Covered(x, savedBalance'[x].blocked, Before(x, Block)')
      BY <1>6, <1>7, BeforeFrame
    <2> QED  BY <2>3, <2>4 DEF Cover
  <1> QED  BY <1>8, <1>9

\* A commit shows it.
LEMMA CommitCover ==
  ASSUME TypeOK, RowsInv, \A t \in Session : SessionInv(t),
         NEW s \in Session, Commit(s), NEW x \in Dim, Cover(x)
  PROVE  Cover(x)'
  <1>1. Does(s) /\ Idle(s)
    BY DEF Does, Commit
  <1>2. \A r \in Hold \union Dim : holder'[r] # s /\ (holder[r] = s => holder'[r] = NoSession)
    BY <1>1, Constants DEF Idle, TypeOK
  <1>3. \A h \in Hold : holder[h] # s =>
          /\ CoversNow(h, x)' = CoversNow(h, x)
          /\ CoversBefore(h, x)' = CoversBefore(h, x)
    BY <1>1, <1>2, Elsewhere
  <1>4. \A h \in Hold : holder[h] = s =>
          /\ CoversNow(h, x)' <=> status[h] = "active"
          /\ CoversBefore(h, x)' <=> status[h] = "active"
    BY <1>2, Constants, FreeCovers DEF Commit
  <1>5. \A h : ~Pending(s, h, x)
    BY DEF Commit, Pending
  <1>6. \A h \in Hold : holder[h] = s =>
          /\ holder[x] = s => (CoversNow(h, x) <=> status[h] = "active")
          /\ holder[x] # s => ~CoversNow(h, x) /\ ~CoversBefore(h, x) /\ Skipped(h, x)
    BY <1>5, OwnCovers, Coverage
  <1>7. \A h \in Hold : holder[h] = s /\ x \in HeldIn[h] /\ InitialStock[x] > 0 =>
          ~Skipped(h, x)
    BY DEF SessionInv, Holds
  <1>8. ASSUME NEW h \in Hold, x \in HeldIn[h]
        PROVE  /\ CoversNow(h, x) => CoversNow(h, x)'
               /\ InitialStock[x] > 0 /\ CoversNow(h, x)' => CoversNow(h, x)
    BY <1>3, <1>4, <1>6, <1>7, <1>8
  <1>9. balance' = balance
    BY DEF Commit
  <1>10. /\ Covered(x, balance'[x].reserved, Now(x, Reservation)')
         /\ Covered(x, balance'[x].blocked, Now(x, Block)')
    BY <1>8, <1>9, NowFrame
  <1>11. /\ Covered(x, savedBalance'[x].reserved, Before(x, Reservation)')
         /\ Covered(x, savedBalance'[x].blocked, Before(x, Block)')
    <2>1. CASE holder[x] = s
      <3>1. savedBalance'[x] = balance[x]
        BY <2>1 DEF Commit, Seen
      <3>2. ASSUME NEW h \in Hold, x \in HeldIn[h]
            PROVE  /\ CoversNow(h, x) => CoversBefore(h, x)'
                   /\ InitialStock[x] > 0 /\ CoversBefore(h, x)' => CoversNow(h, x)
        <4>1. CASE holder[h] = s
          BY <1>4, <1>6, <2>1, <4>1
        <4>2. CASE holder[h] # s
          <5>1. ~Written(h, x)
            BY <2>1, <4>2 DEF Written
          <5>2. CoversNow(h, x) = CoversBefore(h, x)
            BY <5>1 DEF CoversNow, CoversBefore
          <5> QED  BY <1>3, <4>2, <5>2
        <4> QED  BY <4>1, <4>2
      <3> QED  BY <3>1, <3>2, ShowFrame
    <2>2. CASE holder[x] # s
      <3>1. savedBalance'[x] = savedBalance[x]
        BY <2>2 DEF Commit, Seen
      <3>2. ASSUME NEW h \in Hold, x \in HeldIn[h]
            PROVE  /\ CoversBefore(h, x) => CoversBefore(h, x)'
                   /\ InitialStock[x] > 0 /\ CoversBefore(h, x)' => CoversBefore(h, x)
        BY <1>3, <1>6, <1>7, <2>2, <3>2
      <3> QED  BY <3>1, <3>2, BeforeFrame
    <2> QED  BY <2>1, <2>2
  <1> QED  BY <1>10, <1>11 DEF Cover

\* If a step changes no column of a row, and no hold is less covered.
LEMMA SameCover ==
  ASSUME TypeOK, NEW x \in Dim, Cover(x),
         balance'[x].reserved = balance[x].reserved,
         balance'[x].blocked = balance[x].blocked, savedBalance' = savedBalance,
         \A h \in Hold : x \in HeldIn[h] =>
           (CoversNow(h, x)' <=> CoversNow(h, x)) /\ (CoversBefore(h, x)' <=> CoversBefore(h, x))
  PROVE  Cover(x)'
  BY NowFrame, BeforeFrame DEF Cover

\* A statement that begins covers nothing else.
LEMMA BeginCover ==
  ASSUME TypeOK, RowsInv, \A t \in Session : SessionInv(t), NEW s \in Session,
         Ends(s) \/ \E m \in Movements : BeginMovements(s, m), NEW x \in Dim, Cover(x)
  PROVE  Cover(x)'
  <1>1. /\ holder' = holder /\ balance' = balance /\ savedBalance' = savedBalance
        /\ pc[s] = "idle" /\ Does(s)
    BY DEF Ends, BeginMovements, rowVars, Does
  <1>2. \A h \in Hold : holder[h] # s
    BY <1>1, AtBegin
  <1>3. \A h \in Hold : CoversNow(h, x)' = CoversNow(h, x)
                        /\ CoversBefore(h, x)' = CoversBefore(h, x)
    BY <1>1, <1>2, Elsewhere
  <1> QED  BY <1>1, <1>3, SameCover

\* Nor does a movement.
LEMMA MoveCover ==
  ASSUME TypeOK, RowsInv, \A t \in Session : SessionInv(t), NEW s \in Session,
         PostMovement(s), NEW x \in Dim, Cover(x)
  PROVE  Cover(x)'
  <1> DEFINE y == Head(moves[s]).dim
             d == Head(moves[s]).delta
  <1>1. /\ balance' = [balance EXCEPT ![y] = Moved(balance[y], d)]
        /\ holder' = [holder EXCEPT ![y] = s] /\ BalanceCheck(Moved(balance[y], d))
        /\ savedBalance' = savedBalance
    BY DEF PostMovement, WriteBalance
  <1>2. y \in Dim /\ d \in Int /\ balance[y] \in BalanceRow
    BY MovementTypes DEF PostMovement, TypeOK
  <1> HIDE DEF y, d
  <1>3. balance'[x].reserved = balance[x].reserved /\ balance'[x].blocked = balance[x].blocked
    BY <1>1, <1>2, MovedTypes DEF TypeOK
  <1>4. \A h \in Hold : holder'[h] = holder[h] /\ holder[h] # s
    <2>1. pc[s] = "move"
      BY DEF PostMovement, SessionInv, Work
    <2>2. \A h \in Hold : holder[h] # s
      BY <2>1 DEF SessionInv, Holds, Ending
    <2> QED  BY <1>1, <1>2, <2>2, Constants DEF TypeOK
  <1>5. \A h \in Hold : CoversNow(h, x)' = CoversNow(h, x)
                        /\ CoversBefore(h, x)' = CoversBefore(h, x)
    <2>1. Does(s)
      BY DEF Does
    <2> QED  BY <1>4, <2>1, Elsewhere
  <1> QED  BY <1>1, <1>3, <1>5, SameCover

\* A hold that has been written is covered as before until its trigger runs.
LEMMA HoldCover ==
  ASSUME TypeOK, RowsInv, \A t \in Session : SessionInv(t), NEW s \in Session,
         NEW h \in Hold, CreateHold(s, h) \/ EndHold(s, h), NEW x \in Dim, Cover(x)
  PROVE  Cover(x)'
  <1>1. /\ balance' = balance /\ savedBalance' = savedBalance /\ savedStatus' = savedStatus
        /\ Does(s)
    BY DEF CreateHold, EndHold, Does
  <1>2. CASE status' = status /\ holder' = holder /\ fired' = fired
    <2>1. dims' = dims /\ counting' = counting
      BY DEF CreateHold, EndHold
    <2>2. \A g : CoversNow(g, x)' = CoversNow(g, x) /\ CoversBefore(g, x)' = CoversBefore(g, x)
      BY <1>1, <1>2, <2>1 DEF CoversNow, CoversBefore, Skipped, Written, Pending
    <2> QED  BY <1>1, <2>2, SameCover
  <1>3. CASE /\ holder[h] = NoSession /\ holder'[h] = s /\ fired'[s] = fired[s] \union {h}
             /\ counting' = counting /\ dims' = dims
             /\ \A g \in Hold \ {h} : holder'[g] = holder[g] /\ status'[g] = status[g]
             /\ holder'[x] = holder[x]
    <2>1. /\ CoversNow(h, x)' <=> CoversNow(h, x)
          /\ CoversBefore(h, x)' <=> CoversBefore(h, x)
      <3>1. Pending(s, h, x)'
        BY <1>3 DEF Pending
      <3>2. /\ CoversNow(h, x)' <=> savedStatus[h] = "active"
            /\ CoversBefore(h, x)' <=> savedStatus[h] = "active"
        BY <1>1, <1>3, <3>1, OwnCoversNext
      <3>3. /\ CoversNow(h, x) <=> savedStatus[h] = "active"
            /\ CoversBefore(h, x) <=> savedStatus[h] = "active"
        BY <1>3, Constants, FreeCovers
      <3> QED  BY <3>2, <3>3
    <2>2. ASSUME NEW g \in Hold \ {h}
          PROVE  /\ CoversNow(g, x)' <=> CoversNow(g, x)
                 /\ CoversBefore(g, x)' <=> CoversBefore(g, x)
      <3>1. CASE holder[g] = s
        <4>1. Pending(s, g, x)' <=> Pending(s, g, x)
          BY <1>3 DEF Pending
        <4>2. holder'[g] = s /\ status'[g] = status[g]
          BY <1>3, <3>1
        <4> QED  BY <1>1, <1>3, <3>1, <4>1, <4>2, OwnCovers, OwnCoversNext
      <3>2. CASE holder[g] # s
        <4>1. holder'[g] # s
          BY <1>3, <3>2
        <4> QED  BY <1>1, <3>2, <4>1, Elsewhere
      <3> QED  BY <3>1, <3>2
    <2> QED  BY <1>1, <2>1, <2>2, SameCover
  <1>4. CASE CreateHold(s, h)
    <2>1. holder[h] = NoSession /\ fired[s] = {}
      BY <1>4, HolderAbsent, AtBegin DEF CreateHold
    <2>2. /\ holder'[h] = s /\ fired'[s] = {h} /\ counting' = counting /\ dims' = dims
          /\ \A g \in Hold \ {h} : holder'[g] = holder[g] /\ status'[g] = status[g]
          /\ holder'[x] = holder[x]
      BY <1>4, Constants DEF CreateHold, TypeOK
    <2> QED  BY <1>3, <2>1, <2>2
  <1>5. CASE EndHold(s, h) /\ status[h] = "active"
    <2>1. holder[h] = NoSession
      <3>1. pc[s] \in Ending
        BY <1>5 DEF EndHold, SessionInv, Work
      <3>2. holder[h] # s
        BY <1>5, <3>1 DEF SessionInv, Holds, Ending
      <3> QED  BY <1>5, <3>2 DEF EndHold, Free
    <2>2. /\ holder' = [holder EXCEPT ![h] = s] /\ fired' = [fired EXCEPT ![s] = @ \union {h}]
          /\ status' = [status EXCEPT ![h] = pc[s]] /\ counting' = counting /\ dims' = dims
      BY <1>5 DEF EndHold
    <2>3. /\ holder'[h] = s /\ fired'[s] = fired[s] \union {h}
          /\ \A g \in Hold \ {h} : holder'[g] = holder[g] /\ status'[g] = status[g]
          /\ holder'[x] = holder[x]
      BY <2>2, Constants DEF TypeOK
    <2> QED  BY <1>3, <2>1, <2>2, <2>3
  <1> QED  BY <1>2, <1>4, <1>5 DEF EndHold

\* The trigger finds its rows; a row it does not find withholds nothing.
LEMMA TriggerCover ==
  ASSUME TypeOK, RowsInv, \A t \in Session : SessionInv(t), NEW s \in Session,
         FireTrigger(s), NEW x \in Dim, Cover(x)
  PROVE  Cover(x)'
  <1>1. PICK h \in fired[s] :
          /\ fired' = [fired EXCEPT ![s] = @ \ {h}]
          /\ counting' = [counting EXCEPT ![s] = h]
          /\ dims' = [dims EXCEPT ![s] = {y \in HeldIn[h] : Seen(s, y).exists}]
    BY DEF FireTrigger
  <1>2. /\ status' = status /\ savedStatus' = savedStatus /\ balance' = balance
        /\ savedBalance' = savedBalance /\ holder' = holder /\ dims[s] = {} /\ Does(s)
    BY DEF FireTrigger, rowVars, Does
  <1>3. /\ fired'[s] = fired[s] \ {h} /\ counting'[s] = h
        /\ dims'[s] = {y \in HeldIn[h] : Seen(s, y).exists}
    BY <1>1 DEF TypeOK
  <1>4. pc[s] \notin {"idle", "move"}
    BY <1>1 DEF SessionInv, Work
  <1>5. Seen(s, x).exists <=> savedBalance[x].exists
    BY <1>4 DEF Seen, RowsInv, SessionInv, Holds
  <1>6. CASE savedBalance[x].exists
    <2>1. ASSUME NEW g \in Hold, x \in HeldIn[g]
          PROVE  /\ CoversNow(g, x)' <=> CoversNow(g, x)
                 /\ CoversBefore(g, x)' <=> CoversBefore(g, x)
      <3>1. CASE holder[g] = s
        <4>1. Pending(s, g, x)' <=> Pending(s, g, x)
          BY <1>1, <1>2, <1>3, <1>5, <1>6, <2>1 DEF Pending
        <4>2. holder'[g] = s
          BY <1>2, <3>1
        <4> QED  BY <1>2, <3>1, <4>1, <4>2, OwnCovers, OwnCoversNext
      <3>2. CASE holder[g] # s
        BY <1>2, <3>2, Elsewhere
      <3> QED  BY <3>1, <3>2
    <2> QED  BY <1>2, <2>1, SameCover
  <1>7. CASE ~savedBalance[x].exists
    BY <1>2, <1>7, CoverZero DEF RowsInv
  <1> QED  BY <1>6, <1>7

\* The trigger writes one row; the others are covered as they were.
LEMMA CountElsewhere ==
  ASSUME TypeOK, RowsInv, \A t \in Session : SessionInv(t), NEW s \in Session,
         NEW y \in Dim, CountRow(s, y), NEW x \in Dim, x # y, Cover(x)
  PROVE  Cover(x)'
  <1>1. /\ balance'[x] = balance[x] /\ holder'[x] = holder[x] /\ savedBalance' = savedBalance
        /\ \A h \in Hold : holder'[h] = holder[h]
        /\ status' = status /\ savedStatus' = savedStatus /\ fired' = fired
        /\ counting' = counting /\ dims'[s] = dims[s] \ {y} /\ Does(s)
    <2>1. \A h \in Hold : h # y
      BY Constants
    <2>2. /\ balance' = [balance EXCEPT ![y] = balance'[y]]
          /\ holder' = [holder EXCEPT ![y] = s] /\ dims' = [dims EXCEPT ![s] = @ \ {y}]
          /\ UNCHANGED <<savedBalance, status, savedStatus, fired, counting>>
      BY ZenonT(90) DEF CountRow, WriteBalance, TypeOK
    <2>3. Does(s)
      BY DEF CountRow, Does
    <2> QED
      BY <2>1, <2>2, <2>3 DEF TypeOK
  <1>2. ASSUME NEW g \in Hold
        PROVE  /\ CoversNow(g, x)' <=> CoversNow(g, x)
               /\ CoversBefore(g, x)' <=> CoversBefore(g, x)
    <2>1. CASE holder[g] = s
      <3>1. Pending(s, g, x)' <=> Pending(s, g, x)
        BY <1>1 DEF Pending
      <3>2. holder'[g] = s
        BY <1>1, <2>1
      <3> QED  BY <1>1, <2>1, <3>1, <3>2, OwnCovers, OwnCoversNext
    <2>2. CASE holder[g] # s
      BY <1>1, <2>2, Elsewhere
    <2> QED  BY <2>1, <2>2
  <1> QED  BY <1>1, <1>2, SameCover

\* The holds of a table that a row covers, when the trigger of h writes it.
LEMMA CountTable ==
  ASSUME NEW K \in SUBSET Hold, NEW x \in Dim, NEW h \in Hold, x \in HeldIn[h],
         \A g \in Hold \ {h} : CoversNow(g, x)' <=> CoversNow(g, x)
  PROVE  /\ h \notin K => Now(x, K)' = Now(x, K)
         /\ h \in K /\ ~CoversNow(h, x) /\ CoversNow(h, x)' =>
              h \in Hold \ Now(x, K) /\ Now(x, K)' = Now(x, K) \cup {h}
         /\ h \in K /\ CoversNow(h, x) /\ ~CoversNow(h, x)' =>
              h \in Now(x, K) /\ Now(x, K)' = Now(x, K) \ {h}
  BY DEF Now

\* On the row the trigger writes, its own hold is added, or taken back.
LEMMA CountHere ==
  ASSUME TypeOK, RowsInv, \A t \in Session : SessionInv(t), NEW s \in Session,
         NEW x \in Dim, CountRow(s, x), Cover(x)
  PROVE  Cover(x)'
  <1>0. PICK h \in Hold : h = counting[s]
    BY DEF CountRow, SessionInv, Work
  <1> DEFINE row == Counted(h, pc[s] = "create", balance[x])
  <1>1. /\ balance' = [balance EXCEPT ![x] = row] /\ holder' = [holder EXCEPT ![x] = s]
        /\ dims' = [dims EXCEPT ![s] = @ \ {x}] /\ savedBalance' = savedBalance
        /\ status' = status /\ savedStatus' = savedStatus /\ fired' = fired
        /\ counting' = counting /\ x \in dims[s] /\ Does(s) /\ Free(s, x)
    BY <1>0 DEF CountRow, WriteBalance, Does
  <1>2. /\ h \notin fired[s] /\ holder[h] = s /\ x \in HeldIn[h]
        /\ pc[s] \notin {"idle", "move"}
    BY <1>0, <1>1 DEF SessionInv, Work
  <1>3. /\ balance'[x] = row /\ holder'[x] = s /\ dims'[s] = dims[s] \ {x}
        /\ \A g \in Hold : holder'[g] = holder[g]
    BY <1>1, Constants DEF TypeOK
  <1>4. balance[x] \in BalanceRow /\ (pc[s] = "create") \in BOOLEAN
    BY DEF TypeOK
  <1>5. /\ row.reserved = IF h \notin Reservation THEN balance[x].reserved
                          ELSE IF pc[s] = "create" THEN balance[x].reserved + Quantity[h]
                          ELSE Max({balance[x].reserved - Quantity[h], 0})
        /\ row.blocked = IF h \in Reservation THEN balance[x].blocked
                         ELSE IF pc[s] = "create" THEN balance[x].blocked + Quantity[h]
                         ELSE Max({balance[x].blocked - Quantity[h], 0})
    BY ZenonT(90), <1>2, <1>4, CountedTypes
  <1> HIDE DEF row
  <1>6. Pending(s, h, x) /\ ~Pending(s, h, x)'
    BY <1>0, <1>1, <1>2, <1>3 DEF Pending
  <1>7. /\ CoversNow(h, x) <=> savedStatus[h] = "active"
        /\ CoversBefore(h, x) <=> savedStatus[h] = "active"
        /\ CoversNow(h, x)' <=> status[h] = "active"
        /\ CoversBefore(h, x)' <=> savedStatus[h] = "active"
    <2>1. holder'[h] = s
      BY <1>2, <1>3
    <2> QED  BY <1>1, <1>2, <1>3, <1>6, <2>1, OwnCovers, OwnCoversNext
  <1>8. ASSUME NEW g \in Hold \ {h}
        PROVE  /\ CoversNow(g, x)' <=> CoversNow(g, x)
               /\ CoversBefore(g, x) => CoversBefore(g, x)'
               /\ x \in HeldIn[g] /\ InitialStock[x] > 0 /\ CoversBefore(g, x)'
                    => CoversBefore(g, x)
    <2>1. CASE holder[g] = s
      <3>1. holder'[g] = s
        BY <1>3, <2>1
      <3>2. Pending(s, g, x)' <=> Pending(s, g, x)
        BY <1>0, <1>1, <1>3, <1>8 DEF Pending
      <3>3. pc[s] \in Ending /\ status[g] # "active" /\ savedStatus[g] = "active"
        BY <1>2, <1>8, <2>1 DEF SessionInv, Holds, Ending
      <3>4. x \in HeldIn[g] /\ InitialStock[x] > 0 => ~Skipped(g, x)
        BY <2>1 DEF SessionInv, Holds
      <3>5. x \in HeldIn[g] /\ InitialStock[x] > 0 => CoversBefore(g, x)
        BY <3>3, <3>4 DEF CoversBefore
      <3> QED  BY <1>1, <1>3, <2>1, <3>1, <3>2, <3>3, <3>5, OwnCovers, OwnCoversNext
    <2>2. CASE holder[g] # s
      BY <1>1, <1>3, <2>2, Elsewhere
    <2> QED  BY <2>1, <2>2
  <1>9. /\ Covered(x, savedBalance'[x].reserved, Before(x, Reservation)')
        /\ Covered(x, savedBalance'[x].blocked, Before(x, Block)')
    <2>1. \A g \in Hold : x \in HeldIn[g] =>
            /\ CoversBefore(g, x) => CoversBefore(g, x)'
            /\ InitialStock[x] > 0 /\ CoversBefore(g, x)' => CoversBefore(g, x)
      BY <1>7, <1>8
    <2> QED  BY <1>1, <2>1, BeforeFrame
  <1> DEFINE r == balance[x].reserved
             b == balance[x].blocked
             R == Now(x, Reservation)
             B == Now(x, Block)
  <1>10. /\ r \in Nat /\ b \in Nat /\ R \in SUBSET Hold /\ B \in SUBSET Hold
         /\ Covered(x, r, R) /\ Covered(x, b, B)
    BY CoverTypes DEF Cover
  <1>11. /\ h \notin Reservation => Now(x, Reservation)' = R
         /\ h \notin Block => Now(x, Block)' = B
    BY <1>2, <1>8, Constants, CountTable
  <1>12. \/ h \in Reservation /\ h \notin Block
         \/ h \in Block /\ h \notin Reservation
    BY <1>2, Constants DEF Hold
  <1>13. CASE pc[s] = "create"
    <2>1. ~CoversNow(h, x) /\ CoversNow(h, x)'
      BY <1>2, <1>7, <1>13 DEF SessionInv, Holds, Ending
    <2>2. /\ h \in Reservation => h \in Hold \ R /\ Now(x, Reservation)' = R \cup {h}
          /\ h \in Block => h \in Hold \ B /\ Now(x, Block)' = B \cup {h}
      BY <1>2, <1>8, <2>1, Constants, CountTable
    <2> HIDE DEF r, b, R, B
    <2>3. CASE h \in Reservation
      <3>1. Covered(x, r + Quantity[h], R \cup {h})
        BY <1>10, <2>2, <2>3, CoveredAdd
      <3> QED  BY <1>3, <1>5, <1>9, <1>10, <1>11, <1>12, <1>13, <2>2, <2>3, <3>1 DEF Cover, r, b
    <2>4. CASE h \in Block
      <3>1. Covered(x, b + Quantity[h], B \cup {h})
        BY <1>10, <2>2, <2>4, CoveredAdd
      <3> QED  BY <1>3, <1>5, <1>9, <1>10, <1>11, <1>12, <1>13, <2>2, <2>4, <3>1 DEF Cover, r, b
    <2> QED  BY <1>12, <2>3, <2>4
  <1>14. CASE pc[s] # "create"
    <2>1. CoversNow(h, x) /\ ~CoversNow(h, x)'
      BY <1>2, <1>7, <1>14 DEF SessionInv, Holds, Ending
    <2>2. /\ h \in Reservation => h \in R /\ Now(x, Reservation)' = R \ {h}
          /\ h \in Block => h \in B /\ Now(x, Block)' = B \ {h}
      BY <1>2, <1>8, <2>1, Constants, CountTable
    <2> HIDE DEF r, b, R, B
    <2>3. CASE h \in Reservation
      <3>1. Covered(x, Max({r - Quantity[h], 0}), R \ {h})
        BY <1>10, <2>2, <2>3, CoveredRemove
      <3> QED  BY <1>3, <1>5, <1>9, <1>10, <1>11, <1>12, <1>14, <2>2, <2>3, <3>1 DEF Cover, r, b
    <2>4. CASE h \in Block
      <3>1. Covered(x, Max({b - Quantity[h], 0}), B \ {h})
        BY <1>10, <2>2, <2>4, CoveredRemove
      <3> QED  BY <1>3, <1>5, <1>9, <1>10, <1>11, <1>12, <1>14, <2>2, <2>4, <3>1 DEF Cover, r, b
    <2> QED  BY <1>12, <2>3, <2>4
  <1> QED  BY <1>13, <1>14

-----------------------------------------------------------------------------
(* The theorems.                                                           *)

\* At first nothing is held.
LEMMA Initially ==
  ASSUME Init
  PROVE  IInv
  <1>1. /\ TypeOK /\ RowsInv
        /\ \A r \in Hold \union Dim : holder[r] \notin Session
        /\ \A h \in Hold : status[h] = "absent" /\ savedStatus[h] = "absent"
    <2>1. <<>> \in Seq([dim : Dim, delta : Int])
      OBVIOUS
    <2>2. balance \in [Dim -> BalanceRow]
      BY Constants DEF Init, BalanceRow
    <2> QED  BY <2>1, <2>2, Constants DEF Init, TypeOK, HoldStatus, RowsInv
  <1>2. ASSUME NEW s \in Session  PROVE SessionInv(s)
    BY <1>1 DEF Init, SessionInv, Work, Holds, Ending
  <1>3. ASSUME NEW x \in Dim  PROVE Cover(x)
    <2>1. \A h \in Hold : ~CoversNow(h, x) /\ ~CoversBefore(h, x)
      BY <1>1, FreeCovers
    <2>2. /\ Now(x, Reservation) = {} /\ Now(x, Block) = {}
          /\ Before(x, Reservation) = {} /\ Before(x, Block) = {}
      BY <2>1, Constants DEF Now, Before
    <2>3. SumFunctionOnSet(Quantity, {}) = 0
      BY FS_EmptySet, SumZero
    <2>4. /\ balance[x].reserved = 0 /\ balance[x].blocked = 0
          /\ savedBalance[x].reserved = 0 /\ savedBalance[x].blocked = 0
      BY DEF Init
    <2> QED  BY <2>2, <2>3, <2>4 DEF Cover, Covered
  <1> QED  BY <1>1, <1>2, <1>3 DEF IInv

\* Every step keeps it.
LEMMA Inductive ==
  ASSUME IInv, [Next]_vars
  PROVE  IInv'
  <1>1. /\ TypeOK /\ RowsInv /\ (\A t \in Session : SessionInv(t))
        /\ \A x \in Dim : Cover(x)
    BY DEF IInv
  <1>2. CASE UNCHANGED vars
    <2>1. TypeOK' /\ RowsInv'
      BY <1>1, <1>2 DEF vars, rowVars, TypeOK, RowsInv
    <2>2. \A h, x : Skipped(h, x)' = Skipped(h, x)
      BY <1>2 DEF vars, rowVars, Skipped, Pending
    <2>3. \A h, x : Written(h, x)' = Written(h, x)
      BY <1>2 DEF vars, rowVars, Written, Pending
    <2>4. ASSUME NEW s \in Session  PROVE SessionInv(s)'
      <3>1. Work(s)'
        BY <1>1, <1>2 DEF vars, rowVars, SessionInv, Work
      <3>2. Holds(s)'
        BY <1>1, <1>2, <2>2 DEF vars, rowVars, SessionInv, Holds
      <3> QED  BY <3>1, <3>2 DEF SessionInv
    <2>5. ASSUME NEW x \in Dim  PROVE Cover(x)'
      <3>1. /\ Now(x, Reservation)' = Now(x, Reservation) /\ Now(x, Block)' = Now(x, Block)
            /\ Before(x, Reservation)' = Before(x, Reservation)
            /\ Before(x, Block)' = Before(x, Block)
        BY <1>2, <2>2, <2>3 DEF vars, rowVars, Now, Before, CoversNow, CoversBefore
      <3> QED  BY <1>1, <1>2, <3>1 DEF vars, rowVars, Cover
    <2> QED  BY <2>1, <2>4, <2>5 DEF IInv
  <1>3. CASE Next
    <2>1. PICK s \in Session : Does(s)
      BY <1>3, Kinds
    <2>2. TypeOK'
      BY <1>1, <2>1, TypesStep
    <2>3. RowsInv'
      BY <1>1, <2>1, RowsStep
    <2>4. ASSUME NEW t \in Session  PROVE SessionInv(t)'
      <3>1. CASE t = s
        BY <1>1, <2>1, <3>1, OwnSession
      <3>2. CASE t # s
        <4>1. Untouched(t)
          BY <1>1, <2>1, <3>2, OthersUntouched
        <4>2. \A x \in Dim : savedBalance[x].exists => savedBalance'[x].exists
          BY <1>1, <2>1, RowsRemain
        <4>3. HeldIn \in [Hold -> SUBSET Dim]
          BY HoldAssumption DEF HoldAssumption
        <4>4. dims[t] \subseteq Dim /\ fired[t] \subseteq Hold
          BY <1>1 DEF TypeOK
        <4> QED  BY <1>1, <4>1, <4>2, <4>3, <4>4, OtherSession
      <3> QED  BY <3>1, <3>2
    <2>5. ASSUME NEW x \in Dim  PROVE Cover(x)'
      <3>1. CASE Rollback(s) \/ Commit(s)
        BY <1>1, <3>1, RollbackCover, CommitCover
      <3>2. CASE Ends(s) \/ \E m \in Movements : BeginMovements(s, m)
        BY <1>1, <3>2, BeginCover
      <3>3. CASE PostMovement(s)
        BY <1>1, <3>3, MoveCover
      <3>4. CASE FireTrigger(s)
        BY <1>1, <3>4, TriggerCover
      <3>5. CASE \E h \in Hold : CreateHold(s, h) \/ EndHold(s, h)
        BY <1>1, <3>5, HoldCover
      <3>6. CASE \E y \in Dim : CountRow(s, y)
        BY <1>1, <3>6, CountHere, CountElsewhere
      <3> QED  BY <2>1, <3>1, <3>2, <3>3, <3>4, <3>5, <3>6 DEF Does
    <2> QED  BY <2>2, <2>3, <2>4, <2>5 DEF IInv
  <1> QED  BY <1>2, <1>3

\* What a row shows others is covered by holds they see as active.
LEMMA BeforeIsActive ==
  ASSUME IInv, NEW x \in Dim
  PROVE  /\ Covered(x, savedBalance[x].reserved,
                    {h \in Reservation : savedStatus[h] = "active" /\ x \in HeldIn[h]})
         /\ Covered(x, savedBalance[x].blocked,
                    {h \in Block : savedStatus[h] = "active" /\ x \in HeldIn[h]})
  <1> DEFINE Active(H) == {h \in H : savedStatus[h] = "active" /\ x \in HeldIn[h]}
  <1>1. \A h \in Hold : x \in HeldIn[h] /\ InitialStock[x] > 0 => ~Skipped(h, x)
    <2> TAKE h \in Hold
    <2>1. CASE holder[h] \in Session
      BY <2>1 DEF IInv, SessionInv, Holds
    <2>2. CASE holder[h] \notin Session
      BY <2>2, Coverage
    <2> QED  BY <2>1, <2>2
  <1>2. /\ Active(Reservation) \in SUBSET Hold /\ Active(Block) \in SUBSET Hold
        /\ Before(x, Reservation) \subseteq Active(Reservation)
        /\ Before(x, Block) \subseteq Active(Block)
        /\ InitialStock[x] > 0 => /\ Active(Reservation) \subseteq Before(x, Reservation)
                                  /\ Active(Block) \subseteq Before(x, Block)
    BY <1>1, Constants DEF Before, CoversBefore
  <1>3. TypeOK /\ Cover(x)
    BY DEF IInv
  <1> HIDE DEF Active
  <1>4. /\ Covered(x, savedBalance[x].reserved, Active(Reservation))
        /\ Covered(x, savedBalance[x].blocked, Active(Block))
    BY <1>2, <1>3, CoverTypes, CoveredGrows DEF Cover
  <1> QED  BY <1>4 DEF Active

\* The inductive invariant: which holds each version of a row covers.
THEOREM HoldInvariant == Spec => []IInv
  <1>1. Init => IInv
    BY Initially
  <1>2. IInv /\ [Next]_vars => IInv'
    BY Inductive
  <1> QED  BY <1>1, <1>2, PTL DEF Spec

\* Types: among others, no column of a balance row is ever negative.
THEOREM HoldTypes == Spec => []TypeOK
  <1>1. IInv => TypeOK
    BY DEF IInv
  <1> QED  BY <1>1, HoldInvariant, PTL

\* No stock is withheld without an active hold, although releases and
\* expiries take from rows that came after the hold.
THEOREM NothingIsHeldInVain == Spec => []NoPhantomHold
  <1>1. IInv => NoPhantomHold
    BY BeforeIsActive DEF Covered, NoPhantomHold, ActiveIn
  <1> QED  BY <1>1, HoldInvariant, PTL

\* A row older than the holds shows exactly what they hold.
THEOREM ColumnsAreSums == Spec => []HoldsAreCounted
  <1>1. IInv => HoldsAreCounted
    BY BeforeIsActive DEF Covered, HoldsAreCounted, ActiveIn
  <1> QED  BY <1>1, HoldInvariant, PTL
=============================================================================

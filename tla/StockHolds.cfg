SPECIFICATION FairSpec
CONSTANTS
  a = a  b = b  r1 = r1  r2 = r2  block = block
  Session = {s1, s2}
  Dim = {a, b}  Reservation = {r1, r2}  Block = {block}
  HeldIn <- MCHeldIn  Quantity <- MCQuantity
  Movements <- MCMovements  InitialStock <- MCInitialStock
  MaxQuantity = 2
  NoSession = NoSession  NoHold = NoHold
INVARIANTS TypeOK NoPhantomHold HoldsAreCounted
PROPERTIES RequestsFinish
CHECK_DEADLOCK FALSE

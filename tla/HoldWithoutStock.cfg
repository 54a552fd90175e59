SPECIFICATION Spec
CONSTANTS
  a = a  b = b  r1 = r1  r2 = r2  block = block
  Session = {s1, s2}
  Dim = {a, b}  Reservation = {r1, r2}  Block = {block}
  HeldIn <- MCHeldIn  Quantity <- MCQuantity
  Movements <- MCMovements  InitialStock <- MCNoStock
  MaxQuantity = 2
  NoSession = NoSession  NoHold = NoHold
INVARIANTS InsertAloneIsEnough
CHECK_DEADLOCK FALSE

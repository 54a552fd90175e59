SPECIFICATION Spec
CONSTANTS
  a = a  b = b
  transfer = transfer
  verification = verification  opening = opening  return = return
  Session = {s1, s2}
  Doc = {transfer, verification, opening, return}
  Dim = {a, b}
  Opening = {opening}
  Moves <- MCMoves
  InitialStock <- MCInitialStock
  Prior = Prior  NoDoc = NoDoc  NoSession = NoSession
INVARIANTS CountNeverInsufficient
CHECK_DEADLOCK FALSE

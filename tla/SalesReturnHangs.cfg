SPECIFICATION FairSpec
CONSTANTS
  a = a  b = b
  transfer = transfer
  verification = verification  opening = opening  return = return
  Session = {s1, s2}
  Doc = {transfer, return}
  Dim = {a, b}
  Opening = {}
  Moves <- MCReturnMoves
  InitialStock <- MCInitialStock
  Prior = Prior  NoDoc = NoDoc  NoSession = NoSession
PROPERTIES ReturnFallsBack
CHECK_DEADLOCK FALSE

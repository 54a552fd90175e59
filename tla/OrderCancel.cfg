SPECIFICATION Spec
CONSTANTS
  po = po  so = so  grn1 = grn1  grn2 = grn2  grn3 = grn3  grn4 = grn4  challan = challan
  p1 = p1  p2 = p2  o1 = o1  a = a  b = b  c = c
  Session = {s1, s2}
  PurchaseOrder = {po}  SalesOrder = {so}
  Grn = {grn1, grn2, grn3, grn4}  Challan = {challan}
  Line = {p1, p2, o1}  Dim = {a, b, c}
  LineOrder <- MCLineOrder  Ordered <- MCOrdered  Unit <- MCUnit
  NoteOrder <- MCNoteOrder  NoteLines <- MCNoteLines  Workloads <- MCWorkloads
  NoLine = NoLine  NoSession = NoSession  NoTarget = NoTarget
PROPERTIES CancelsOnlyBeforeReceiving
CHECK_DEADLOCK FALSE

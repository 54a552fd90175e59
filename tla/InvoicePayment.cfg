SPECIFICATION FairSpec
CONSTANTS
  i1 = i1  i2 = i2  i3 = i3  p1 = p1  p2 = p2  p3 = p3  p4 = p4
  Session = {s1, s2}
  Invoice = {i1, i2, i3}  Payment = {p1, p2, p3, p4}
  Total <- MCTotal  Party <- MCParty  Amount <- MCAmount  Allocs <- MCAllocs
  Lines <- MCLines  Discount <- MCDiscount  Day <- MCDay  Date = {1, 2, 4}  MonthLength = 2
  Counter = Counter  NoSession = NoSession  NoTarget = NoTarget
INVARIANTS
  TypeOK PaidIsSumOfAllocations NeverOverpaid StatusAgreesWithPayments
  NumbersHaveNoGaps ReportsAgree
PROPERTIES RequestsFinish
CHECK_DEADLOCK FALSE

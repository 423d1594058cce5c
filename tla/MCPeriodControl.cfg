SPECIFICATION Spec
CONSTANTS
  Absent = Absent
  Txn = {t1, t2}
  Move = {m1}
  Period = {p1}
  Company = company
  Row = {m1, p1, company}
  Date = {1, 2}
INVARIANTS
  NoDraftInClosedPeriod
PROPERTIES
  ClosedPeriodFrozen
  ImplementsLedger

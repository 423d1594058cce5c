SPECIFICATION Spec
CONSTANTS
  Absent = Absent
  Txn = {t1, t2}
  Move = {m1}
  Period = {p1, p2}
  Company = company
  Row = {m1, p1, p2, company}
  Date = {1}
INVARIANTS
  PeriodsDisjoint

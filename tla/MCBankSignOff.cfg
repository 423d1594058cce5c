SPECIFICATION Spec
CONSTANTS
  Absent = Absent
  None = None
  Reversal = Reversal
  Other = Other
  OneCommit = TRUE
  Txn = {t1, t2}
  Rec = {r1}
  Line = {l1, l2}
  Item = {i1}
  Adjustment = {e1, e2}
  Row = {r1, l1, l2, i1, e1, e2}
  Capacity = 1
  Figure = {1, 2}
SYMMETRY Symmetry
INVARIANTS
  OneLiveMatch
PROPERTIES
  SignedOffOnCurrentLedger
  OnlyOverlappingLinesLate

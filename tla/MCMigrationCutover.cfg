SPECIFICATION Spec
CONSTANTS
  Absent = Absent
  Nobody = Nobody
  Txn = {t1, t2}
  Company = company
  Batch = batch
  RecRow = {r1, r2}
  Account = {r1}
  Opening = {k1}
  s1 = s1
  s2 = s2
  l1 = l1
  l2 = l2
  Source = {s1, s2}
  Other = {o1}
  Loader = {l1, l2}
  Order <- MCOrder
  Says <- MCSays
  Row <- MCRow
  Id = {}
  Date = {}
  Blank = Blank
  Bad = Bad
  OneOverlap = TRUE
SYMMETRY Symmetry
INVARIANTS
  AppliedLoadIsComplete
PROPERTIES
  SignedOffMatches
  CutoverOnEmptyLedger

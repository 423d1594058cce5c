SPECIFICATION Spec
CONSTANTS
  Absent = Absent
  None = None
  OneCommit = TRUE
  a = a
  b = b
  ben = ben
  cai = cai
  Txn = {t1, t2}
  Company = {a, b}
  User = {ben, cai}
  Row = {a, b, ben, cai}
  Member <- MCMember
  Home <- MCHome
  Admin = {ben}
  Hired = {ben}
SYMMETRY Symmetry
INVARIANTS
  NobodyStranded
PROPERTIES
  RecoveryKept
  EnabledAfterResume
  OnlyNewcomersEscape

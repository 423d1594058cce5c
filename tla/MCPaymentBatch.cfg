SPECIFICATION Spec
CONSTANTS
  Absent = Absent
  Txn = {t1, t2}
  Batch = {b1}
  Line = {l1, l2}
  Document = {d1}
  Company = company
  Row = {b1, l1, l2, d1, company}
  Advance = Advance
  User = {alice, bob}
  Admin = {bob}
  Nobody = Nobody
  Amount = {2}
  Total = 3
  Threshold = {2, 4}
INVARIANTS
  PostedInFull
PROPERTIES
  ImplementsBatchLifecycle
  ApprovalCoversTotal
  OverpaidKnowingly

SPECIFICATION CloseSpec
CONSTANTS
  Absent = Absent
  NoMove = NoMove
  Txn = {t1, t2}
  Document = {m1, m2, m3, m4}
  Close = {c1, c2}
  Journal = journal
  Counter = counter
  Date = {1, 2}
  EntryDate = {1}
  LastCode = 2
  OneOverlap = TRUE
  Row <- MCRow
SYMMETRY Symmetry
INVARIANTS
  SeriesUnbroken
  OneTransferPerDate
PROPERTIES
  CloseLeavesNothing
  ImplementsNumberSeries

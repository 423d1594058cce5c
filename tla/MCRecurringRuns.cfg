SPECIFICATION FairSpec
CONSTANTS
  Absent = Absent
  r1 = r1
  r2 = r2
  Txn = {cron, t1}
  Scheduler = cron
  Definition = {r1, r2}
  Company = company
  Row <- MCRow
  LastDay = 1
  Interval = 1
  MaxRuns = 2
  Closable = {0}
  Editable = {0}
  Legacy <- OneLegacy
PROPERTIES
  OverdueNeverSkipped
  ImplementsRunBook
  NoneIntoClosedPeriod
  RunOrReported
  MissedDatesRun

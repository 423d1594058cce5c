CONSTANTS
  Master = master
  Workers = {}
  Attachments = {}
  NoAttachment = none
  MaxCycleDay = 2
  MaxCaptures = 2
  MaxDeaths = 1
  Attempts = 2
  RetainDays = 1
SPECIFICATION CycleSpec
CHECK_DEADLOCK FALSE
INVARIANTS StatusNamesBackup
PROPERTIES DueDayEnds

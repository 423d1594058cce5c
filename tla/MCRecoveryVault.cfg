CONSTANTS
  Runs = {1, 2, 3}
  Deliverers = {d1, d2}
  Plans = {p1, p2}
  MaxDay = 5
  MaxVersion = 5
  Staged = 1
  Horizon = 1
  KeepMinimum = 2
  MaxAge = 2
SPECIFICATION VaultSpec
CHECK_DEADLOCK FALSE
INVARIANTS DurableKept LossJournaled

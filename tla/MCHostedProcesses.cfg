CONSTANTS
  Master = master
  Workers = {w1, w2}
  Attachments = {a1, a2}
  NoAttachment = none
  MaxKills = 2
SPECIFICATION HostedSpec
CHECK_DEADLOCK FALSE
INVARIANTS BundlePaired VerifiedIsCaptured
PROPERTIES WritersResume DrillEnds

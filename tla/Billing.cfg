SPECIFICATION FairSpec
CONSTANTS
  MaxSubs = 2
  Tiers = {"pro_80k"}
  Listed = {}
  Handlers = {h1}
  MaxMail = 1
  MaxFaults = 1
INVARIANTS TypeOK EndsForAReason BlockedForAReason
PROPERTIES RecordMirrorsPolar
CHECK_DEADLOCK FALSE

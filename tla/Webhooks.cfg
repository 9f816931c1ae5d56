SPECIFICATION FairSpec
CONSTANTS
  Endpoints = {e1}
  Events = {v1}
  Workers = {w1, w2}
  NoDelivery = NoDelivery
  MaxAttempts = 2
  Threshold = 2
  RescueTake = 1
  MaxWaiting = 1
  MaxRequests = 1
  MaxFaults = 1
INVARIANTS TypeOK NeverStranded GivesUpLate
PROPERTIES DisabledOnEvidence Settles
CHECK_DEADLOCK FALSE

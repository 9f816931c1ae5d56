SPECIFICATION FairSpec
CONSTANTS
  MaxSubs = 2
  Tiers = {"pro", "starter"}
  Listed = {"pro", "starter"}
  Handlers = {h1}
  MaxMail = 1
  MaxFaults = 0
PROPERTIES PayingIsActive
CHECK_DEADLOCK FALSE

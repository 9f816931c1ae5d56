SPECIFICATION FairSpec
CONSTANTS
  Users = {u1}
  Leads = {p1}
  InitialLeads = {}
  Ownership = {FALSE}
  Handlers = {h1}
  MaxRequests = 2
  MaxFaults = 1
INVARIANTS TypeOK CancelledInTimeIsSpared 
 
CHECK_DEADLOCK FALSE

SPECIFICATION FairSpec
CONSTANTS
  Leads = {l1, l2}
  InitialLeads = {l1, l2}
  Accounts = {a1}
  NoAcct = NoAcct
  NumSteps = 2
  Detours <- Drops
  Dispatchers = {d1, d2}
  Slots = {j1, j2}
  Concurrency = 2
  CampaignLimit = 4
  MailboxLimit = 4
  MaxRetries = 0
  MaxEdits = 0
  MaxFaults = 1
  RedisUp = TRUE
  Events = {"crash"}
PROPERTIES EverySettles
INVARIANTS DispatchMutex

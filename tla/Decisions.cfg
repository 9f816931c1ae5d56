SPECIFICATION Spec
CONSTANTS
  Leads = {l1, l2}
  InitialLeads = {l1, l2}
  Accounts = {a1, a2}
  NoAcct = NoAcct
  NumSteps = 2
  Detours <- Straight
  Dispatchers = {d1}
  Slots = {j1, j2}
  Concurrency = 2
  CampaignLimit = 2
  MailboxLimit = 2
  MaxRetries = 0
  MaxEdits = 0
  MaxFaults = 0
  RedisUp = TRUE
  Events = {"lost", "resolve", "restart"}
SYMMETRY Symmetry
INVARIANTS CapOvershootBounded

SPECIFICATION Spec
CONSTANTS
  Leads = {l1, l2}
  InitialLeads = {l1, l2}
  Accounts = {a1}
  NoAcct = NoAcct
  NumSteps = 2
  Detours <- Skips
  Dispatchers = {d1}
  Slots = {j1, j2}
  Concurrency = 2
  CampaignLimit = 2
  MailboxLimit = 4
  MaxRetries = 1
  MaxEdits = 0
  MaxFaults = 2
  RedisUp = TRUE
  Events = {"crash", "stall", "db_error", "campaign"}
SYMMETRY Symmetry
INVARIANTS NoStepSkipped CapOvershootBounded

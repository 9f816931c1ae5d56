SPECIFICATION Spec
CONSTANTS
  Leads = {l1}
  InitialLeads = {}
  Accounts = {a1}
  NoAcct = NoAcct
  NumSteps = 3
  Detours <- Winding
  Dispatchers = {d1}
  Slots = {j1, j2}
  Concurrency = 2
  CampaignLimit = 4
  MailboxLimit = 4
  MaxRetries = 0
  MaxEdits = 1
  MaxFaults = 0
  RedisUp = TRUE
  Events = {"reply", "dsn", "unsubscribe", "enroll", "smtp", "content", "edit"}
SYMMETRY Symmetry
INVARIANTS TypeOK CarriedOnce AtMostOnceDelivery ReplyEndsSequence AtMostOneLateSend
PROPERTIES KeepsPromise

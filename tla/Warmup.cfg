SPECIFICATION Spec
CONSTANTS
  Mailboxes = {m1, m2}
  Exchanges = {x1, x2, x3}
  Nobody = Nobody
  Dispatchers = {d1, d2}
  Engagers = {e1}
  Rampers = {}
  NoImap = {}
  Folders = {"spam"}
  StartDaily = 1
  TargetDaily = 1
  MaintenanceDaily = 1
  RampChoices = {1}
  MaxSteps = 1
  PauseAt = 30
  ErrorAt = 60
  BatchSize = 1
  MaxDepth = 1
  Kinds = {"failure", "restart"}
  MaxEvents = 1
INVARIANTS TypeOK SentOnce ThreadsAreChains
PROPERTY IsConversation
SYMMETRY Symmetry
VIEW View
CHECK_DEADLOCK FALSE

SPECIFICATION MailSpec
CONSTANTS
  Mailboxes = {m1, m2}
  Exchanges = {x1}
  Nobody = Nobody
  Dispatchers = {d1}
  Engagers = {e1}
  Rampers = {i1}
  NoImap = {}
  Folders = {"spam"}
  StartDaily = 1
  TargetDaily = 1
  MaintenanceDaily = 0
  RampChoices = {1}
  MaxSteps = 2
  PauseAt = 30
  ErrorAt = 60
  BatchSize = 1
  MaxDepth = 0
  Kinds = {"request", "failure", "restart"}
  MaxEvents = 1
PROPERTIES RampOncePerDay Settles
CHECK_DEADLOCK FALSE

SPECIFICATION FairSpec
CONSTANTS
  Mailboxes = {m1}
  Trackers = {t1}
  Cycles = {x1}
  Bouncers = {b1}
  Operators = {b1}
  NoMailbox = NoMailbox
  EscalateAt = 2
  MaxEvents = 3
  MaxFaults = 1
INVARIANTS TypeOK CapLifted
PROPERTIES OneRung EarnedClimb FlagStopsGraduation LeavesPause
CHECK_DEADLOCK FALSE

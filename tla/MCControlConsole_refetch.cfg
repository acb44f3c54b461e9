\* Two clicks on a session of the bootstrap configuration, no fault: an edit of its
\* roster, which is refused, and another edit queued behind it.
SPECIFICATION ConsoleSpec
CONSTANTS
  amber = amber
  original = original
  typed = typed
  pass = pass
  None = None
  SessionIds = {amber}
  Session = amber
  Earlier <- MCBound
  BootstrapRoles <- MCBootstrapRoles
  BootstrapKeys = {pass}
  SeatNumbers <- MCSeatNumbers
  MaxSeats = 4
  Texts <- MCTexts
  Original = original
  SessionEdits <- MCSessionEdits
  SeatEdits <- MCSeatEdits
  MaxRestarts = 0
  MaxClicks = 2
  MaxFaults = 0
INVARIANTS
  RejectedEditRollsBack
CHECK_DEADLOCK FALSE

\* Three clicks in an active run, no fault: the microphone toggled three times.
SPECIFICATION ConsoleSpec
CONSTANTS
  amber = amber
  original = original
  typed = typed
  pass = pass
  None = None
  SessionIds = {amber}
  Session = amber
  Earlier <- MCActive
  BootstrapRoles <- MCBootstrapRoles
  BootstrapKeys = {pass}
  SeatNumbers <- MCSeatNumbers
  MaxSeats = 4
  Texts <- MCTexts
  Original = original
  SessionEdits <- MCSessionEdits
  SeatEdits <- MCSeatEdits
  MaxRestarts = 0
  MaxClicks = 3
  MaxFaults = 0
INVARIANTS
  RapidTogglesStayOrdered
CHECK_DEADLOCK FALSE

\* A guest link of a session whose roster has no guest left is admitted, and the
\* app throws while it is built.
SPECIFICATION LinkSpec
CONSTANTS
  amber = amber
  blue = blue
  original = original
  None = None
  pass = pass
  SessionIds = {amber}
  DefaultSessionId = amber
  BootstrapRoles <- MCBootstrapRoles
  BootstrapKeys = {pass}
  SeatNumbers <- MCSeatNumbers
  MaxSeats = 3
  Texts <- MCTexts
  Original = original
  SessionEdits <- MCSessionEdits
  SeatEdits <- MCSeatEdits
  MaxRestarts = 1
INVARIANT AdmittedLinkHasSeat

\* The API with a session edited and run in every order, or with two sessions that
\* are closed, opened and activated, and one browser document that opens links of both
\* roles with every join key there is: drawn ones, and the one the configuration gives.
SPECIFICATION MCSpec
CONSTANTS
  amber = amber
  blue = blue
  original = original
  None = None
  pass = pass
  SessionIds = {amber, blue}
  DefaultSessionId = amber
  BootstrapRoles <- MCBootstrapRoles
  BootstrapKeys = {pass}
  SeatNumbers <- MCSeatNumbers
  MaxSeats = 3
  Texts <- MCTexts
  Original = original
  SessionEdits <- MCSessionEdits
  SeatEdits <- MCSeatEdits
  MaxRestarts = 1
INVARIANTS
  LinkTypeOK
  OperatorSeatStays
  PhaseFitsStatus
  OpenOnlyAsIssued
  OpensAgain
PROPERTIES
  SeatIdsAreNew
  RosterIsFinal
  RunMovesForward
  LinkIsDecided

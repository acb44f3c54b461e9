\* The console on a session in any state of its run: a few clicks in every order
\* with the answers to them, a refused or lost one, and an edit made elsewhere.
SPECIFICATION ConsoleSpec
CONSTANTS
  amber = amber
  original = original
  typed = typed
  pass = pass
  None = None
  SessionIds = {amber}
  Session = amber
  Earlier <- MCEarlier
  BootstrapRoles <- MCBootstrapRoles
  BootstrapKeys = {pass}
  SeatNumbers <- MCSeatNumbers
  MaxSeats = 4
  Texts <- MCTexts
  Original = original
  SessionEdits <- MCSessionEdits
  SeatEdits <- MCSeatEdits
  MaxRestarts = 1
  MaxClicks = 2
  MaxFaults = 1
INVARIANTS
  ConsoleTypeOK
  SeatsFollowPhase
  GuessFollowsPhase
  CacheIsCurrent
  OfferedIsAccepted
PROPERTIES
  ConsoleSettles
CHECK_DEADLOCK FALSE

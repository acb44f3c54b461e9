\* The session app of either role: every order of picking, claiming, taking over,
\* joining and leaving, with presets, drills, media controls and a recording run.
SPECIFICATION ShellSpec
CONSTANTS
  None = None
  SeatIds <- MCSeatIds
  RoleOf <- MCRoleOf
  DeviceCount = 2
  MaxMedia = 1
INVARIANTS
  ShellTypeOK
  OneSeatPerBrowser
  PendingTakeoverIsReal
  SignalsAreCurrent
  MediaFollowsRoom
PROPERTIES
  TakeoverIsConfirmed

\* Two tabs of one browser, no message lost: who owns an active seat?
SPECIFICATION Spec
CONSTANTS
  None = None
  b1 = b1
  b2 = b2
  hostKey = hostKey
  guestKey = guestKey
  h = h
  g = g
  x1 = x1
  x2 = x2
  x3 = x3
  Browsers = {b1, b2}
  HostBrowsers = {b1}
  Seats = {h, g}
  HostSeats = {h}
  Keys <- MCKeys
  KeyOf <- MCKeyOf
  Keyring <- MCKeyring
  Secrets = {x1, x2, x3}
  MaxInFlight = 2
  Faults = FALSE
INVARIANTS
  ActiveMeansOwned
SYMMETRY MCSymmetry

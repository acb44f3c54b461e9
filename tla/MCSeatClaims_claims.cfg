\* Two browsers, one with both links, for a host's and a guest's seat; faults.
SPECIFICATION Spec
CONSTANTS
  None = None
  b1 = b1
  b2 = b2
  hostKey = hostKey
  guestKey = guestKey
  h = h
  g = g
  x1 = x1
  x2 = x2
  x3 = x3
  Browsers = {b1, b2}
  HostBrowsers = {b1}
  Seats = {h, g}
  HostSeats = {h}
  Keys <- MCKeys
  KeyOf <- MCKeyOf
  Keyring <- MCKeyring
  Secrets = {x1, x2, x3}
  MaxInFlight = 3
  Faults = TRUE
INVARIANTS
  TypeOK
  GrantedCookiesProve
  HostSeatsNeedHostKey
PROPERTIES
  ImplementsOwnership
SYMMETRY MCSymmetry

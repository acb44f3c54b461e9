\* The completion re-check the upload protocol asks for.
SPECIFICATION Spec
CONSTANTS
  None = None
  a = a
  e1 = e1
  host = host
  mic = mic
  s0 = s0
  t1 = t1
  Seats = {host}
  HostSeats = {host}
  TrackIds = {t1}
  Sources = {mic}
  Slots = {s0}
  Contents = {a}
  Epochs = {e1}
  MaxIndex = 1
  Crashes = FALSE
INVARIANTS
  CompletionRechecked

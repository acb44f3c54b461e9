\* One track of up to three chunks: handlers fail and the process dies at any step.
SPECIFICATION Spec
CONSTANTS
  None = None
  a = a
  b = b
  e1 = e1
  e2 = e2
  guest = guest
  host = host
  mic = mic
  s0 = s0
  t1 = t1
  Seats = {host, guest}
  HostSeats = {host}
  TrackIds = {t1}
  Sources = {mic}
  Slots = {s0}
  Contents = {a, b}
  Epochs = {e1, e2}
  MaxIndex = 2
  Crashes = TRUE
INVARIANTS
  TypeOK
  AckedChunksDurable
  RowsHaveFiles
  CompleteIsGapFree
  ManifestsNeverOverclaim
PROPERTIES
  PublishedOnlyGrows
  RestartRepairs
SYMMETRY MCSymmetry

\* Two tracks of one chunk, with segments of their own or competing for one.
SPECIFICATION Spec
CONSTANTS
  None = None
  a = a
  b = b
  camera = camera
  e1 = e1
  guest = guest
  host = host
  mic = mic
  s0 = s0
  t1 = t1
  t2 = t2
  Seats = {host, guest}
  HostSeats = {host}
  TrackIds = {t1, t2}
  Sources = {mic, camera}
  Slots = {s0}
  Contents = {a, b}
  Epochs = {e1}
  MaxIndex = 0
  Crashes = TRUE
INVARIANTS
  AckedChunksDurable
  StoppedIsComplete
  StoppedManifestIsFinal
  AnswersArePublished
PROPERTIES
  SealedIsFinal
  ImplementsRun
SYMMETRY MCSymmetry

SPECIFICATION CompSpec
CONSTANTS
  WORD = 8
  Size = 4
  Entry = {a, b}
  None = None
  Lens = {2}
  MaxBatch = 2
  MaxPackets = 2
  MaxLines = 2
  Umems = {u1}
  Sockets = {s1, s2}
  NULL = NULL
  MaxLost = 1
  LinkProgs = {p1, p2}
  Requests <- AttachCalls
  Sysfs <- ProbeFiles
  MaxEvents = 2
  MaxErrors = 1
  none = none
  s1 = s1
  s2 = s2
  o1 = o1
  o2 = o2
SYMMETRY Alike
CHECK_DEADLOCK FALSE
INVARIANTS
  NeverOverReported
  NothingLeaked
  SocketsServed
  ObjectReleased
  LoadsAndProbesRight
  LinksOwned
  RecordsDelivered
  SetupSound
  EnvsSound
PROPERTIES
  RefinesProdChannel
  ConsRefinesChannel
  ObjectConsistent
  RefinesMultimap

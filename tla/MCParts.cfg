SPECIFICATION PartsSpec
CONSTANTS
  v1 = v1
  v2 = v2
  Values = {v1, v2}
  NoValue = NULL
  Size = 4
  Service = {root, x}
  Root = root
  Exclusive = {x}
  Main = main
  System = system
  Struct = {o1, o2, o3}
  Block = {b1}
  NULL = NULL
  Unallocated = unallocated
  LengthQueue = 1
  LengthSending = 1
  Loggers = {l1, l2}
  ChunkSize = 2
  MaxId = 4
  Junk = junk
  Pusher = {p1, p2}
  MaxLines = 2
  Item = {o1, o2, o3}
  Nil = Nil
  Base = 8
  MAX_COOKIE = 5
  MAX_DEPTH = 3
  BLOCK_SIZE = 6
  RawSize = 3
  NearSize = 2
  LevelSize = 2
  Timers = {o1, o2, o3}
  MaxTime = 15
  Leaves = {"1"}
  Table = "table"
  MaxPatches = 4
  MaxSaved = 2
SYMMETRY Symmetry
INVARIANTS
  RingKept
  MemoryKept
  
  RoundTrip
  WheelKept
  CatchUp
  SavedOrOverlapped
PROPERTIES
  ImplementsFifo
  LogFifo
  FiresInOrder
CHECK_DEADLOCK FALSE

SPECIFICATION ServicesSpec
CONSTANTS
  Receiver = {r1, r2}
  Self = self
  QueueLen = 1
  SendingLen = 3
  BlockedIds = 1
  MaxBurst = 1
  MaxTimers = 1
  c1 = c1
  c2 = c2
  Client = {c1, c2}
  Pid = {p}
  Fd = {f1}
  Base = 2
  RecvSize = 3
  Nil = Nil
  logger = logger
  other = other
  timer = timer
  Address = {1}
  Exclusive = timer
  Name = {logger, other}
  Logger = logger
  Calls = {q1}
  Boot = boot
  Error = Error
  Done = Done
  Nothing = Nothing
INVARIANTS
  GoesOn
CHECK_DEADLOCK FALSE

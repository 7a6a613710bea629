SPECIFICATION ServicesSpec
CONSTANTS
  Receiver = {r1, r2}
  Self = self
  QueueLen = 1
  SendingLen = 3
  BlockedIds = 1
  MaxBurst = 3
  MaxTimers = 4
  c1 = c1
  c2 = c2
  Client = {c1, c2}
  Pid = {p, q}
  Fd = {f1}
  Base = 2
  RecvSize = 3
  Nil = Nil
  logger = logger
  other = other
  timer = timer
  Address = {1, 2, 3}
  Exclusive = timer
  Name = {logger, other}
  Logger = logger
  Calls = {q1}
  Boot = boot
  Error = Error
  Done = Done
  Nothing = Nothing
INVARIANTS
  
  OwnRecord
  
PROPERTIES
  KeepsFiring
  AnswersLeave
  
CHECK_DEADLOCK FALSE

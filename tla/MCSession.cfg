SPECIFICATION RuntimeSpec
CONSTANTS
  caller = caller
  callee = callee
  root = root
  t1 = t1
  t2 = t2
  t3 = t3
  token = token
  Users = {caller, callee}
  Root = root
  Thread = {t1, t2, t3}
  Tokens = {token}
  MaxSession = 4
  QueueLen = 1
  Programs <- Various
  Peers <- CalledBy
  SelectList <- Selected2
  None = None
  Nothing = Nothing
  Nil = Nil
  Ignore = Ignore
  Select = Select
  Stale = Stale
  logger = logger
  other = other
  timer = timer
  Address = {1, 2, 3}
  Exclusive = timer
  Name = {logger, other}
  Logger = logger
  Calls = {q1, q2}
  Boot = boot
  Error = Error
  Done = Done
SYMMETRY Symmetry
INVARIANTS
  OneAnswer
  NoStray
  
  OnePerName
  NoCallForgotten
  EndsLast
PROPERTIES
  SelectComplete
CHECK_DEADLOCK FALSE

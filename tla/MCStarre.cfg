SPECIFICATION FairSpec
CONSTANTS
  g = g
  u = u
  Names = {g, u}
  Fields = {f}
  Workers = {w1, w2}
  Requests = {r1, r2, r3}
  Boot = {g}
  Queries <- Two
  Nil = nil
  QueueLen = 2
  MaxMakes = 1
INVARIANTS
  CopiesKept
PROPERTIES
  ImplementsTransactions
  EventuallyServed
CHECK_DEADLOCK FALSE

SPECIFICATION Spec
CONSTANTS
  g = g
  u = u
  Names = {g}
  Fields = {f}
  Workers = {w1}
  Requests = {r1, r2, r3, r4}
  Boot = {g}
  Queries <- One
  Nil = nil
  QueueLen = 2
  MaxMakes = 2
INVARIANTS
  OneHolder
CHECK_DEADLOCK FALSE

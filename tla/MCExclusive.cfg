SPECIFICATION FairSpec
CONSTANTS
  a = a
  b = b
  x = x
  Root = root
  System = system
  NoService = none
  NoMsg = noMsg
  Services = {root, a, x}
  Exclusives = {x}
  Preloaded = {a}
  Posters = {}
  Addressees = {root, a}
  Mortal = {x}
  Killable = {}
  NWorker = 1
  QueueLen = 1
  MaxService = 4
  SendingLen = 3
  SendingBlocked = 1
  SpuriousCAS = FALSE
  MaxPosts = 4
  Endless = FALSE
  MaxNews = 0
INVARIANTS
  InOrder
PROPERTIES
  EventuallyReleased
CHECK_DEADLOCK FALSE

SPECIFICATION Spec
CONSTANTS
  a = a
  b = b
  x = x
  Root = root
  System = system
  NoService = none
  NoMsg = noMsg
  Services = {root, a}
  Exclusives = {}
  Preloaded = {a}
  Posters = {root, a}
  Addressees = {root, a}
  Mortal = {a}
  Killable = {a}
  NWorker = 2
  QueueLen = 1
  MaxService = 4
  SendingLen = 1
  SendingBlocked = 1
  SpuriousCAS = TRUE
  MaxPosts = 2
  Endless = FALSE
  MaxNews = 0
INVARIANTS
  TypeOK
  OneScheduler
  NoServiceLost
  OneAnswer
  ActiveCounts
CHECK_DEADLOCK FALSE

SPECIFICATION Spec
CONSTANTS
  a = a
  b = b
  x = x
  Root = root
  System = system
  NoService = none
  NoMsg = noMsg
  Services = {root, a}
  Exclusives = {}
  Preloaded = {}
  Posters = {root, a}
  Addressees = {root, a}
  Mortal = {root, a}
  Killable = {}
  NWorker = 2
  QueueLen = 7
  MaxService = 4
  SendingLen = 1
  SendingBlocked = 1
  SpuriousCAS = FALSE
  MaxPosts = 2
  Endless = FALSE
  MaxNews = 1
INVARIANTS
  SingleOwner
  IdleHasNoMessage
  PassFreesSlot
  DeathsKnown
CHECK_DEADLOCK FALSE

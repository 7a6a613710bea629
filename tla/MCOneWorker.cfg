SPECIFICATION FairSpec
CONSTANTS
  a = a
  b = b
  x = x
  Root = root
  System = system
  NoService = none
  NoMsg = noMsg
  Services = {root, a}
  Exclusives = {}
  Preloaded = {a}
  Posters = {root, a}
  Addressees = {root, a}
  Mortal = {}
  Killable = {}
  NWorker = 1
  QueueLen = 1
  MaxService = 4
  SendingLen = 1
  SendingBlocked = 1
  SpuriousCAS = FALSE
  MaxPosts = 2
  Endless = TRUE
  MaxNews = 0
PROPERTIES
  EventuallyRuns
CHECK_DEADLOCK FALSE

SPECIFICATION FairSpec
CONSTANTS
  a = a
  b = b
  x = x
  Root = root
  System = system
  NoService = none
  NoMsg = noMsg
  Services = {root, a, x}
  Exclusives = {x}
  Preloaded = {a}
  Posters = {a, x}
  Addressees = {root, system}
  Mortal = {root}
  Killable = {}
  NWorker = 2
  QueueLen = 1
  MaxService = 4
  SendingLen = 1
  SendingBlocked = 1
  SpuriousCAS = FALSE
  MaxPosts = 1
  Endless = FALSE
  MaxNews = 0
PROPERTIES
  EventuallyQuiet
  
CHECK_DEADLOCK FALSE

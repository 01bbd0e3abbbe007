SPECIFICATION FairSpec
CONSTANTS
  ua = ua
  uaw = uaw
  ub = ub
  uc = uc
  ud = ud
  ue = ue
  uf = uf
  ug = ug
  h1 = h1
  h2 = h2
  hw = hw
  None = none
  Main = main
  URLs <- ChainURLs
  Keys <- ChainKeys
  Hosts <- ChainHosts
  Key <- ChainKey
  Host <- ChainHost
  Links <- ChainLinks
  SameOrigin <- ChainOrigin
  RobotsDelay <- NoDelay
  Sitemaps <- NoURLs
  Disallowed <- NoURLs
  StartURLs <- StartB
  MaxDepth = 3
  CacheCapacity = 1
  OnlySameDomain = FALSE
  Workers = {p1, p2}
  QueueCapacity = 1
  Faults = {"timeout", "fetch", "index", "vector", "bank", "save"}
  Interrupts = TRUE
  Sessions = 2
  Crashes = TRUE
INVARIANTS BankSound FetchedOnce
PROPERTIES SavedMarksStay CrawlEnds

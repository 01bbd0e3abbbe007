SPECIFICATION Spec
CONSTANTS
  ua = ua
  uaw = uaw
  ub = ub
  uc = uc
  ud = ud
  ue = ue
  uf = uf
  ug = ug
  h1 = h1
  h2 = h2
  hw = hw
  None = none
  Main = main
  URLs <- TreeURLs
  Keys <- TreeURLs
  Hosts <- TreeHosts
  Key <- TreeKey
  Host <- TreeHost
  Links <- TreeLinks
  SameOrigin <- TreeOrigin
  RobotsDelay <- TreeDelay
  Sitemaps <- NoURLs
  Disallowed <- TreeDisallowed
  StartURLs <- StartA
  MaxDepth = 2
  CacheCapacity = 1
  OnlySameDomain = TRUE
  Workers = {p1}
  QueueCapacity = 20
  Faults = {}
  Interrupts = FALSE
  Sessions = 1
  Crashes = FALSE
INVARIANTS DocumentsAsDescribed

SPECIFICATION WatchedSpec
CONSTANTS
  ua = ua
  uaw = uaw
  ub = ub
  uc = uc
  ud = ud
  ue = ue
  uf = uf
  ug = ug
  h1 = h1
  h2 = h2
  hw = hw
  None = none
  Main = main
  URLs <- WebURLs
  Keys <- WebKeys
  Hosts <- WebHosts
  Key <- WebKey
  Host <- WebHost
  Links <- WebLinks
  SameOrigin <- WebOrigin
  RobotsDelay <- WebDelay
  Sitemaps <- WebSitemaps
  Disallowed <- NoURLs
  StartURLs <- StartAlias
  MaxDepth = 3
  CacheCapacity = 1
  OnlySameDomain = FALSE
  Workers = {p1, p2}
  QueueCapacity = 4
  Faults = {}
  Interrupts = FALSE
  Sessions = 1
  Crashes = FALSE
INVARIANTS DepthSound CacheAgreesWithBank LimiterPresent VisitedIsIndexed LinksFollowed CoverageInTurn

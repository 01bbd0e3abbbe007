SPECIFICATION FairSpec
CONSTANTS
  Scrapers = {s1}
  Searchers = {q1}
  User = q1
  Asks <- OnceEach
  Capacities = {1, 2}
  ServerMayFail = TRUE
  LogCapacity = 1
  Nothing = nothing
  Closed = closed
INVARIANTS AnswersMatch SendsAfterClose NothingLost
PROPERTIES PageVectorEnds SearchEnds QuitEnds

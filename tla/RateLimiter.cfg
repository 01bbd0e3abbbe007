SPECIFICATION FairSpec
CONSTANTS
  Visits = {s1, l1}
  Starts = {s1}
  DefaultDelay = 2
  RobotsDelays = {1}
  Tries = 2
  Interrupts = TRUE
INVARIANTS PaidRequests SendsSafe
PROPERTIES BurstOfTwo RunEnds

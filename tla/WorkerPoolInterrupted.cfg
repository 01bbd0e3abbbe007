SPECIFICATION FairSpec
CONSTANTS
  Workers = {w1}
  Main = main
  Tasks = {t1}
  QueueCapacity = 1
  Interrupts = TRUE
  None = none
PROPERTIES StopReturns

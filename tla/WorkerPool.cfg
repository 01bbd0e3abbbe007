SPECIFICATION FairSpec
CONSTANTS
  Workers = {w1, w2}
  Main = main
  Tasks = {t1, t2, t3, t4}
  QueueCapacity = 1
  Interrupts = TRUE
  None = none
INVARIANTS JoinSound ReleaseAfterJoin PanicsOnlyInRelease PoolInv
PROPERTIES Implements EverySubmittedTaskEnds ReturnsOrPanics

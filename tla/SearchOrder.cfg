SPECIFICATION Spec
CONSTANTS
  d1 = d1
  d2 = d2
  d3 = d3
  d4 = d4
  d5 = d5
  None = none
  Docs = {d1, d2, d3, d4, d5}
  URL <- SomeURLs
  Near <- SomeNear
  WordCount <- SomeCounts
  Queries <- SomeQueries
  MaxLen = 4
  Width = 2
  MaxInt = 99
  Faults = FALSE
INVARIANTS TextFeaturesDecide

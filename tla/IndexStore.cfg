SPECIFICATION Spec
CONSTANTS
  p1 = p1
  p2 = p2
  w1 = w1
  w2 = w2
  w3 = w3
  w4 = w4
  g1 = g1
  g2 = g2
  s1 = s1
  s2 = s2
  None = none
  Pages = {p1, p2}
  Words = {w1, w2, w3, w4}
  Grams = {g1, g2}
  Stems = {s1, s2}
  Tokens <- SomeTokens
  GramsOf <- SomeGrams
  Stem <- SomeStems
  ChunkSize = 2
  BatchSize = 1
  Faults = TRUE
  Crashes = TRUE
  Sessions = 2
INVARIANTS PostingsHaveDocument SuggestionsSound IndexedIsSearchable

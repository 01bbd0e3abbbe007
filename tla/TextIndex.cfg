SPECIFICATION Spec
CONSTANTS
  d1 = d1
  d2 = d2
  d3 = d3
  Docs = {d1, d2, d3}
  Passages <- SomePassages
  Queries <- SomeQueries
  Matches <- SomeMatches
  NGramCount = 2
  MaxTypo = 2
  MaxToken = 12
INVARIANTS TokensExact CorrectionSound KnownWordsFound QueryAnswered

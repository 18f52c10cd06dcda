SPECIFICATION Spec
CONSTANTS
  Characters <- MCCharacters
  Letters <- MCLetters
  Digits <- MCDigits
  Texts <- MCTexts
  Stops <- MCStops
  Queries <- MCQueries
  MaxFiles = 2
  MaxFailures = 2
  TopCount = 2
  Words = {v, w, s}
  BuilderStops = {s}
  QueryStops = {}
  MaxItems = 3
  MaxLost = 1
  Window = 3
  MaxChars = 5
INVARIANTS TypeOK IndexTrue BestCandidates NoNearDuplicates FoundExactly WordsShown
\* The programs end.
CHECK_DEADLOCK FALSE

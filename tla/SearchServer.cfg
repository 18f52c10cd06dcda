SPECIFICATION FairSpec
CONSTANTS
  Workers = {w1, w2}
  English = {en}
  Chinese = {cn}
  Mixed = {mx}
  cn = cn
  Matches <- MCMatches
  MaxLookups = 2
  MaxKept = 1
INVARIANTS TypeOK KindMatches OwnRows FoundIsServed
PROPERTIES EveryRequestEnds

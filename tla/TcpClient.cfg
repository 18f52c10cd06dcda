SPECIFICATION FairSpec
CONSTANTS
  HeaderLen = 2
  Room = 3
  PageSize = 2
  MaxAsks = 2
  BufferLen = 2
  MaxLen = 3
  MaxPages = 5
INVARIANTS TypeOK RequestIntact AnswerIsMine QuitIsHarmless PagerInBounds EveryPageSeen
PROPERTIES EveryCallEnds
\* A closed connection, and a dead server, are the end.
CHECK_DEADLOCK FALSE

SPECIFICATION FairSpec
CONSTANTS
  Workers = {w1}
  QueSize = 1
  NumFds = 2
  MaxConns = 3
  MaxReqs = 1
INVARIANTS
  TypeOK
  NoLostWakeup
  EventsAreMapped
  FunctorsAlive
  RightClient
PROPERTIES
  RequestAnswered
  LoopReturns
\* Once no client acts any more the loop waits in epoll_wait for ever; a
\* process that was killed stops too.
CHECK_DEADLOCK FALSE

\* Two loops, two channels, and an epoll_wait that returns one event at
\* first, so that a full array and its doubling happen.
SPECIFICATION PoolSpec
CONSTANTS
  Channels = {c1, c2}
  NumLoops = 2
  Main = main
  InitEvents = 1
  CountModulus = 4
PROPERTY StopCompletes
PROPERTY ReadyIsHandled
CHECK_DEADLOCK FALSE

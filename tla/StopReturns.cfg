\* One connection, two loops: a fair run against StopReturns.
SPECIFICATION FairSpec
CONSTANTS
  Channels = {lst, c1}
  NumLoops = 2
  Main = main
  InitEvents = 4
  CountModulus = 2
  Listener = lst
  Nil = nil
  CloseHandlerThrows = FALSE
PROPERTY StopReturns
CHECK_DEADLOCK FALSE

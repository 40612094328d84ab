\* One connection, two loops, an onClose handler that returns.
SPECIFICATION FairSpec
CONSTANTS
  Channels = {lst, c1}
  NumLoops = 2
  Main = main
  InitEvents = 4
  CountModulus = 2
  Listener = lst
  Nil = nil
  CloseHandlerThrows = FALSE
PROPERTY PeerCloseReaped
PROPERTY IdleStopReturns
\* stop() on a server with a client waits for itself; a finished server is done.
CHECK_DEADLOCK FALSE

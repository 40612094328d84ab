\* Two connections on two loops, an onClose handler that may throw.
SPECIFICATION Spec
CONSTANTS
  Channels = {lst, c1, c2}
  NumLoops = 2
  Main = main
  InitEvents = 4
  CountModulus = 2
  Listener = lst
  Nil = nil
  CloseHandlerThrows = TRUE
SYMMETRY ConnSymmetry
INVARIANT RegisteredClient
INVARIANT DispatchedIsAlive
INVARIANT NoDeafConnection
PROPERTY KeepsItsPromise
\* stop() on a server with a client waits for itself; a finished server is done.
CHECK_DEADLOCK FALSE

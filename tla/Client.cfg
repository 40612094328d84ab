\* One loop; a Channel for the first attempt, and one for the retry or the connection.
SPECIFICATION FairSpec
CONSTANTS
  Channels = {c1, c2}
  NumLoops = 1
  Main = main
  InitEvents = 2
  Nil = nil
INVARIANT RegisteredIsAlive
INVARIANT OnlyDisconnectDangles
INVARIANT SocketIsOwned
PROPERTY ConnectCompletes
PROPERTY PeerCloseNoticed

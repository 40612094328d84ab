SPECIFICATION FairSpec
CONSTANTS
  MaxItems = 2
  Callers = {c1}
  Main = main
  Flusher = flusher
  Registry = registry
  Workers = {w1, w2}
  Blocking = {lb}
  Overrunning = {lo}
  Levels = {1}
  LogLevel = 1
  SinkLevels <- MCSinkLevels
  Nil = nil
  MaxCalls = 2
  MaxTicks = 1
INVARIANT PoolOutlivesItsUsers
INVARIANT RemainingLogged
INVARIANT WrittenOnce
INVARIANT NoLostWakeup
PROPERTY FifoQueue
PROPERTY ShutdownCompletes
PROPERTY CallsReturn

SPECIFICATION Spec
CONSTANTS
  Kinds = {"rotating", "daily", "basic"}
  MaxSize = 2
  MaxFiles = 2
  Sizes = {1, 3}
  Day = 2
  RotationTime = 0
  MaxDelay = 1
  MaxMessages = 5
  MaxClock = 7
  Nil = nil
INVARIANT NoWriteToNull
INVARIANT FilesAreTheEnd
INVARIANT FilesAreBounded
INVARIANT OnlyFaultsLose
INVARIANT AtMostADayOff

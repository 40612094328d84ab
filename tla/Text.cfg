SPECIFICATION Spec
CONSTANTS
  MaxInt = 31
  MaxLong = 536870911
  MaxPackedArgs = 15
  InlineSize = 5
  AsyncSize = 3
  Snprintf <- MCSnprintf
  Jobs <- MCJobs
  Calls <- MCCalls
  Times <- MCTimes
  LocalTime <- MCLocalTime
  Name = "name"
  Level = 2
  Pid = 1234
  ThreadId = 1234567
INVARIANT FormatIsEchoed
INVARIANT NumbersAreWellWritten
INVARIANT SpecsAreUnderstood
INVARIANT TimeIsItsOwn
INVARIANT ColorIsMarked

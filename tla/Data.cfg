\* Three bytes, read two at a time; a response that fills two thirds of the send buffer.
SPECIFICATION FairSpec
CONSTANTS
  Channels = {conn}
  conn = conn
  MaxSent = 3
  ReadSize = 2
  ResponseSize = 2
  SendBuffer = 3
INVARIANT EachByteOnce
INVARIANT DrainedBeforeClose
PROPERTY DataHandled

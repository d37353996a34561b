SPECIFICATION FairSpec
CONSTANTS
  short = short
  whole = whole
  long = long
  o1 = o1
  o2 = o2
  Request <- MCRequest
  Nil = Nil
  Length <- MCLength
  Owner <- MCOwner
  ChunkSize = 2
  Word = 8
  MaxRemovals = 1
PROPERTIES
  OneTransferAtATime
  CallbacksInOrderAndWhole
  HighDelayedByOneChunk
  RequestsServed
CHECK_DEADLOCK FALSE

\* Disk changes and reads, two failures, a call by a callback
SPECIFICATION Spec
CONSTANTS
  b1 = b1
  b2 = b2
  Block = {b1, b2}
  Nil = Nil
  Dummy = Dummy
  MaxPrio = 2
  Command <- MCGame
  ReadPrio = {2}
  ChunkCounts = {2}
  MaxFaults = 2
  MaxCalls = 1
INVARIANTS QueuesWellFormed OneContinuation
PROPERTY CancelHitsTarget
CHECK_DEADLOCK FALSE

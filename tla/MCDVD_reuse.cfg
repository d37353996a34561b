\* A block that was called back can be issued again
SPECIFICATION Spec
CONSTANTS
  b1 = b1
  b2 = b2
  Block = {b1, b2}
  Nil = Nil
  Dummy = Dummy
  MaxPrio = 2
  Command <- MCStopMotor
  ReadPrio = {2}
  ChunkCounts = {1}
  MaxFaults = 0
  MaxCalls = 0
INVARIANT ReusableOnceTold
CHECK_DEADLOCK FALSE

\* Streams, boot reads and motor stops: answers, and what must happen
SPECIFICATION FairSpec
CONSTANTS
  b1 = b1
  b2 = b2
  Block = {b1, b2}
  Nil = Nil
  Dummy = Dummy
  MaxPrio = 2
  Command <- MCStreams
  ReadPrio = {2}
  ChunkCounts = {2}
  MaxFaults = 1
  MaxCalls = 0
PROPERTIES ImplementsCommands CommandsEnd ResetPrepared
CHECK_DEADLOCK FALSE

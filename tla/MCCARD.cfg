\* Two files of one or two blocks, on a card of two blocks
SPECIFICATION Spec
CONSTANTS
  name1 = name1
  name2 = name2
  Name = {name1, name2}
  File = {0, 1}
  cBlock = 7
  Length = {1, 2}
  Half = 3
  MaxFaults = 1
INVARIANTS DirectoryKept Recoverable
PROPERTIES ImplementsFiles
SYMMETRY Symmetry
VIEW View
CHECK_DEADLOCK FALSE

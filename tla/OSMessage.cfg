CONSTANTS
  Thread = {a, b}
  Irq = Irq
  Msg = {x, y}
  NoMsg = NoMsg
  MsgCount = 3
  NoCall = NoCall
SPECIFICATION Spec
INVARIANTS TypeOK NoLostWakeup
PROPERTIES ImplementsMailbox

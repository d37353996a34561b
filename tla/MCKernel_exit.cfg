CONSTANTS
  t1 = t1  t2 = t2  t3 = t3  m1 = m1  m2 = m2  c1 = c1  u1 = u1
  Thread = {t1, t2, t3}
  Mutex = {m1, m2}
  Cond = {}
  UserQueue = {u1}
  MaxPriority = 2
  MainThread = t1
  MainPriority = 1
  Irq = Irq
  NoThread = NoThread  NoMutex = NoMutex  NoQueue = NoQueue
  Calls <- ExitCalls
  IrqCalls <- ExitIrqCalls
  LockRank <- RankOfMutex
  ExitHolding = TRUE
  MaxSuspend = 1
  MaxReschedule = 1
  MaxCount = 2
SPECIFICATION Spec
INVARIANTS MoribundOwnsNothing

CONSTANTS
  Thread = {a, b, c, d}
  Irq = Irq
  InitialCount = 2
SPECIFICATION Spec
INVARIANTS UnitsConserved NoLostWakeup

SPECIFICATION FairSpec
CONSTANTS
  once = once
  every = every
  dvd = dvd
  Nil = Nil
  Alarm <- MCAlarm
  Tag <- MCTag
  DVDAlarms = {dvd}
  MaxTime = 3
  MaxDec = 1
  Ticks <- MCTicks
  Times <- MCTimes
  Starts <- MCStarts
  Periods <- MCPeriods
INVARIANTS
  QueueWellFormed
  TimerInTime
  NoDrift
PROPERTIES
  NeverEarly
  AlarmsFire

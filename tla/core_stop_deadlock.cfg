SPECIFICATION TalkingSpec
CONSTANTS
  a1 = a1
  a2 = a2
  r1 = r1
  r2 = r2
  on = on
  off = off
  bad = bad
  Apps = {a1, a2}
  Periodic = Periodic
  Readers = {r1}
  NoThread = NoThread
  NoReader = NoReader
  Configs = {on, off}
  NoConfig = NoConfig
  Valid = {on, off}
  PushOn = {on}
  Throttling = {}
  PeriodicTask = FALSE
  PlainResponses = FALSE
  SpuriousWakeups = FALSE
PROPERTY StopReturns
CHECK_DEADLOCK FALSE

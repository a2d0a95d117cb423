SPECIFICATION TalkingSpec
CONSTANTS
  a1 = a1
  a2 = a2
  r1 = r1
  r2 = r2
  on = on
  off = off
  bad = bad
  Apps = {a1, a2}
  Periodic = Periodic
  Readers = {r1}
  NoThread = NoThread
  NoReader = NoReader
  Configs = {on, bad}
  NoConfig = NoConfig
  Valid = {on}
  PushOn = {on}
  Throttling = {on}
  PeriodicTask = FALSE
  PlainResponses = TRUE
  SpuriousWakeups = TRUE
PROPERTY FetchReturns
PROPERTY ShutdownReturns
CHECK_DEADLOCK FALSE

SPECIFICATION Spec
CONSTANTS
  a1 = a1
  a2 = a2
  r1 = r1
  r2 = r2
  on = on
  off = off
  bad = bad
  Apps = {a1, a2}
  Periodic = Periodic
  Readers = {r1, r2}
  NoThread = NoThread
  NoReader = NoReader
  Configs = {on, off, bad}
  NoConfig = NoConfig
  Valid = {on, off}
  PushOn = {on, bad}
  Throttling = {off}
  PeriodicTask = TRUE
  PlainResponses = TRUE
  SpuriousWakeups = TRUE
INVARIANT TypeOK
INVARIANT FetchMutex
INVARIANT AppliedTogether
INVARIANT NoChangesMeansSame
INVARIANT ListenerMatchesFlag
INVARIANT NoUseAfterFree
INVARIANT PushChannelOpen
PROPERTY ImplementsStream
CHECK_DEADLOCK FALSE

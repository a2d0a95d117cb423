CONSTANTS
  a1 = a1
  w1 = w1
  w2 = w2
  Apps = {a1}
  Workers = {w1, w2}
  f1 = f1
  p1 = p1
  p2 = p2
  b1 = b1
  b2 = b2
  start = start
  Contents <- MCContents
  Size <- MCSize
  Start <- MCStart
  BufferSize = 5
  Nothing = Nothing
  SpuriousWakeups = TRUE
SPECIFICATION FairSpec
INVARIANTS OneSender NoSenderAfterFree SettledIsKnown
PROPERTY EventuallyInSnapshot
CHECK_DEADLOCK FALSE

CONSTANTS
  t1 = t1
  t2 = t2
  n1 = n1
  Threads = {t1, t2}
  Names = {n1}
  Bound <- MCBound
  DefaultFreezes = {"untilLaunch"}
  Levels = {"untilForeground", "unset"}
  RacyRetries = FALSE
SPECIFICATION FairSpec
INVARIANTS HeapIsExact FlagsAreReady
PROPERTIES FirstFetchReleases SetupReturns
CHECK_DEADLOCK FALSE

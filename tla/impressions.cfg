CONSTANTS
  t1 = t1
  ann = ann
  bob = bob
  Threads = {t1}
  SetupThread = t1
  Ids = {ann, bob}
  Names = {"email", "rox.distinct_id"}
  DistinctId = "rox.distinct_id"
  Contexts <- MCContexts
  Configs <- MCConfigs
  Null = Null
  NoContext = NoContext
SPECIFICATION Spec
INVARIANTS HeardOnceInOrder EventNamesItsSubject SubjectIsFoundAgain
\* a failed assertion is the end of the process
CHECK_DEADLOCK FALSE

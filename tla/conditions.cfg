CONSTANTS
  a1 = a1
  a2 = a2
  f1 = f1
  f2 = f2
  Apps = {a1, a2}
  Flags = {f1, f2}
  NoFlag = NoFlag
  Nothing = Nothing
  Empty = Empty
  MaxFetches = 3
SPECIFICATION Spec
INVARIANTS GraceOfOneFetch FlagsFollow

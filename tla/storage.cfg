CONSTANTS
  a = a
  b = b
  big = big
  Names = {"config", "overrides"}
  Maps = {a, b, big}
  Oversized = {big}
  Depth = 3
  Nothing = Nothing
SPECIFICATION StorageSpec
PROPERTY ImplementsDurableMap

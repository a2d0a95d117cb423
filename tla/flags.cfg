CONSTANTS
  t1 = t1
  size = size
  colour = colour
  Threads = {t1}
  Flags = {size, colour}
  Type <- MCType
  Added <- MCAdded
  Reads <- MCReads
  DependsOn <- MCDependsOn
  NoFlag = NoFlag
  NoValue = NoValue
  Results <- MCResults
  Texts <- MCTexts
  Explicit <- MCExplicit
  DefaultFreeze = 1
  Background = FALSE
SPECIFICATION Spec
INVARIANTS FrozenIsReported NeverAborts OverriddenIsNotFrozen ClearedStaysCleared
PROPERTY PeekFreezesNothing

CONSTANTS
  Messages <- MCMessages
  Numerals <- MCNumerals
  Null = Null
  MaxSent = 2
SPECIFICATION Spec
INVARIANTS WholeMessageFires FiredWasSent NeverAborts
CHECK_DEADLOCK FALSE

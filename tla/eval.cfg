CONSTANTS
  Null = Null
  DblEpsilon = 1
  FltEpsilon = 3
  NaN = NaN
  Infinity = Infinity
  NegInfinity = NegInfinity
  Numerals <- MCNumerals
  TextNumbers <- MCTextNumbers
  NumberLike = {"version2"}
  Version <- MCVersion
  Matches <- MCMatches
  Bucket <- MCBucket
  Now = 11
  Trees <- MCTrees
  Property <- MCProperty
  Computed <- MCComputed
  TargetGroup <- MCTargetGroup
  RegisteredFlag <- MCRegisteredFlag
  FlagCondition <- MCFlagCondition
  Written <- Spelled
SPECIFICATION FairSpec
INVARIANTS ResultIsDenotation ComparisonsAgree
PROPERTY EvaluationEnds
CHECK_DEADLOCK FALSE

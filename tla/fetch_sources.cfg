CONSTANTS
  good = good
  newer = newer
  large = large
  unsigned = unsigned
  short = short
  forged = forged
  foreign = foreign
  anonymous = anonymous
  wrongKey = wrongKey
  noInner = noInner
  noLists = noLists
  miss = miss
  Payloads = {good, newer, large, unsigned, short, forged, foreign, anonymous, wrongKey, noInner, noLists, miss}
  Large = {large}
  Miss = {miss}
  Flaws <- MCFlaws
  NoPayload = NoPayload
  Torn = Torn
SPECIFICATION Spec
INVARIANTS TypeOK OneOutcome OutcomeIsTruthful DiskFollowsServers WorksOffline

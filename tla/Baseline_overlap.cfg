SPECIFICATION Spec
CONSTANTS
  h1 = h1
  h2 = h2
  a = a
  b = b
  Helpers = {h1, h2}
  Agents = {a}
  Epochs <- ManyEpochs
  r1 = r1
  r2 = r2
  r3 = r3
  Rules = {r1, r2, r3}
  RulesIn <- RulesOf
  SampleLimit = 2
  RuleLimit = 2
  MaxCalls = 3
INVARIANTS FoldedOnce SamplesCounted RulesRemembered PreviewsNotKept HistoryBefore
CHECK_DEADLOCK FALSE

SPECIFICATION PollSpec
CONSTANTS
  p1 = p1
  p2 = p2
  a = a
  Polls = {p1, p2}
  Agents = {a}
  Width = 2
  PageSpan = 4
  WarmSpan = 5
  MaxDocs = 4
  TailDocs = 0
  OnPage = 1
  Lag = 0
  MaxTime = 5
SYMMETRY Alike
INVARIANT ScoredAgainstOthers
PROPERTY NothingSkipped
CHECK_DEADLOCK FALSE

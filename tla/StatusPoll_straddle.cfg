SPECIFICATION PollSpec
CONSTANTS
  p1 = p1
  a = a
  Polls = {p1}
  Agents = {a}
  Width = 2
  PageSpan = 6
  WarmSpan = 9
  MaxDocs = 9
  TailDocs = 0
  OnPage = 2
  Lag = 1
  MaxTime = 10
INVARIANT NotScoredAgainstItself
CHECK_DEADLOCK FALSE

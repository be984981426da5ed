SPECIFICATION PollSpec
CONSTANTS
  p1 = p1
  a = a
  b = b
  Polls = {p1}
  Agents = {a, b}
  Width = 2
  PageSpan = 3
  WarmSpan = 4
  MaxDocs = 4
  TailDocs = 0
  OnPage = 1
  Lag = 1
  MaxTime = 4
SYMMETRY Alike
PROPERTY StoreSpec
CHECK_DEADLOCK FALSE

SPECIFICATION FairSpec
CONSTANTS
  p1 = p1
  p2 = p2
  Pages = {p1, p2}
  Steps = 2
  LeavesEarly = FALSE
  MaxCalls = 1
  MaxPresses = 2
  MaxFails = 1
INVARIANT KeepsPolling
PROPERTIES SequenceDriven QuietInBackground

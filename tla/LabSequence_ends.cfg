SPECIFICATION FairSpec
CONSTANTS
  Endpoints = {linux}
  linux = linux
  Manager = manager
  Timeout <- BriefTimeout
  Grace = 1
  HealthInterval = 1
  SshTimeout = 2
  SelfRow = 1
  ClickActs = {"forceoff"}
  MaxRequests = 2
  MaxFaults = 0
  MaxGap = 3
  IdleCap = 0
PROPERTY SequenceEnds

SPECIFICATION Spec
CONSTANTS
  Endpoints = {linux}
  linux = linux
  Manager = manager
  Timeout <- ShortTimeout
  Grace = 1
  HealthInterval = 1
  SshTimeout = 1
  SelfRow = 1
  ClickActs = {"start", "restart"}
  MaxRequests = 2
  MaxFaults = 1
  MaxGap = 2
  IdleCap = 1
INVARIANTS ManagerClosesLast DeadlineBounded
PROPERTIES EndpointsAfterServices GivesUpAfterWatching

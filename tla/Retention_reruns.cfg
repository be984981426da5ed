SPECIFICATION Spec
CONSTANTS
  Names = {i1, i2, i3}
  Attempts = 2
  HealthWaits = 2
  MaxFaults = 3
  MaxOthers = 2
PROPERTIES ReadyIsManaged FailsForCause Settles

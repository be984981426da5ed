SPECIFICATION Spec
CONSTANTS
  N = 2
  Staff = {"1", "2"}
  Gap = 3
  Settle = 2
  First = {0, 1}
  Between = {1, 2, 3}
  Pauses = {0, 1}
  Length = 5
  Alone = TRUE
  MaxFaults = 1
  MaxSignals = 2
INVARIANTS StaffComeOut OneCampaign SetupOutside
PROPERTY S1KeepApart

SPECIFICATION Spec
CONSTANTS
  Networks <- MCNetworks
  Columns = {"rule", "gru"}
  Earlier = {"rule"}
  BadText = {"wilson"}
  AtLeast = 2
  Splits <- MCSplits
  MaxKills = 2
  MaxShort = 2
  MaxFresh = 1
INVARIANT EpisodesFromWholeMembers
PROPERTIES FinishedFoldsKept EveryFoldReported

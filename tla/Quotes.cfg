CONSTANTS
  Text      <- MCText
  Blank     = ""
  Trim      <- MCTrim
  NoEstimate = NoEstimate
  Mock      = FALSE
  Documents     <- MCDocuments
  TaskLists     <- MCTaskLists
  RiskLists     = {}
  EstimateLists <- MCEstimateLists
  Overrides     <- MCOverrides
  TeamInputSet  <- MCTeamInputs
  MaxWBS    = 1
  MaxTaskID = 3
  MaxNoteID = 0
  MaxPrimed = 0
SPECIFICATION Spec
VIEW View
INVARIANTS RangesOrdered QuoteFollowsPricing BandsCutAtHalves
CHECK_DEADLOCK FALSE

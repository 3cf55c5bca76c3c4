CONSTANTS
  Text      <- MCText
  Blank     = ""
  Trim      <- MCTrim
  NoEstimate = NoEstimate
  Mock      = FALSE
  Documents     <- MCDocuments
  TaskLists     <- TieTaskLists
  RiskLists     = {}
  EstimateLists <- TieEstimateLists
  Overrides     = {}
  TeamInputSet  <- MCTeamInputs
  MaxWBS    = 1
  MaxTaskID = 1
  MaxNoteID = 0
  MaxPrimed = 0
SPECIFICATION Spec
VIEW View
INVARIANTS MetricsRoundHalfUp
CHECK_DEADLOCK FALSE

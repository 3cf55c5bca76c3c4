CONSTANTS
  Text      <- MCText
  Blank     = ""
  Trim      <- MCTrim
  NoEstimate = NoEstimate
  Mock      = FALSE
  Documents     <- MCDocuments
  TaskLists     <- LiveTaskLists
  RiskLists     <- LiveRiskLists
  EstimateLists <- UncheckedEstimateLists
  Overrides     <- MCOverrides
  TeamInputSet  <- MCTeamInputs
  MaxWBS    = 1
  MaxTaskID = 3
  MaxNoteID = 2
  MaxPrimed = 1
SPECIFICATION Spec
VIEW View
INVARIANTS EstimatesValid
CHECK_DEADLOCK FALSE

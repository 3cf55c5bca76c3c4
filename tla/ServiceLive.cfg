CONSTANTS
  Text      <- MCText
  Blank     = ""
  Trim      <- MCTrim
  NoEstimate = NoEstimate
  Mock      = FALSE
  Documents     <- MCDocuments
  TaskLists     <- LiveTaskLists
  RiskLists     <- LiveRiskLists
  EstimateLists <- LiveEstimateLists
  Overrides     <- MCOverrides
  TeamInputSet  <- MCTeamInputs
  MaxWBS    = 1
  MaxTaskID = 3
  MaxNoteID = 2
  MaxPrimed = 1
SPECIFICATION Spec
VIEW View
INVARIANTS TypeOK TaskIDsOrdered ApprovedNotEmpty NoteIDsUnique TextsClean
PROPERTIES ApprovedListFrozen ApprovedEstimatesFrozen SurvivorsUntouched NewNotesNewIDs ImplementsGates
CHECK_DEADLOCK FALSE

CONSTANTS
  Text          <- MCText
  Blank         = ""
  Trim          <- MCTrim
  NoEstimate    = NoEstimate
  Free          = Free
  Requests      = {r1, r2}
  CallSet       <- BothCalls
  Tasks0        <- MCTasks0
  TaskLists     <- MCTaskLists
  RiskLists     <- MCRiskLists
  EstimateLists <- MCEstimateLists
  MaxWBS        = 3
  MaxTaskID     = 2
  MaxNoteID     = 2
SPECIFICATION SafeSpec
INVARIANTS ResolutionHolds

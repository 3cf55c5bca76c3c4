CONSTANTS
  Text      <- MCText
  Blank     = ""
  Trim      <- MCTrim
  NoEstimate = NoEstimate
  NoProposal = NoProposal
  OldPage = OldPage
  Mock      = FALSE
  Documents     <- MCDocuments
  TaskLists     <- MCTaskLists
  RiskLists     <- MCRiskLists
  EstimateLists <- MCEstimateLists
  Overrides     <- MCOverrides
  TeamInputSet  <- MCTeamInputs
  MaxWBS    = 2
  MaxTaskID = 2
  MaxNoteID = 0
  MaxPrimed = 1
SPECIFICATION PagesSpec
VIEW PagesView
INVARIANTS ShownProposalCurrent
CHECK_DEADLOCK FALSE

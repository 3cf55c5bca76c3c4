SPECIFICATION AcceptanceSpec
CONSTANTS
  Text <- MCText
  Blank = ""
  Trim <- MCTrim
  NoEstimate = NoEstimate
  NoProposal = NoProposal
  OldPage = OldPage
  Malformed = Malformed
  NoExecution = NoExecution
  NoFeature = NoFeature
  Mock = TRUE
  Documents = {}
  TaskLists = {}
  RiskLists = {}
  EstimateLists = {}
  Overrides = {}
  TeamInputSet = {}
  MaxWBS = 3
  MaxTaskID = 6
  MaxNoteID = 10
  MaxPrimed = 3
  ScreenPhrase = " on the build screen"
  Mechanics = {"Optimistic"}
  Features <- MCFeatures
  InOrder <- MCInOrder
  Shipped <- MCShipped
  Mutated <- MCMutated
  Dirs <- MCDirs
  Streams <- MCStreams
INVARIANTS
  ScenariosPass
  ExitMeansAllPassed
  AnswersInOrder
  AnswersRepeat
  

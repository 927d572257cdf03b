CONSTANTS
  Requests = {"a", "b"}
  NumLayers = 3
  MaxSeq = 4
  HwMaxSeq = 5
  PrefillTile = 2
  ImageTokens = 2
  Prompts <- MCPrompts
  Windows = {1}
  Tasks <- MCTasks
  NPredict = 2
SPECIFICATION FairServer
INVARIANTS TypeOK LogitsOfThisStep HistoryIsOwn StagedIsOwn NoEmbeddingNoSecondToken OnlyLastTokenPastLimit
PROPERTIES AnswerOnce EveryRequestAnswered ServiceSpec
CHECK_DEADLOCK FALSE

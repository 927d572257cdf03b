CONSTANTS
  Requests = {"a"}
  NumLayers = 3
  MaxSeq = 4
  HwMaxSeq = 4
  PrefillTile = 2
  ImageTokens = 2
  Prompts <- ClaimPrompts
  Windows = {1}
  Tasks <- ClaimTasks
  NPredict = 2
SPECIFICATION SpecServer
INVARIANT LayerFeedsNext
CHECK_DEADLOCK FALSE

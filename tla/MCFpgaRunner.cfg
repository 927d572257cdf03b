CONSTANTS
  Requests = {"a"}
  NumLayers = 2
  MaxSeq = 4
  HwMaxSeq = 4
  PrefillTile = 3
  ImageTokens = 2
  Prompts <- MCPrompts
  Windows = {1, 2}
  MaxCalls = 3
SPECIFICATION MCSpec
INVARIANTS RunnerTypeOK EncodeOrder
PROPERTY PrefillLayout
PROPERTY PrefillFillsKv
CHECK_DEADLOCK FALSE

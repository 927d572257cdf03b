\* The size check of the repository accepts an export: does a session start?
SPECIFICATION Spec
CONSTANTS
  MaxLayers = 32
  MaxSeq = 2048
INVARIANT ValidExportStarts
CHECK_DEADLOCK FALSE

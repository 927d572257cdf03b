CONSTANTS
  Requests = {"a", "b"}
  NumLayers = 2
  HKv = 3
  MaxSeq = 4
  Groups = 2
  PrefillTile = 2
SPECIFICATION Spec
INVARIANTS KvTypeOK CacheIsOwn AttendsOwn

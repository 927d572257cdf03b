CONSTANTS
  Requests = {"a", "b"}
  TasksOf <- MCTasksOf
  NumSlots = 2
  MaybeMedia = {4}
  AnySlot = 0
  PinnedTo <- MCPinnedTo
  MaxTokens = 2
SPECIFICATION FairSpec
INVARIANTS QueueTypeOK EachTaskOnce NoStrayResult DeferredOnce
PROPERTIES EveryRequestServed
CHECK_DEADLOCK FALSE

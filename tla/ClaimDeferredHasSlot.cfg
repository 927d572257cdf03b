CONSTANTS
  Requests = {"a", "b", "c"}
  TasksOf <- ClaimTasksOf
  NumSlots = 1
  MaybeMedia = {}
  AnySlot = 0
  PinnedTo <- ClaimPinnedTo
  MaxTokens = 1
SPECIFICATION Spec
INVARIANT DeferredHasSlot
CHECK_DEADLOCK FALSE

\* Three messages through both queues in both modes; no exception.
SPECIFICATION Spec
CONSTANTS
  Modes = {"all", "one-at-a-time"}
  MaxMessages = 3
  MaxCalls = 1
  MaxBatch = 1
  MaxFaults = 0
INVARIANTS
  QueueOrder
CHECK_DEADLOCK FALSE

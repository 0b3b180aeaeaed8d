\* Two messages and two tool calls with one exception at any emit; every run
\* settles under the fairness of FairSpec.
SPECIFICATION FairSpec
CONSTANTS
  Modes = {"one-at-a-time"}
  MaxMessages = 2
  MaxCalls = 2
  MaxBatch = 2
  MaxFaults = 1
INVARIANTS
  MessagesKept
  ResultsFollowCalls
  
  PendingToolCallsExact
PROPERTIES
  AgentEndIsFinal
  RunSettles
CHECK_DEADLOCK FALSE

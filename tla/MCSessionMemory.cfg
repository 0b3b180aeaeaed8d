\* Memory: two messages, so that a branch can fork between them; a background run
\* and the forced runs of a compaction, so that two runs overlap; a pool that
\* overflows with the second observation.  Prompts: two calls of prompt, one retry,
\* one message, bash result, stop or threshold compaction at any moment, any
\* failures while the session has fewer than four messages.
SPECIFICATION MCSpec
CONSTANTS
  Slots = {r1, r2}
  NoRun = NoRun
  MaxMessages = 2
  MaxScheduled = 1
  MaxCompactions = 1
  MaxSettled = 1
  ObserveAfter = 1
  ReflectAfter = 1
  PoolMax = 1
  InputMax = 2
  MaxPrompts = 2
  MaxRetries = 1
  MaxTranscript = 4
  MaxEvents = 1
CONSTRAINT OnePromptAtATime
INVARIANTS
  SessionTypeOK
  MemoryOnBranch
  NothingUnsaved
  IdleMeansIdle
  TranscriptAcceptable
PROPERTIES
  
  CompactionEnds
  PromptSettles
CHECK_DEADLOCK FALSE

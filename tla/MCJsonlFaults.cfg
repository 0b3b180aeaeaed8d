\* One failed write and one crash, at any byte; two queued operations.
SPECIFICATION FairSpec
CONSTANTS
  Ids = {i1, i2}
  Lanes = {main}
  Main = main
  Null = Null
  Missing = Missing
  Commands <- SomeCommands
  MaxSequence = 3
  MaxQueue = 2
  MaxCrashes = 1
  MaxFailures = 1
INVARIANTS
  LiveSound
PROPERTIES
  ChainMoves
CHECK_DEADLOCK FALSE

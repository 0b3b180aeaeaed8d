\* One failed write, then one crash: does the repair drop an acknowledged line?
SPECIFICATION Spec
CONSTANTS
  Ids = {i1, i2}
  Lanes = {main}
  Main = main
  Null = Null
  Missing = Missing
  Commands <- SomeCommands
  MaxSequence = 3
  MaxQueue = 2
  MaxCrashes = 1
  MaxFailures = 1
PROPERTIES
  RepairDropsUnacknowledged
CHECK_DEADLOCK FALSE

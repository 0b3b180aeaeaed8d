\* Five storage operations over four ids and two lanes, and every fork; or
\* two crashes at any byte of any write, two queued operations, four mutations.
SPECIFICATION MCSpec
CONSTANTS
  Ids = {i1, i2, i3, i4}
  Lanes = {main, side}
  Main = main
  Null = Null
  Missing = Missing
  MaxStoreSequence = 5
  Commands <- SomeCommands
  MaxSequence = 4
  MaxQueue = 2
  MaxCrashes = 2
  MaxFailures = 0
SYMMETRY IdSymmetry
INVARIANTS
  StoreSound
  ForksFaithful
  AckedSurvive
  FileReadable
  LiveIsDurable
PROPERTIES
  ImplementsStore
CHECK_DEADLOCK FALSE

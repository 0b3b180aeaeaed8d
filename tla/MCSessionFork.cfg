\* A label in front of the entries a compaction keeps, and a clone.
SPECIFICATION SessionFileSpec
CONSTANTS
  MaxEntries = 6
  MaxEvents = 2
PROPERTIES
  ForkKeepsContext
CHECK_DEADLOCK FALSE

\* One message is enough: the pool overflows with the first observation, so the
\* run asks the dropper while it holds a reflection.
CONSTANTS
  Slots = {r1, r2}
  NoRun = NoRun
  MaxMessages = 2
  MaxScheduled = 2
  MaxCompactions = 0
  MaxSettled = 1
  ObserveAfter = 1
  ReflectAfter = 1
  PoolMax = 0
  InputMax = 2
SPECIFICATION Spec
CHECK_DEADLOCK FALSE
PROPERTIES
  ReflectionsPersist

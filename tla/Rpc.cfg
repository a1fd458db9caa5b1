SPECIFICATION Spec
CONSTANTS
  Services = {a, b}
  Outside = Outside
  MaxEvents = 2
INVARIANTS
  TasksSound
  CallsSettled
  NoCrossTalk
PROPERTIES
  FifoDispatch
CHECK_DEADLOCK FALSE

\* Two files besides the log, enough entries to push the oldest out, one failed
\* operation and one restart at any step.
CONSTANTS
  Capacity = 2
  MaxSize = 2
  RotationCount = 2
  MaxLogs = 7
  MaxFaults = 1
  MaxRestarts = 1
SPECIFICATION Spec
\* The process stops after Close, and the bounds are used up.
CHECK_DEADLOCK FALSE
INVARIANTS
  TypeOK
  TrailOrdered
  
  DrainedOnClose
PROPERTY ImplementsTrail

\* A shutdown while nothing else happens is enough.
CONSTANTS
  Tasks = {t1}
  TTL = 0
  MaxTime = 1
  Capacity = 1
  MaxSize = 3
  RotationCount = 1
  MaxLogs = 2
SPECIFICATION FairSpec
\* The process ends.
CHECK_DEADLOCK FALSE
PROPERTY ServerExits

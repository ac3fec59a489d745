\* One task that the next sweep may find expired, a clock of two ticks, and an auditor
\* with room for one entry (rotation is the run auditor's).
CONSTANTS
  Tasks = {t1}
  TTL = 0
  MaxTime = 1
  Capacity = 1
  MaxSize = 3
  RotationCount = 1
  MaxLogs = 2
SPECIFICATION FairSpec
\* The process ends.
CHECK_DEADLOCK FALSE
PROPERTIES
  AcceptedSettles
  ExpiredForgotten
  AuditedReachesFile

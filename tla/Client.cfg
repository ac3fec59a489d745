\* One request more than the limiter admits, each with its client.
CONSTANTS
  Requests = {q1, q2}
  MaxConcurrent = 1
  MaxOutput = 1
  MaxEmitted = 1
SPECIFICATION ClientFairSpec
\* Every request is answered and every client ends.
CHECK_DEADLOCK FALSE
INVARIANTS
  ClientTypeOK
  
  TimeoutKillsGroup
  
  ZeroMeansDone
PROPERTIES
  ImplementsAdmission
  ClientEnds

\* A command that writes more than the limit.
CONSTANTS
  Requests = {q1}
  MaxConcurrent = 1
  MaxOutput = 1
  MaxEmitted = 2
SPECIFICATION Spec
CHECK_DEADLOCK FALSE
INVARIANT OutputLimited

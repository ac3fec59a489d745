\* A child that keeps the pipes open outlives the leader.
CONSTANTS
  Requests = {q1}
  MaxConcurrent = 1
  MaxOutput = 1
  MaxEmitted = 1
SPECIFICATION FairSpec
CHECK_DEADLOCK FALSE
PROPERTY TimeoutAnswers

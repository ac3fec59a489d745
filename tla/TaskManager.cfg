\* Two tasks, one tick of the clock: every interleaving of two submissions,
\* their goroutines, the sweep and Close.
CONSTANTS
  Tasks = {t1, t2}
  TTL = 0
  MaxTime = 1
SPECIFICATION Spec
\* The service stops: the clock is bounded and Close ends the process.
CHECK_DEADLOCK FALSE
INVARIANTS
  TypeOK
  DurationDefined
  NoOrphan
  AuditMatchesStore
PROPERTIES
  CloseWaits
  RetentionRespected
  ToldMonotone
  ImplementsLifecycle

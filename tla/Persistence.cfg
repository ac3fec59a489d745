\* Four changes of the store, two failed operations, two restarts at any step.
CONSTANTS
  MaxVersion = 4
  Size <- Lengths
  MaxFaults = 2
  MaxRestarts = 2
SPECIFICATION FairSpec
\* The process may stop for good.
CHECK_DEADLOCK FALSE
INVARIANTS
  TypeOK
  ReadableUnlessDisturbed
  StopSaves
PROPERTIES
  RestartRestoresLastSave
  ChangeReachesFile

\* Three writers on two buffers, chunks that fit, fill the limit or exceed it.
CONSTANTS
  Writers = {w1, w2, w3}
  MaxBytes = 2
  MaxChunk = 2
  MaxWrites = 2
SPECIFICATION FairSpec
\* The writers have nothing more to write.
CHECK_DEADLOCK FALSE
INVARIANTS
  TypeOK
  LimitHolds
  CounterExact
  TruncatedExact
PROPERTIES
  TruncatedIsFinal
  WriteReturns

------------------------- MODULE LimitedBufferProofs -------------------------
(***************************************************************************)
(* Proofs about LimitedBuffer for any writers, limit and chunks.           *)
(***************************************************************************)
EXTENDS LimitedBuffer, TLAPS

USE DEF Buffers

Types ==
  /\ shared \in BOOLEAN
  /\ total \in Nat
  /\ written \in [Buffers -> Nat]
  /\ truncated \in [Buffers -> BOOLEAN]
  /\ offered \in [Buffers -> Nat]
  /\ mutex \in [Buffers -> SUBSET Writers]
  /\ pc \in [Writers -> {"idle", "lock", "test", "load", "cas", "store"}]
  /\ target \in [Writers -> Buffers]
  /\ chunk \in [Writers -> Nat]
  /\ current \in [Writers -> Nat]
  /\ calls \in [Writers -> Nat]

\* A writer is inside its buffer's mutex exactly from Lock to Unlock, alone.
Holding(w) == pc[w] \in {"test", "load", "cas", "store"}
MutexInv ==
  /\ \A b \in Buffers : \A w \in mutex[b] : target[w] = b /\ Holding(w)
  /\ \A w \in Writers : Holding(w) => mutex[target[w]] = {w}

\* What a writer past its test knows, and what its reservation covers.
WriterInv(w) ==
  /\ pc[w] \in {"load", "cas", "store"} => ~truncated[target[w]]
  /\ pc[w] \in {"load", "cas"} => shared
  /\ pc[w] = "cas" => current[w] + chunk[w] <= MaxBytes

\* A buffer that is not truncated has kept all it was offered, but for the
\* chunk of the writer that holds the mutex.
BufferInv(b) ==
  /\ written[b] <= MaxBytes
  /\ mutex[b] = {} => (truncated[b] <=> written[b] < offered[b])
  /\ mutex[b] = {} /\ ~truncated[b] => written[b] = offered[b]
  /\ \A w \in mutex[b] :
       /\ written[b] + chunk[w] <= offered[b]
       /\ truncated[b] <=> written[b] + chunk[w] < offered[b]

\* The bytes reserved for a chunk that is not stored yet.
Storing(b) == {w \in mutex[b] : pc[w] = "store"}
Reserved(b) == IF Storing(b) = {} THEN 0 ELSE chunk[CHOOSE w \in Storing(b) : TRUE]

\* The shared counter accounts for what is kept and what is about to be.
Counted(b) == written[b] + Reserved(b)
CounterInv ==
  shared => total = Counted("stdout") + Counted("stderr") /\ total <= MaxBytes

BInv == /\ Types /\ MutexInv /\ CounterInv
        /\ \A w \in Writers : WriterInv(w)
        /\ \A b \in Buffers : BufferInv(b)

-----------------------------------------------------------------------------
(* Types. *)

\* Returning from Write keeps the types,
LEMMA UnlockTypes ==
  ASSUME Types, NEW w \in Writers, Unlock(w)
  PROVE  /\ pc' \in [Writers -> {"idle", "lock", "test", "load", "cas", "store"}]
         /\ mutex' \in [Buffers -> SUBSET Writers]
         /\ chunk' \in [Writers -> Nat]
         /\ current' \in [Writers -> Nat]
<1>1. mutex' \in [Buffers -> SUBSET Writers]
  BY DEF Types, Unlock
<1> QED
  BY <1>1 DEF Types, Unlock, Goto

\* and so does every step.
LEMMA TypesStep == Types /\ [Next]_vars => Types'
<1> SUFFICES ASSUME Types, [Next]_vars PROVE Types'
  OBVIOUS
<1> USE MaxBytesAssumption, MaxChunkAssumption DEF Types, bufferVars, writerVars, Goto, Unlock
<1>1. ASSUME NEW w \in Writers, Call(w) PROVE Types'
  BY <1>1 DEF Call
<1>2. ASSUME NEW w \in Writers, Lock(w) PROVE Types'
  BY <1>2 DEF Lock
<1>3. ASSUME NEW w \in Writers, Test(w) PROVE Types'
  BY <1>3 DEF Test
<1>4. ASSUME NEW w \in Writers, Load(w) PROVE Types'
  <2>1. CASE total + chunk[w] > MaxBytes
    <3>1. Unlock(w) /\ truncated' = [truncated EXCEPT ![target[w]] = TRUE]
      BY <1>4, <2>1 DEF Load
    <3>2. truncated' \in [Buffers -> BOOLEAN]
      BY <3>1
    <3>3. UNCHANGED <<shared, total, written, offered, target, calls>>
      BY <1>4 DEF Load
    <3> QED
      BY <3>1, <3>2, <3>3, UnlockTypes
  <2>2. CASE ~(total + chunk[w] > MaxBytes)
    BY <1>4, <2>2 DEF Load
  <2> QED
    BY <2>1, <2>2
<1>5. ASSUME NEW w \in Writers, CompareAndSwap(w) PROVE Types'
  BY <1>5 DEF CompareAndSwap
<1>6. ASSUME NEW w \in Writers, Store(w) PROVE Types'
  <2>1. target[w] \in Buffers /\ written[target[w]] + chunk[w] \in Nat
    OBVIOUS
  <2>2. Unlock(w) /\ UNCHANGED <<shared, total, offered, target, calls>>
    BY <1>6 DEF Store
  <2>3. CASE written[target[w]] + chunk[w] > MaxBytes
    <3>1. /\ written' = [written EXCEPT ![target[w]] = MaxBytes]
          /\ truncated' = [truncated EXCEPT ![target[w]] = TRUE]
      BY <1>6, <2>3 DEF Store
    <3> QED
      BY <2>1, <2>2, <3>1, UnlockTypes
  <2>4. CASE ~(written[target[w]] + chunk[w] > MaxBytes)
    <3>1. /\ written' = [written EXCEPT ![target[w]] = written[target[w]] + chunk[w]]
          /\ truncated' = truncated
      BY <1>6, <2>4 DEF Store
    <3> QED
      BY <2>1, <2>2, <3>1, UnlockTypes
  <2> QED
    BY <2>3, <2>4
<1>7. CASE UNCHANGED vars
  BY <1>7 DEF vars
<1> QED
  BY <1>1, <1>2, <1>3, <1>4, <1>5, <1>6, <1>7 DEF Next, WriteStep

-----------------------------------------------------------------------------
(* The mutexes. *)

\* Write holds its buffer's mutex from Lock to its return.
LEMMA MutexStep ==
  ASSUME Types, MutexInv, [Next]_vars
  PROVE  MutexInv'
<1> USE DEF Types, MutexInv, Holding, bufferVars, writerVars, Goto, Unlock
<1>1. ASSUME NEW w \in Writers, Call(w) PROVE MutexInv'
  BY <1>1 DEF Call
<1>2. ASSUME NEW w \in Writers, Lock(w) PROVE MutexInv'
  BY <1>2 DEF Lock
<1>3. ASSUME NEW w \in Writers, Test(w) PROVE MutexInv'
  BY <1>3 DEF Test
<1>4. ASSUME NEW w \in Writers, Load(w) PROVE MutexInv'
  BY <1>4 DEF Load
<1>5. ASSUME NEW w \in Writers, CompareAndSwap(w) PROVE MutexInv'
  BY <1>5 DEF CompareAndSwap
<1>6. ASSUME NEW w \in Writers, Store(w) PROVE MutexInv'
  BY <1>6 DEF Store
<1>7. CASE UNCHANGED vars
  BY <1>7 DEF vars
<1> QED
  BY <1>1, <1>2, <1>3, <1>4, <1>5, <1>6, <1>7 DEF Next, WriteStep

\* A mutex has one holder.
LEMMA OneHolder ==
  ASSUME MutexInv, Types, NEW b \in Buffers, NEW v \in mutex[b], NEW w \in mutex[b]
  PROVE  v = w
<1>1. v \in Writers /\ target[v] = b /\ Holding(v)
  BY DEF MutexInv, Types
<1> QED
  BY <1>1 DEF MutexInv

-----------------------------------------------------------------------------
(* Reservations. *)

\* A free mutex has none, a held one has its holder's.
LEMMA ReservedFree ==
  ASSUME NEW b \in Buffers, mutex[b] = {}
  PROVE  Reserved(b) = 0
BY DEF Reserved, Storing

\* Only the holder can have reserved.
LEMMA ReservedHeld ==
  ASSUME NEW w \in Writers, NEW b \in Buffers, mutex[b] = {w}
  PROVE  Reserved(b) = IF pc[w] = "store" THEN chunk[w] ELSE 0
<1>1. CASE pc[w] = "store"
  <2>1. Storing(b) = {w}
    BY <1>1 DEF Storing
  <2> QED
    BY <1>1, <2>1 DEF Reserved
<1>2. CASE pc[w] # "store"
  <2>1. Storing(b) = {}
    BY <1>2 DEF Storing
  <2> QED
    BY <1>2, <2>1 DEF Reserved
<1> QED
  BY <1>1, <1>2

\* What is reserved is a number of bytes,
LEMMA ReservedNat == Types /\ MutexInv => \A b \in Buffers : Reserved(b) \in Nat
<1> SUFFICES ASSUME Types, MutexInv, NEW b \in Buffers PROVE Reserved(b) \in Nat
  OBVIOUS
<1>1. CASE mutex[b] = {}
  BY <1>1, ReservedFree
<1>2. ASSUME NEW w \in mutex[b] PROVE Reserved(b) \in Nat
  <2>1. w \in Writers /\ mutex[b] = {w}
    BY <1>2 DEF Types, MutexInv
  <2> QED
    BY <2>1, ReservedHeld DEF Types
<1> QED
  BY <1>1, <1>2

\* after a step as before it.
LEMMA ReservedNatNext == (Types /\ MutexInv => \A b \in Buffers : Reserved(b) \in Nat)'
BY ReservedNat, PTL

\* A step that leaves a buffer's mutex and its holder alone keeps them.
LEMMA ReservedSame ==
  ASSUME Types, MutexInv, MutexInv', Types', NEW b \in Buffers, mutex'[b] = mutex[b],
         \A w \in mutex[b] : pc'[w] = pc[w] /\ chunk'[w] = chunk[w]
  PROVE  Reserved(b)' = Reserved(b)
<1>1. Storing(b)' = Storing(b)
  BY DEF Storing
<1>2. CASE Storing(b) = {}
  BY <1>1, <1>2 DEF Reserved
<1>3. CASE Storing(b) # {}
  <2>1. (CHOOSE w \in Storing(b) : TRUE) \in mutex[b]
    BY <1>3 DEF Storing
  <2> QED
    BY <1>1, <1>3, <2>1 DEF Reserved
<1> QED
  BY <1>2, <1>3

-----------------------------------------------------------------------------
(* What the holder knows, and what the buffers hold. *)

\* Everything about a buffer and its holder that a step of another keeps.
SameBuffer(b) == /\ mutex'[b] = mutex[b] /\ written'[b] = written[b]
                 /\ truncated'[b] = truncated[b] /\ offered'[b] = offered[b]
                 /\ \A w \in mutex[b] : pc'[w] = pc[w] /\ chunk'[w] = chunk[w]

\* A step of Write touches no buffer but its own,
LEMMA OtherBuffers ==
  ASSUME Types, MutexInv, NEW w \in Writers, WriteStep(w), NEW b \in Buffers, b # target[w]
  PROVE  SameBuffer(b)
<1>1. \A v \in mutex[b] : v \in Writers /\ v # w
  BY DEF Types, MutexInv
<1> USE <1>1 DEF Types, SameBuffer, bufferVars, writerVars, Goto, Unlock
<1>2. CASE Lock(w)
  BY <1>2 DEF Lock
<1>3. CASE Test(w)
  BY <1>3 DEF Test
<1>4. CASE Load(w)
  BY <1>4 DEF Load
<1>5. CASE CompareAndSwap(w)
  BY <1>5 DEF CompareAndSwap
<1>6. CASE Store(w)
  BY <1>6 DEF Store
<1> QED
  BY <1>2, <1>3, <1>4, <1>5, <1>6 DEF WriteStep

\* and the call touches none.
LEMMA CallBuffers ==
  ASSUME Types, MutexInv, NEW w \in Writers, Call(w), NEW b \in Buffers
  PROVE  SameBuffer(b)
<1>1. \A v \in mutex[b] : v \in Writers /\ v # w
  BY DEF Types, MutexInv, Holding, Call
<1> QED
  BY <1>1 DEF Types, SameBuffer, bufferVars, Call, Goto

\* A buffer that nothing happened to keeps its invariant.
LEMMA SameBufferKeeps ==
  ASSUME NEW b \in Buffers, BufferInv(b), SameBuffer(b)
  PROVE  BufferInv(b)'
BY DEF BufferInv, SameBuffer

\* A step of Write keeps that of its buffer.
LEMMA OwnBuffer ==
  ASSUME Types, MutexInv, CounterInv, NEW w \in Writers, WriterInv(w), WriteStep(w),
         BufferInv(target[w])
  PROVE  BufferInv(target[w])'
<1> DEFINE b == target[w]
<1>0. b \in Buffers /\ target' = target /\ MaxBytes \in Nat
      /\ chunk[w] \in Nat /\ written[b] \in Nat /\ offered[b] \in Nat
      /\ truncated[b] \in BOOLEAN
  BY MaxBytesAssumption
     DEF Types, WriteStep, Lock, Test, Load, CompareAndSwap, Store
<1>h. Holding(w) => mutex[b] = {w}
  BY DEF MutexInv
<1>1. CASE Lock(w)
  <2>1. mutex[b] = {} /\ mutex'[b] = {w} /\ offered'[b] = offered[b] + chunk[w]
        /\ written'[b] = written[b] /\ truncated'[b] = truncated[b] /\ chunk'[w] = chunk[w]
    BY <1>1, <1>0 DEF Lock, Types
  <2>2. /\ written[b] <= MaxBytes
        /\ written[b] <= offered[b]
        /\ truncated[b] <=> written[b] < offered[b]
    BY <1>0, <2>1 DEF BufferInv
  <2>3. /\ written[b] + chunk[w] <= offered[b] + chunk[w]
        /\ written[b] < offered[b] <=> written[b] + chunk[w] < offered[b] + chunk[w]
    BY <1>0, <2>2
  <2> QED
    BY <1>0, <2>1, <2>2, <2>3 DEF BufferInv
<1>2. CASE Test(w)
  <2>1. mutex[b] = {w}
    BY <1>2, <1>h DEF Test, Holding
  <2>2. written[b] + chunk[w] <= offered[b] /\ written[b] <= MaxBytes
        /\ (truncated[b] <=> written[b] + chunk[w] < offered[b])
    BY <2>1 DEF BufferInv
  <2>3. written'[b] = written[b] /\ truncated'[b] = truncated[b] /\ offered'[b] = offered[b]
    BY <1>2 DEF Test
  <2>4. CASE truncated[b]
    <3>1. mutex'[b] = {}
      BY <1>2, <1>0, <2>1, <2>4 DEF Test, Unlock, Types
    <3>2. written[b] < offered[b]
      BY <1>0, <2>2, <2>4
    <3> QED
      BY <1>0, <2>2, <2>3, <2>4, <3>1, <3>2 DEF BufferInv
  <2>5. CASE ~truncated[b]
    <3>1. mutex'[b] = {w} /\ chunk'[w] = chunk[w]
      BY <1>2, <2>1, <2>5 DEF Test
    <3> QED
      BY <1>0, <2>2, <2>3, <3>1 DEF BufferInv
  <2> QED
    BY <2>4, <2>5
<1>3. CASE Load(w)
  <2>1. mutex[b] = {w} /\ shared /\ ~truncated[b]
    BY <1>3, <1>h DEF Load, Holding, WriterInv
  <2>2. written[b] + chunk[w] = offered[b] /\ written[b] <= MaxBytes
    BY <1>0, <2>1 DEF BufferInv
  <2>3. written'[b] = written[b] /\ offered'[b] = offered[b]
    BY <1>3 DEF Load
  <2>4. CASE total + chunk[w] > MaxBytes
    <3>1. mutex'[b] = {} /\ truncated'[b] = TRUE
      BY <1>3, <1>0, <2>1, <2>4 DEF Load, Unlock, Types
    <3>2. total <= MaxBytes /\ total \in Nat
      BY <2>1 DEF CounterInv, Types
    <3>3. written[b] < offered[b]
      BY <1>0, <2>2, <2>4, <3>2
    <3> QED
      BY <1>0, <2>2, <2>3, <3>1, <3>3 DEF BufferInv
  <2>5. CASE ~(total + chunk[w] > MaxBytes)
    <3>1. mutex'[b] = {w} /\ chunk'[w] = chunk[w] /\ truncated'[b] = truncated[b]
      BY <1>3, <2>1, <2>5 DEF Load
    <3> QED
      BY <1>0, <2>1, <2>2, <2>3, <3>1 DEF BufferInv
  <2> QED
    BY <2>4, <2>5
<1>4. CASE CompareAndSwap(w)
  <2>1. mutex'[b] = mutex[b] /\ written'[b] = written[b] /\ chunk' = chunk
        /\ truncated'[b] = truncated[b] /\ offered'[b] = offered[b]
    BY <1>4 DEF CompareAndSwap, bufferVars
  <2> QED
    BY <1>0, <2>1 DEF BufferInv
<1>5. CASE Store(w)
  <2>1. mutex[b] = {w} /\ ~truncated[b]
    BY <1>5, <1>h DEF Store, Holding, WriterInv
  <2>2. written[b] + chunk[w] = offered[b] /\ written[b] <= MaxBytes
    BY <1>0, <2>1 DEF BufferInv
  <2>3. mutex'[b] = {} /\ offered'[b] = offered[b]
    BY <1>5, <1>0, <2>1 DEF Store, Unlock, Types
  <2>4. CASE written[b] + chunk[w] > MaxBytes
    <3>1. written'[b] = MaxBytes /\ truncated'[b] = TRUE
      BY <1>5, <1>0, <2>4 DEF Store, Types
    <3> QED
      BY <1>0, <2>2, <2>3, <2>4, <3>1 DEF BufferInv
  <2>5. CASE ~(written[b] + chunk[w] > MaxBytes)
    <3>1. written'[b] = written[b] + chunk[w] /\ truncated'[b] = truncated[b]
      BY <1>5, <1>0, <2>5 DEF Store, Types
    <3> QED
      BY <1>0, <2>1, <2>2, <2>3, <2>5, <3>1 DEF BufferInv
  <2> QED
    BY <2>4, <2>5
<1> QED
  BY <1>1, <1>2, <1>3, <1>4, <1>5 DEF WriteStep

\* So every step keeps that of every buffer.
LEMMA BuffersStep ==
  ASSUME BInv, [Next]_vars, NEW b \in Buffers
  PROVE  BufferInv(b)'
<1>1. ASSUME NEW w \in Writers, Call(w) PROVE BufferInv(b)'
  BY <1>1, CallBuffers, SameBufferKeeps DEF BInv
<1>2. ASSUME NEW w \in Writers, WriteStep(w) PROVE BufferInv(b)'
  <2>1. CASE b = target[w]
    <3>1. target' = target
      BY <1>2 DEF WriteStep, Lock, Test, Load, CompareAndSwap, Store
    <3>2. BufferInv(target[w])'
      BY <1>2, <2>1, OwnBuffer DEF BInv
    <3> QED
      BY <2>1, <3>1, <3>2
  <2>2. CASE b # target[w]
    BY <1>2, <2>2, OtherBuffers, SameBufferKeeps DEF BInv
  <2> QED
    BY <2>1, <2>2
<1>3. CASE UNCHANGED vars
  <2>1. SameBuffer(b)
    BY <1>3 DEF vars, bufferVars, writerVars, SameBuffer
  <2> QED
    BY <2>1, SameBufferKeeps DEF BInv
<1> QED
  BY <1>1, <1>2, <1>3 DEF Next
-----------------------------------------------------------------------------
(* What a writer knows. *)

\* A step of one writer leaves what the others know: inside the mutex they are
\* on another buffer, and outside it they know nothing.
LEMMA OtherWriters ==
  ASSUME Types, MutexInv, NEW w \in Writers, Call(w) \/ WriteStep(w),
         NEW v \in Writers, v # w, WriterInv(v)
  PROVE  WriterInv(v)'
<1>1. /\ target' = target /\ shared' = shared
      /\ pc'[v] = pc[v] /\ chunk'[v] = chunk[v] /\ current'[v] = current[v]
  <2> USE DEF Types, Goto, Unlock, bufferVars, writerVars
  <2>1. CASE Call(w)
    BY <2>1 DEF Call
  <2>2. CASE Lock(w)
    BY <2>2 DEF Lock
  <2>3. CASE Test(w)
    BY <2>3 DEF Test
  <2>4. CASE Load(w)
    BY <2>4 DEF Load
  <2>5. CASE CompareAndSwap(w)
    BY <2>5 DEF CompareAndSwap
  <2>6. CASE Store(w)
    BY <2>6 DEF Store
  <2> QED
    BY <2>1, <2>2, <2>3, <2>4, <2>5, <2>6 DEF WriteStep
<1>2. CASE pc[v] \in {"load", "cas", "store"}
  <2>1. mutex[target[v]] = {v} /\ target[v] \in Buffers
    BY <1>2 DEF MutexInv, Holding, Types
  <2>2. truncated'[target[v]] = truncated[target[v]]
    <3>1. CASE Call(w)
      BY <3>1 DEF Call, bufferVars
    <3>2. CASE WriteStep(w) /\ target[w] # target[v]
      BY <2>1, <3>2, OtherBuffers DEF SameBuffer
    <3>3. CASE WriteStep(w) /\ target[w] = target[v]
      <4>1. ~Holding(w)
        BY <2>1, <3>3 DEF MutexInv
      <4>2. FALSE
        BY <2>1, <3>3, <4>1
           DEF Holding, WriteStep, Lock, Test, Load, CompareAndSwap, Store
      <4> QED
        BY <4>2
    <3> QED
      BY <3>1, <3>2, <3>3
  <2> QED
    BY <1>1, <2>2 DEF WriterInv
<1> QED
  BY <1>1, <1>2 DEF WriterInv

\* What a writer knows stays true through its own steps,
LEMMA OwnWriter ==
  ASSUME Types, NEW w \in Writers, Call(w) \/ WriteStep(w), WriterInv(w)
  PROVE  WriterInv(w)'
<1>0. /\ target' = target /\ shared' = shared /\ target[w] \in Buffers
      /\ total \in Nat /\ chunk[w] \in Nat /\ current[w] \in Nat /\ MaxBytes \in Nat
  BY MaxBytesAssumption
     DEF Types, Call, WriteStep, Lock, Test, Load, CompareAndSwap, Store, writerVars
<1>1. CASE Call(w)
  <2>1. pc'[w] = "lock"
    BY <1>1 DEF Call, Goto, Types
  <2> QED
    BY <2>1 DEF WriterInv
<1>2. CASE Lock(w)
  <2>1. pc'[w] = "test"
    BY <1>2 DEF Lock, Goto, Types
  <2> QED
    BY <2>1 DEF WriterInv
<1>3. CASE Test(w)
  <2>1. truncated' = truncated
    BY <1>3 DEF Test
  <2>2. pc'[w] = IF truncated[target[w]] THEN "idle" ELSE IF shared THEN "load" ELSE "store"
    BY <1>3 DEF Test, Goto, Unlock, Types
  <2> QED
    BY <1>0, <2>1, <2>2 DEF WriterInv
<1>4. CASE Load(w)
  <2>1. CASE total + chunk[w] > MaxBytes
    <3>1. pc'[w] = "idle"
      BY <1>4, <2>1 DEF Load, Goto, Unlock, Types
    <3> QED
      BY <3>1 DEF WriterInv
  <2>2. CASE ~(total + chunk[w] > MaxBytes)
    <3>1. pc'[w] = "cas" /\ current'[w] = total /\ chunk' = chunk /\ truncated' = truncated
      BY <1>4, <2>2 DEF Load, Goto, Types
    <3>2. shared /\ ~truncated[target[w]]
      BY <1>4 DEF Load, WriterInv
    <3>3. total + chunk[w] <= MaxBytes
      BY <1>0, <2>2
    <3> QED
      BY <1>0, <3>1, <3>2, <3>3 DEF WriterInv
  <2> QED
    BY <2>1, <2>2
<1>5. CASE CompareAndSwap(w)
  <2>1. shared /\ ~truncated[target[w]] /\ truncated' = truncated
    BY <1>5 DEF CompareAndSwap, WriterInv, bufferVars
  <2>2. pc'[w] \in {"store", "load"}
    BY <1>5 DEF CompareAndSwap, Goto, Types
  <2> QED
    BY <1>0, <2>1, <2>2 DEF WriterInv
<1>6. CASE Store(w)
  <2>1. pc'[w] = "idle"
    BY <1>6 DEF Store, Goto, Unlock, Types
  <2> QED
    BY <2>1 DEF WriterInv
<1> QED
  BY <1>1, <1>2, <1>3, <1>4, <1>5, <1>6 DEF WriteStep

\* and through those of the others, which do not hold its buffer.
LEMMA WritersStep ==
  ASSUME BInv, [Next]_vars, NEW v \in Writers
  PROVE  WriterInv(v)'
<1>1. ASSUME NEW w \in Writers, Call(w) \/ WriteStep(w) PROVE WriterInv(v)'
  <2>1. CASE v = w
    BY <1>1, <2>1, OwnWriter DEF BInv
  <2>2. CASE v # w
    BY <1>1, <2>2, OtherWriters DEF BInv
  <2> QED
    BY <2>1, <2>2
<1>2. CASE UNCHANGED vars
  BY <1>2 DEF BInv, WriterInv, vars, bufferVars, writerVars
<1> QED
  BY <1>1, <1>2 DEF Next

-----------------------------------------------------------------------------
(* The counter. *)

\* The other buffer of a step counts for as much as before.
LEMMA CountedSame ==
  ASSUME Types, MutexInv, Types', MutexInv', NEW b \in Buffers, SameBuffer(b)
  PROVE  Counted(b)' = Counted(b)
<1>1. Reserved(b)' = Reserved(b)
  BY ReservedSame DEF SameBuffer
<1> QED
  BY <1>1 DEF Counted, SameBuffer

\* A step adds to its own buffer's count what it adds to the counter.
LEMMA CountedOwn ==
  ASSUME BInv, Types', MutexInv', NEW w \in Writers, WriteStep(w), shared
  PROVE  /\ Counted(target[w])' - Counted(target[w]) = total' - total
         /\ total' <= MaxBytes
<1> DEFINE b == target[w]
<1>0. /\ b \in Buffers /\ target' = target /\ MaxBytes \in Nat /\ total \in Nat
      /\ chunk[w] \in Nat /\ written[b] \in Nat /\ current[w] \in Nat
      /\ total <= MaxBytes /\ WriterInv(w) /\ Types /\ MutexInv /\ BufferInv(b)
  BY MaxBytesAssumption
     DEF BInv, Types, CounterInv, WriteStep, Lock, Test, Load, CompareAndSwap, Store
<1>1. Reserved(b) \in Nat /\ Reserved(b)' \in Nat
  BY <1>0, ReservedNat, ReservedNatNext
<1>h. Holding(w) => mutex[b] = {w}
  BY <1>0 DEF MutexInv
<1>f. mutex'[b] = {} => Reserved(b)' = 0
  BY <1>0, ReservedFree DEF Reserved, Storing
<1>p. mutex'[b] = {w} => Reserved(b)' = IF pc'[w] = "store" THEN chunk'[w] ELSE 0
  BY <1>0 DEF Reserved, Storing
<1>2. CASE Lock(w)
  <2>1. mutex[b] = {} /\ mutex'[b] = {w} /\ pc'[w] = "test"
        /\ written'[b] = written[b] /\ total' = total
    BY <1>0, <1>2 DEF Lock, Goto, Types
  <2>2. Reserved(b) = 0
    BY <1>0, <2>1, ReservedFree
  <2> QED
    BY <1>0, <1>p, <2>1, <2>2 DEF Counted
<1>3. CASE Test(w)
  <2>1. mutex[b] = {w} /\ written'[b] = written[b] /\ total' = total
    BY <1>3, <1>h DEF Test, Holding
  <2>2. Reserved(b) = 0
    BY <1>0, <1>3, <2>1, ReservedHeld DEF Test
  <2>3. CASE truncated[b]
    <3>1. mutex'[b] = {}
      BY <1>0, <1>3, <2>1, <2>3 DEF Test, Unlock, Types
    <3> QED
      BY <1>0, <1>f, <2>1, <2>2, <3>1 DEF Counted
  <2>4. CASE ~truncated[b]
    <3>1. mutex'[b] = {w} /\ pc'[w] = "load"
      BY <1>0, <1>3, <2>1, <2>4 DEF Test, Goto, Types
    <3> QED
      BY <1>0, <1>p, <2>1, <2>2, <3>1 DEF Counted
  <2> QED
    BY <2>3, <2>4
<1>4. CASE Load(w)
  <2>1. mutex[b] = {w} /\ written'[b] = written[b] /\ total' = total
    BY <1>4, <1>h DEF Load, Holding
  <2>2. Reserved(b) = 0
    BY <1>0, <1>4, <2>1, ReservedHeld DEF Load
  <2>3. CASE total + chunk[w] > MaxBytes
    <3>1. mutex'[b] = {}
      BY <1>0, <1>4, <2>1, <2>3 DEF Load, Unlock, Types
    <3> QED
      BY <1>0, <1>f, <2>1, <2>2, <3>1 DEF Counted
  <2>4. CASE ~(total + chunk[w] > MaxBytes)
    <3>1. mutex'[b] = {w} /\ pc'[w] = "cas"
      BY <1>0, <1>4, <2>1, <2>4 DEF Load, Goto, Types
    <3> QED
      BY <1>0, <1>p, <2>1, <2>2, <3>1 DEF Counted
  <2> QED
    BY <2>3, <2>4
<1>5. CASE CompareAndSwap(w)
  <2>1. mutex[b] = {w} /\ mutex'[b] = {w} /\ written'[b] = written[b] /\ chunk'[w] = chunk[w]
    BY <1>5, <1>h DEF CompareAndSwap, Holding, bufferVars
  <2>2. Reserved(b) = 0
    BY <1>0, <1>5, <2>1, ReservedHeld DEF CompareAndSwap
  <2>3. CASE total = current[w]
    <3>1. pc'[w] = "store" /\ total' = total + chunk[w]
      BY <1>0, <1>5, <2>3 DEF CompareAndSwap, Goto, Types
    <3>2. total + chunk[w] <= MaxBytes
      BY <1>0, <1>5, <2>3 DEF WriterInv, CompareAndSwap
    <3> QED
      BY <1>0, <1>p, <2>1, <2>2, <3>1, <3>2 DEF Counted
  <2>4. CASE total # current[w]
    <3>1. pc'[w] = "load" /\ total' = total
      BY <1>0, <1>5, <2>4 DEF CompareAndSwap, Goto, Types
    <3> QED
      BY <1>0, <1>p, <2>1, <2>2, <3>1 DEF Counted
  <2> QED
    BY <2>3, <2>4
<1>6. CASE Store(w)
  <2>1. mutex[b] = {w} /\ total' = total
    BY <1>6, <1>h DEF Store, Holding
  <2>2. Reserved(b) = chunk[w]
    BY <1>0, <1>6, <2>1, ReservedHeld DEF Store
  <2>3. mutex'[b] = {}
    BY <1>0, <1>6, <2>1 DEF Store, Unlock, Types
  <2>4. written[b] + chunk[w] <= total
    <3>1. \A a \in Buffers : written[a] \in Nat /\ Reserved(a) \in Nat
      BY <1>0, ReservedNat DEF Types
    <3>2. total = Counted("stdout") + Counted("stderr")
      BY DEF BInv, CounterInv
    <3> QED
      BY <1>0, <2>2, <3>1, <3>2 DEF Counted
  <2>5. written'[b] = written[b] + chunk[w]
    BY <1>0, <1>6, <2>4 DEF Store, Types
  <2> QED
    BY <1>0, <1>f, <2>1, <2>2, <2>3, <2>5 DEF Counted
<1> QED
  BY <1>2, <1>3, <1>4, <1>5, <1>6 DEF WriteStep

\* A reservation is counted when it is made and kept when it is stored.
LEMMA CounterStep ==
  ASSUME BInv, [Next]_vars, Types', MutexInv'
  PROVE  CounterInv'
<1>1. Types /\ MutexInv /\ CounterInv
  BY DEF BInv
<1>2. \A b \in Buffers : Counted(b) \in Nat /\ Counted(b)' \in Nat
  <2>1. \A b \in Buffers : Reserved(b) \in Nat /\ Reserved(b)' \in Nat
    BY <1>1, ReservedNat, ReservedNatNext
  <2>2. \A b \in Buffers : written[b] \in Nat /\ written'[b] \in Nat
    BY <1>1 DEF Types
  <2> QED
    BY <2>1, <2>2 DEF Counted
<1>3. ASSUME NEW w \in Writers, Call(w) PROVE CounterInv'
  <2>1. Counted("stdout")' = Counted("stdout") /\ Counted("stderr")' = Counted("stderr")
    BY <1>1, <1>3, CallBuffers, CountedSame
  <2> QED
    BY <1>1, <1>3, <2>1 DEF CounterInv, Call
<1>4. ASSUME NEW w \in Writers, WriteStep(w) PROVE CounterInv'
  <2>1. shared' = shared /\ target' = target
    BY <1>4 DEF WriteStep, Lock, Test, Load, CompareAndSwap, Store
  <2>2. CASE shared
    <3>1. \A b \in Buffers : b # target[w] => Counted(b)' = Counted(b)
      BY <1>1, <1>4, OtherBuffers, CountedSame
    <3>2. /\ Counted(target[w])' - Counted(target[w]) = total' - total
          /\ total' <= MaxBytes
      BY <1>4, <2>2, CountedOwn
    <3>3. total = Counted("stdout") + Counted("stderr")
      BY <1>1, <2>2 DEF CounterInv
    <3>4. target[w] \in Buffers /\ total \in Nat /\ total' \in Nat
      BY <1>1 DEF Types
    <3>5. total' = Counted("stdout")' + Counted("stderr")'
      <4>1. /\ Counted("stdout") \in Nat /\ Counted("stderr") \in Nat
            /\ Counted("stdout")' \in Nat /\ Counted("stderr")' \in Nat
        BY <1>2
      <4>2. CASE target[w] = "stdout"
        <5>1. Counted(target[w]) = Counted("stdout") /\ Counted(target[w])' = Counted("stdout")'
          BY <2>1, <4>2 DEF Counted
        <5> QED
          BY <3>1, <3>2, <3>3, <3>4, <4>1, <4>2, <5>1
      <4>3. CASE target[w] = "stderr"
        <5>1. Counted(target[w]) = Counted("stderr") /\ Counted(target[w])' = Counted("stderr")'
          BY <2>1, <4>3 DEF Counted
        <5> QED
          BY <3>1, <3>2, <3>3, <3>4, <4>1, <4>3, <5>1
      <4> QED
        BY <3>4, <4>2, <4>3
    <3> QED
      BY <3>2, <3>5 DEF CounterInv
  <2> QED
    BY <2>1, <2>2 DEF CounterInv
<1>5. CASE UNCHANGED vars
  <2>1. SameBuffer("stdout") /\ SameBuffer("stderr")
    BY <1>5 DEF SameBuffer, vars, bufferVars, writerVars
  <2>2. Counted("stdout")' = Counted("stdout") /\ Counted("stderr")' = Counted("stderr")
    BY <1>1, <2>1, CountedSame
  <2> QED
    BY <1>1, <1>5, <2>2 DEF CounterInv, vars
<1> QED
  BY <1>3, <1>4, <1>5 DEF Next

-----------------------------------------------------------------------------
(* The invariant. *)

\* At first nothing is kept, reserved or offered.
LEMMA InitBInv == Init => BInv
<1> SUFFICES ASSUME Init PROVE BInv
  OBVIOUS
<1>1. Types
  BY DEF Init, Types
<1>2. MutexInv
  BY <1>1 DEF Init, MutexInv, Holding
<1>3. CounterInv
  <2>1. Reserved("stdout") = 0 /\ Reserved("stderr") = 0
    BY ReservedFree DEF Init
  <2> QED
    BY <2>1, MaxBytesAssumption DEF Init, CounterInv, Counted
<1>4. \A w \in Writers : WriterInv(w)
  BY DEF Init, WriterInv
<1>5. \A b \in Buffers : BufferInv(b)
  BY MaxBytesAssumption DEF Init, BufferInv
<1> QED
  BY <1>1, <1>2, <1>3, <1>4, <1>5 DEF BInv

\* Every step keeps the invariant.
LEMMA StepBInv == BInv /\ [Next]_vars => BInv'
<1> SUFFICES ASSUME BInv, [Next]_vars PROVE BInv'
  OBVIOUS
<1>1. Types' /\ MutexInv'
  BY TypesStep, MutexStep DEF BInv
<1>2. CounterInv'
  BY <1>1, CounterStep
<1>3. \A w \in Writers : WriterInv(w)'
  BY WritersStep
<1>4. \A b \in Buffers : BufferInv(b)'
  BY BuffersStep
<1> QED
  BY <1>1, <1>2, <1>3, <1>4 DEF BInv

\* The invariant holds in every state of LimitedBuffer's Write and CanWrite.
THEOREM BufferInvariant == Spec => []BInv
BY InitBInv, StepBInv, PTL DEF Spec

\* The variables keep their types, and a buffer's mutex has one holder at most.
THEOREM BufferTypes == Spec => []TypeOK
<1>1. BInv => TypeOK
  <2> SUFFICES ASSUME BInv PROVE TypeOK
    OBVIOUS
  <2>1. Types /\ MutexInv
    BY DEF BInv
  <2>2. \A b \in Buffers : \A v, w \in mutex[b] : v = w
    BY <2>1, OneHolder
  <2> QED
    BY <2>1, <2>2 DEF Types, TypeOK
<1> QED
  BY <1>1, BufferInvariant, PTL

\* However many writers there are, no buffer outgrows the limit, nor do the two
\* together when they share the counter.
THEOREM LimitIsKept == Spec => []LimitHolds
<1>1. BInv => LimitHolds
  <2> SUFFICES ASSUME BInv PROVE LimitHolds
    OBVIOUS
  <2>1. \A b \in Buffers : written[b] <= MaxBytes
    BY DEF BInv, BufferInv
  <2>2. \A b \in Buffers : written[b] \in Nat /\ Reserved(b) \in Nat
    BY ReservedNat DEF BInv, Types
  <2>3. shared => written["stdout"] + written["stderr"] <= MaxBytes
    BY <2>2, MaxBytesAssumption DEF BInv, CounterInv, Counted, Types
  <2> QED
    BY <2>1, <2>3 DEF LimitHolds
<1> QED
  BY <1>1, BufferInvariant, PTL

\* With no reservation outstanding the shared counter is what the buffers keep.
THEOREM CounterIsExact == Spec => []CounterExact
<1>1. BInv => CounterExact
  <2> SUFFICES ASSUME BInv, shared, \A w \in Writers : pc[w] # "store"
               PROVE  total = written["stdout"] + written["stderr"]
    BY DEF CounterExact
  <2>1. \A b \in Buffers : Storing(b) = {}
    BY DEF Storing, BInv, Types
  <2>2. \A b \in Buffers : Reserved(b) = 0 /\ written[b] \in Nat
    BY <2>1 DEF Reserved, BInv, Types
  <2> QED
    BY <2>2 DEF BInv, CounterInv, Counted
<1> QED
  BY <1>1, BufferInvariant, PTL

\* An unlocked buffer's truncated flag says exactly whether Write dropped bytes.
THEOREM TruncationIsReported == Spec => []TruncatedExact
<1>1. BInv => TruncatedExact
  BY DEF BInv, BufferInv, TruncatedExact
<1> QED
  BY <1>1, BufferInvariant, PTL

\* After the first dropped byte a buffer never changes again.
THEOREM TruncationIsFinal == Spec => TruncatedIsFinal
<1> DEFINE Final == \A b \in Buffers : truncated[b] => truncated'[b] /\ written'[b] = written[b]
<1>1. ASSUME BInv, [Next]_vars, NEW b \in Buffers, truncated[b]
      PROVE  truncated'[b] /\ written'[b] = written[b]
  <2>1. ASSUME NEW w \in Writers, Call(w) PROVE truncated'[b] /\ written'[b] = written[b]
    BY <1>1, <2>1 DEF Call, bufferVars
  <2>2. ASSUME NEW w \in Writers, WriteStep(w) PROVE truncated'[b] /\ written'[b] = written[b]
    <3>1. CASE b # target[w]
      BY <1>1, <2>2, <3>1, OtherBuffers DEF SameBuffer, BInv
    <3>2. CASE b = target[w]
      <4>1. WriterInv(w)
        BY <1>1 DEF BInv
      <4>2. pc[w] \notin {"load", "cas", "store"}
        BY <1>1, <3>2, <4>1 DEF WriterInv
      <4> QED
        BY <1>1, <2>2, <3>2, <4>2 DEF WriteStep, Lock, Test, Load, CompareAndSwap, Store
    <3> QED
      BY <3>1, <3>2
  <2>3. CASE UNCHANGED vars
    BY <1>1, <2>3 DEF vars, bufferVars
  <2> QED
    BY <1>1, <2>1, <2>2, <2>3 DEF Next
<1>2. BInv /\ [Next]_vars => [Final]_vars
  BY <1>1
<1> QED
  BY <1>2, BufferInvariant, PTL DEF Spec, TruncatedIsFinal
=============================================================================

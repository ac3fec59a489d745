---------------------------- MODULE LimitedBuffer ----------------------------
(***************************************************************************)
(* executor.LimitedBuffer and executor.SharedCounter: writers on any       *)
(* goroutine, a mutex per buffer, and one lock-free counter the buffers of *)
(* a command may share.  A chunk is known by its length alone; what a      *)
(* buffer keeps is a prefix of what it was offered, so lengths say all.    *)
(***************************************************************************)
EXTENDS Integers

CONSTANTS
  Writers,      \* goroutines calling Write
  MaxBytes,     \* maxBytes of the buffers and of the counter
  MaxChunk,     \* bound: length of a chunk
  MaxWrites     \* bound: calls of Write by one goroutine

ASSUME MaxBytesAssumption == MaxBytes \in Nat
ASSUME MaxChunkAssumption == MaxChunk \in Nat
ASSUME MaxWritesAssumption == MaxWrites \in Nat

VARIABLES
  shared,     \* whether SetSharedCounter was called on the buffers
  total,      \* SharedCounter.total
  written,    \* written[b]: bytesWritten, also the length of the bytes.Buffer
  truncated,  \* truncated[b]
  offered,    \* offered[b]: bytes passed to Write, in the order of the mutex
  mutex,      \* mutex[b]: the set of holders of b's mutex
  pc,         \* pc[w]: where writer w is
  target,     \* target[w]: the buffer it writes to
  chunk,      \* chunk[w]: len(p)
  current,    \* current[w]: the total CanWrite loaded
  calls       \* calls[w]: Writes begun

bufferVars == <<written, truncated, offered, mutex>>
writerVars == <<pc, target, chunk, current, calls>>
vars == <<shared, total, bufferVars, writerVars>>

Buffers == {"stdout", "stderr"}     \* the two of Execute

Goto(w, l) == pc' = [pc EXCEPT ![w] = l]

\* Write returns; its locals are gone.
Unlock(w) == /\ Goto(w, "idle")
             /\ mutex' = [mutex EXCEPT ![target[w]] = @ \ {w}]
             /\ chunk' = [chunk EXCEPT ![w] = 0]
             /\ current' = [current EXCEPT ![w] = 0]

-----------------------------------------------------------------------------
Init ==
  /\ shared \in BOOLEAN
  /\ total = 0
  /\ written = [b \in Buffers |-> 0]
  /\ truncated = [b \in Buffers |-> FALSE]
  /\ offered = [b \in Buffers |-> 0]
  /\ mutex = [b \in Buffers |-> {}]
  /\ pc = [w \in Writers |-> "idle"]
  /\ target \in [Writers -> Buffers]
  /\ chunk = [w \in Writers |-> 0]
  /\ current = [w \in Writers |-> 0]
  /\ calls = [w \in Writers |-> 0]

\* Write is called; it waits for the mutex.
Call(w) ==
  /\ pc[w] = "idle" /\ calls[w] < MaxWrites
  /\ \E n \in 0..MaxChunk : chunk' = [chunk EXCEPT ![w] = n]
  /\ calls' = [calls EXCEPT ![w] = @ + 1]
  /\ Goto(w, "lock")
  /\ UNCHANGED <<shared, total, bufferVars, target, current>>

LockNothing(w) ==    \* mutant: Write without the mutex
  /\ pc[w] = "lock"
  /\ mutex' = [mutex EXCEPT ![target[w]] = @ \cup {w}]
  /\ offered' = [offered EXCEPT ![target[w]] = @ + chunk[w]]
  /\ Goto(w, "test")
  /\ UNCHANGED <<shared, total, written, truncated, target, chunk, current, calls>>

Lock(w) ==
  /\ pc[w] = "lock" /\ mutex[target[w]] = {}
  /\ mutex' = [mutex EXCEPT ![target[w]] = {w}]
  /\ offered' = [offered EXCEPT ![target[w]] = @ + chunk[w]]
  /\ Goto(w, "test")
  /\ UNCHANGED <<shared, total, written, truncated, target, chunk, current, calls>>

TestNothing(w) ==    \* mutant: the test of truncated is missing
  /\ pc[w] = "test"
  /\ Goto(w, IF shared THEN "load" ELSE "store")
  /\ UNCHANGED <<shared, total, bufferVars, target, chunk, current, calls>>

TestKeepsMutex(w) ==    \* mutant: a discarding Write returns without unlocking
  /\ pc[w] = "test"
  /\ Goto(w, IF truncated[target[w]] THEN "idle" ELSE IF shared THEN "load" ELSE "store")
  /\ UNCHANGED <<shared, total, bufferVars, target, chunk, current, calls>>

\* A truncated buffer discards: the call claims to have written everything.
Test(w) ==
  /\ pc[w] = "test"
  /\ IF truncated[target[w]]
       THEN Unlock(w)
       ELSE Goto(w, IF shared THEN "load" ELSE "store") /\ UNCHANGED <<mutex, chunk, current>>
  /\ UNCHANGED <<shared, total, written, truncated, offered, target, calls>>

-----------------------------------------------------------------------------
(* CanWrite *)

\* A refused chunk truncates the buffer it was for, not the others.
Load(w) ==
  /\ pc[w] = "load"
  /\ IF total + chunk[w] > MaxBytes
       THEN /\ truncated' = [truncated EXCEPT ![target[w]] = TRUE]
            /\ Unlock(w)
       ELSE /\ current' = [current EXCEPT ![w] = total]
            /\ Goto(w, "cas")
            /\ UNCHANGED <<truncated, mutex, chunk>>
  /\ UNCHANGED <<shared, total, written, offered, target, calls>>

StoreTotal(w) ==    \* mutant: a plain store instead of the compare-and-swap
  /\ pc[w] = "cas"
  /\ total' = current[w] + chunk[w]
  /\ Goto(w, "store")
  /\ UNCHANGED <<shared, bufferVars, target, chunk, current, calls>>

\* A compare-and-swap that finds another value goes back to the load.
CompareAndSwap(w) ==
  /\ pc[w] = "cas"
  /\ IF total = current[w]
       THEN total' = current[w] + chunk[w] /\ Goto(w, "store")
       ELSE Goto(w, "load") /\ UNCHANGED total
  /\ UNCHANGED <<shared, bufferVars, target, chunk, current, calls>>

-----------------------------------------------------------------------------
StoreForgets(w) ==    \* mutant: a partial write does not set truncated
  /\ pc[w] = "store"
  /\ LET b == target[w] IN
       /\ written' = [written EXCEPT ![b] = IF @ + chunk[w] > MaxBytes THEN MaxBytes
                                                                      ELSE @ + chunk[w]]
       /\ UNCHANGED truncated
  /\ Unlock(w)
  /\ UNCHANGED <<shared, total, offered, target, calls>>

\* The buffer's own limit: only what fits is kept.
Store(w) ==
  /\ pc[w] = "store"
  /\ LET b == target[w] IN
       IF written[b] + chunk[w] > MaxBytes
         THEN /\ written' = [written EXCEPT ![b] = MaxBytes]
              /\ truncated' = [truncated EXCEPT ![b] = TRUE]
         ELSE written' = [written EXCEPT ![b] = @ + chunk[w]] /\ UNCHANGED truncated
  /\ Unlock(w)
  /\ UNCHANGED <<shared, total, offered, target, calls>>

WriteStep(w) == Lock(w) \/ Test(w) \/ Load(w) \/ CompareAndSwap(w) \/ Store(w)

Next == \E w \in Writers : Call(w) \/ WriteStep(w)

Spec == Init /\ [][Next]_vars

\* Goroutines run; nobody has to call Write.
FairSpec == Spec /\ \A w \in Writers : WF_vars(WriteStep(w))

-----------------------------------------------------------------------------
(* Properties. *)

\* Every variable holds a value of its kind, and no mutex has two holders.
TypeOK ==
  /\ shared \in BOOLEAN
  /\ total \in Nat
  /\ written \in [Buffers -> Nat]
  /\ truncated \in [Buffers -> BOOLEAN]
  /\ offered \in [Buffers -> Nat]
  /\ mutex \in [Buffers -> SUBSET Writers]
  /\ \A b \in Buffers : \A v, w \in mutex[b] : v = w
  /\ pc \in [Writers -> {"idle", "lock", "test", "load", "cas", "store"}]
  /\ target \in [Writers -> Buffers]
  /\ chunk \in [Writers -> Nat]
  /\ current \in [Writers -> Nat]
  /\ calls \in [Writers -> Nat]

\* However the writers interleave, no buffer keeps more than the limit, and
\* buffers that share the counter keep no more than the limit together.
LimitHolds ==
  /\ \A b \in Buffers : written[b] <= MaxBytes
  /\ shared => written["stdout"] + written["stderr"] <= MaxBytes

\* The shared counter is never spent on bytes that were not kept: when no
\* Write is between its reservation and its store, it counts what is kept.
CounterExact ==
  shared /\ (\A w \in Writers : pc[w] # "store") =>
    total = written["stdout"] + written["stderr"]

\* Whenever a buffer is unlocked, truncated says whether it lacks anything it
\* was offered: nothing is dropped silently.
TruncatedExact ==
  \A b \in Buffers : mutex[b] = {} => (truncated[b] <=> written[b] < offered[b])

\* Nothing follows a gap: a truncated buffer stays so and keeps what it has.
TruncatedIsFinal ==
  [][\A b \in Buffers : truncated[b] => truncated'[b] /\ written'[b] = written[b]]_vars

\* A Write returns, whatever the other buffer's writer does to the counter.
WriteReturns == \A w \in Writers : pc[w] = "lock" ~> pc[w] = "idle"
=============================================================================

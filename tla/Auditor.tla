------------------------------ MODULE Auditor ------------------------------
(***************************************************************************)
(* internal/auditor: a bounded queue, one writer goroutine that appends to *)
(* a log file and rotates it, and a Close with a time limit.               *)
(*                                                                         *)
(* Entries are numbered in the order of the Log calls.  A file is the      *)
(* sequence of its lines: e for entry e, 0 for the fragment a failed write *)
(* left, -e for an entry written behind such a fragment, on the same line. *)
(* File 0 is the log, file i is log.i.  Any file operation may fail and    *)
(* the process may stop at any step and start again on the same files.     *)
(***************************************************************************)
EXTENDS Integers, Sequences, FiniteSets

CONSTANTS
  Capacity,        \* buffer of the channel (1000 in the code)
  MaxSize,         \* lines that make a file due for rotation
  RotationCount,   \* rotationCount
  MaxLogs,         \* bound: Log calls
  MaxFaults,       \* bound: failed file operations
  MaxRestarts      \* bound: restarts of the process

ASSUME CapacityAssumption == Capacity \in Nat \ {0}
ASSUME MaxSizeAssumption == MaxSize \in Nat
ASSUME RotationAssumption == RotationCount \in Nat
ASSUME BoundsAssumption == MaxLogs \in Nat /\ MaxFaults \in Nat /\ MaxRestarts \in Nat

VARIABLES
  logged,      \* how many entries were passed to Log
  channel,     \* the queue
  disk,        \* the existing files, as a partial function
  writer,      \* where writerLoop is
  entry,       \* the entry it is writing
  draining,    \* whether it has seen the cancelled context
  index,       \* i of rotateLog's loop
  cancelled,   \* a.ctx is done
  closer,      \* where Close is
  mark,        \* entries logged before Close was called
  written,     \* entries whose Write succeeded
  lost,        \* entries dropped, given up or gone with the process
  faults, restarts

queueVars  == <<logged, channel>>
writerVars == <<writer, entry, draining, index>>
closeVars  == <<cancelled, closer, mark>>
vars == <<queueVars, disk, writerVars, closeVars, written, lost, faults, restarts>>

\* rotateLog moves the log to .1 even when rotationCount is 0.
LastFile == IF RotationCount = 0 THEN 1 ELSE RotationCount
Files    == 0..LastFile
Queued   == {channel[k] : k \in 1..Len(channel)}

-----------------------------------------------------------------------------
(* File operations. *)

\* mutant: the file is copied and stays
Copy(i) == [k \in DOMAIN disk \cup {i + 1} |-> IF k = i + 1 THEN disk[i] ELSE disk[k]]

\* os.Rename onto i + 1, whatever was there
Rename(i) == [k \in (DOMAIN disk \ {i}) \cup {i + 1} |->
                IF k = i + 1 THEN disk[i] ELSE disk[k]]

CreatedEmpty == [k \in DOMAIN disk \cup {0} |-> IF k = 0 THEN <<>> ELSE disk[k]]   \* mutant

\* O_CREATE and O_APPEND
Created == [k \in DOMAIN disk \cup {0} |-> IF k \in DOMAIN disk THEN disk[k] ELSE <<>>]

\* A line is spoiled when the file ends in a fragment without newline.
AfterFragment(f) == f # <<>> /\ f[Len(f)] = 0
Written(e) == [disk EXCEPT ![0] = Append(@, IF AfterFragment(@) THEN -e ELSE e)]

AlwaysRoom == TRUE           \* mutant: the buffer grows instead
NoDrain    == "exited"       \* mutant: leaves without draining

Room        == Len(channel) < Capacity
AfterCancel == "drain"

-----------------------------------------------------------------------------
Init ==
  /\ logged = 0 /\ channel = <<>>
  /\ disk = [k \in {} |-> <<>>]
  /\ writer = "select" /\ entry = 0 /\ draining = FALSE /\ index = 0
  /\ cancelled = FALSE /\ closer = "open" /\ mark = 0
  /\ written = {} /\ lost = {}
  /\ faults = 0 /\ restarts = 0

\* Log never blocks: an entry that finds the channel full is dropped.
Log ==
  /\ logged < MaxLogs
  /\ logged' = logged + 1
  /\ IF Room
       THEN channel' = Append(channel, logged') /\ UNCHANGED lost
       ELSE lost' = lost \cup {logged'} /\ UNCHANGED channel
  /\ UNCHANGED <<disk, writerVars, closeVars, written, faults, restarts>>

-----------------------------------------------------------------------------
(* writerLoop *)

\* Receive from the channel, in the select or in the drain loop.
Receive ==
  /\ writer \in {"select", "drain"} /\ channel # <<>>
  /\ entry' = Head(channel) /\ channel' = Tail(channel)
  /\ writer' = "open"
  /\ UNCHANGED <<logged, disk, draining, index, closeVars, written, lost, faults, restarts>>

\* The select may take this branch while entries are queued.
SeeCancel ==
  /\ writer = "select" /\ cancelled
  /\ writer' = AfterCancel /\ draining' = TRUE
  /\ UNCHANGED <<queueVars, disk, entry, index, closeVars, written, lost, faults, restarts>>

DrainEnds ==
  /\ writer = "drain" /\ channel = <<>>
  /\ writer' = "exited"
  /\ UNCHANGED <<queueVars, disk, entry, draining, index, closeVars, written, lost, faults, restarts>>

BackToLoop == /\ writer' = IF draining THEN "drain" ELSE "select"
              /\ entry' = 0

\* Open for append and Stat; the loop of rotateLog starts at the oldest pair.
OpenLog ==
  /\ writer = "open"
  /\ disk' = Created
  /\ IF Len(disk'[0]) >= MaxSize
       THEN /\ index' = RotationCount - 1
            /\ writer' = IF RotationCount - 1 >= 1 THEN "shift" ELSE "current"
       ELSE writer' = "write" /\ UNCHANGED index
  /\ UNCHANGED <<queueVars, entry, draining, closeVars, written, lost, faults, restarts>>

\* One turn of the loop: log.i becomes log.(i+1); a missing log.i is skipped.
Shift ==
  /\ writer = "shift"
  /\ disk' = IF index \in DOMAIN disk THEN Rename(index) ELSE disk
  /\ index' = index - 1
  /\ writer' = IF index - 1 >= 1 THEN "shift" ELSE "current"
  /\ UNCHANGED <<queueVars, entry, draining, closeVars, written, lost, faults, restarts>>

\* log becomes log.1
MoveCurrent ==
  /\ writer = "current"
  /\ disk' = Rename(0)
  /\ writer' = "reopen"
  /\ UNCHANGED <<queueVars, entry, draining, index, closeVars, written, lost, faults, restarts>>

Reopen ==
  /\ writer = "reopen"
  /\ disk' = Created
  /\ writer' = "write"
  /\ UNCHANGED <<queueVars, entry, draining, index, closeVars, written, lost, faults, restarts>>

WriteLine ==
  /\ writer = "write"
  /\ disk' = Written(entry)
  /\ written' = written \cup {entry}
  /\ BackToLoop
  /\ UNCHANGED <<queueVars, draining, index, closeVars, lost, faults, restarts>>

FailIgnoresRename ==    \* mutant: the loop of rotateLog goes on after a failed rename
  /\ faults < MaxFaults /\ faults' = faults + 1
  /\ writer = "shift"
  /\ index' = index - 1 /\ writer' = IF index - 1 >= 1 THEN "shift" ELSE "current"
  /\ UNCHANGED <<queueVars, disk, entry, draining, closeVars, written, lost, restarts>>

\* Any failed operation makes writeEntry return: the entry is lost.  A failed
\* Write may have left a fragment; a failed Stat only skips the rotation.
Fail ==
  /\ faults < MaxFaults /\ faults' = faults + 1
  /\ \/ /\ writer \in {"open", "shift", "current", "reopen", "write"}
        /\ lost' = lost \cup {entry}
        /\ BackToLoop
        /\ disk' \in IF writer = "write" THEN {disk, [disk EXCEPT ![0] = Append(@, 0)]}
                                         ELSE {disk}
     \/ /\ writer = "open"
        /\ disk' = Created
        /\ writer' = "write"
        /\ UNCHANGED <<lost, entry>>
  /\ UNCHANGED <<queueVars, draining, index, closeVars, written, restarts>>

-----------------------------------------------------------------------------
(* Close, and the end of the process. *)

Close ==
  /\ closer = "open"
  /\ cancelled' = TRUE /\ closer' = "waiting" /\ mark' = logged
  /\ UNCHANGED <<queueVars, disk, writerVars, written, lost, faults, restarts>>

CloseReturns ==
  /\ closer = "waiting" /\ writer = "exited"
  /\ closer' = "returned"
  /\ UNCHANGED <<queueVars, disk, writerVars, cancelled, mark, written, lost, faults, restarts>>

\* The five seconds are over.
CloseTimesOut ==
  /\ closer = "waiting"
  /\ closer' = "timedOut"
  /\ UNCHANGED <<queueVars, disk, writerVars, cancelled, mark, written, lost, faults, restarts>>

\* The process ends, by a crash or after Close, and NewAuditor runs again.
Restart ==
  /\ restarts < MaxRestarts /\ restarts' = restarts + 1
  /\ lost' = lost \cup Queued \cup ({entry} \ {0})
  /\ channel' = <<>>
  /\ writer' = "select" /\ entry' = 0 /\ draining' = FALSE /\ index' = 0
  /\ cancelled' = FALSE /\ closer' = "open" /\ mark' = 0
  /\ UNCHANGED <<logged, disk, written, faults>>

WriterStep == \/ Receive \/ SeeCancel \/ DrainEnds \/ OpenLog \/ Shift \/ MoveCurrent
              \/ Reopen \/ WriteLine

Next == Log \/ WriterStep \/ Fail \/ Close \/ CloseReturns \/ CloseTimesOut \/ Restart

Spec == Init /\ [][Next]_vars

-----------------------------------------------------------------------------
(* Properties. *)

\* Every variable holds a value of its kind.  The queue is never longer than
\* the channel's buffer, there are never more files than the rotation keeps, and
\* the log grows past its size only by one line per failed Stat.
TypeOK ==
  /\ logged \in 0..MaxLogs
  /\ channel \in Seq(1..MaxLogs) /\ Len(channel) <= Capacity
  /\ DOMAIN disk \subseteq Files
  /\ \A k \in DOMAIN disk :
       /\ disk[k] \in Seq(-MaxLogs..MaxLogs)
       /\ Len(disk[k]) <= (IF MaxSize = 0 THEN 1 ELSE MaxSize) + faults
  /\ writer \in {"select", "drain", "open", "shift", "current", "reopen", "write", "exited"}
  /\ entry \in 0..MaxLogs
  /\ draining \in BOOLEAN
  /\ index \in -1..RotationCount
  /\ cancelled \in BOOLEAN
  /\ closer \in {"open", "waiting", "returned", "timedOut"}
  /\ mark \in 0..MaxLogs
  /\ written \subseteq 1..MaxLogs /\ lost \subseteq 1..MaxLogs
  /\ faults \in 0..MaxFaults /\ restarts \in 0..MaxRestarts

\* Reading log.N, ..., log.1, log gives the readable entries in the order they
\* were logged and none twice, at every step of a rotation, after a rotation
\* that failed half-way, and after a restart in the middle of one.
Entries(k) == {disk[k][n] : n \in 1..Len(disk[k])} \cap 1..MaxLogs
TrailOrdered ==
  /\ \A k \in DOMAIN disk : \A m, n \in 1..Len(disk[k]) :
       m < n /\ disk[k][m] > 0 /\ disk[k][n] > 0 => disk[k][m] < disk[k][n]
  /\ \A j, k \in DOMAIN disk : j < k => \A e \in Entries(k), f \in Entries(j) : e < f

\* Rotation forgets only the oldest: a written entry no file holds any more is
\* older than every entry on disk, and was pushed out by a full set of files.
OnDisk == (UNION {{IF disk[k][n] < 0 THEN -disk[k][n] ELSE disk[k][n] :
                    n \in 1..Len(disk[k])} : k \in DOMAIN disk}) \ {0}
OnlyOldestForgotten ==
  /\ OnDisk \subseteq written
  /\ \A e \in written \ OnDisk : \A f \in OnDisk : e < f

\* When Close returns without the time limit, every entry accepted before the
\* call was written or given up because of a failed operation: the drain loop
\* leaves none of them behind.
DrainedOnClose ==
  closer = "returned" => \A e \in 1..mark : e \in written \cup lost
=============================================================================

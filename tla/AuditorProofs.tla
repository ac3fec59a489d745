---------------------------- MODULE AuditorProofs ----------------------------
(***************************************************************************)
(* What Auditor claims of the queue, of the files and of Close, for any    *)
(* capacity, file size and number of files, of entries, of failed          *)
(* operations and of restarts: facts about the file operations, the        *)
(* inductive invariant AInv, part by part, and the theorems that follow.   *)
(***************************************************************************)
EXTENDS Auditor, SequenceTheorems, TLAPS

-----------------------------------------------------------------------------
(* The inductive invariant. *)

\* The number of the entry a line holds, readable or not; 0 for none
Number(x) == IF x < 0 THEN -x ELSE x

Busy == writer \in {"open", "shift", "current", "reopen", "write"}

\* The writer holds an entry while it writes it.
EntryInv == IF Busy THEN entry > 0 ELSE entry = 0

\* Entries go through queue, writer and file in the order they were logged.
QueueInv ==
  /\ \A k \in 1..Len(channel) : channel[k] \in 1..logged /\ entry < channel[k]
  /\ \A k, m \in 1..Len(channel) : k < m => channel[k] < channel[m]
  /\ entry <= logged
  /\ \A e \in written : /\ e <= logged /\ (Busy => e < entry)
                        /\ \A k \in 1..Len(channel) : e < channel[k]

\* rotateLog has a log to move, and a place to move each file to: the place is
\* free, or the oldest file's.
RotationInv ==
  /\ writer \in {"shift", "current", "write"} => 0 \in DOMAIN disk
  /\ writer = "shift" => /\ index \in 1..RotationCount - 1
                         /\ index + 1 = RotationCount \/ index + 1 \notin DOMAIN disk
  /\ writer = "current" => LastFile = 1 \/ 1 \notin DOMAIN disk
  /\ writer = "reopen" => 0 \notin DOMAIN disk

\* The log that is written has room for a line, but for a failed Stat.
SizeInv == writer = "write" => Len(disk[0]) < (IF MaxSize = 0 THEN 1 ELSE MaxSize) + faults

\* Only a log that is due is rotated.
DueInv == writer \in {"shift", "current"} => Len(disk[0]) >= MaxSize

\* The lines hold written entries, in order within a file and across files.
LinesInv ==
  /\ \A k \in DOMAIN disk : \A n \in 1..Len(disk[k]) :
       disk[k][n] = 0 \/ Number(disk[k][n]) \in written
  /\ \A k \in DOMAIN disk : \A m, n \in 1..Len(disk[k]) :
       m < n /\ disk[k][m] # 0 /\ disk[k][n] # 0 => Number(disk[k][m]) < Number(disk[k][n])
  /\ \A j, k \in DOMAIN disk : j < k =>
       \A m \in 1..Len(disk[j]), n \in 1..Len(disk[k]) :
         disk[j][m] # 0 /\ disk[k][n] # 0 => Number(disk[k][n]) < Number(disk[j][m])

\* An entry is somewhere, whatever became of it.
AccountInv == \A e \in 1..logged : e \in written \cup lost \cup Queued \cup {entry}

\* The writer leaves only after Close, and what it leaves behind came later.
CloseInv ==
  /\ draining => cancelled
  /\ writer \in {"drain", "exited"} => draining
  /\ closer = "open" <=> ~cancelled
  /\ mark <= logged
  /\ writer = "exited" => \A k \in 1..Len(channel) : mark < channel[k]
  /\ closer = "returned" => writer = "exited"

AInv == /\ TypeOK /\ EntryInv /\ QueueInv /\ RotationInv /\ SizeInv /\ DueInv
        /\ LinesInv /\ OnlyOldestForgotten /\ AccountInv /\ CloseInv

-----------------------------------------------------------------------------
(* The ways an operation can fail, and what operations do to queue and files. *)

Faulty == /\ faults < MaxFaults /\ faults' = faults + 1
          /\ UNCHANGED <<queueVars, draining, index, closeVars, written, restarts>>

\* An operation before the write fails, or the write leaves nothing.
GivesUp == Faulty /\ Busy /\ lost' = lost \cup {entry} /\ BackToLoop /\ disk' = disk

\* The write leaves a fragment.
Tears == /\ Faulty /\ writer = "write" /\ lost' = lost \cup {entry} /\ BackToLoop
         /\ disk' = [disk EXCEPT ![0] = Append(@, 0)]

\* Stat fails, and there is no rotation.
SkipsStat == /\ Faulty /\ writer = "open" /\ disk' = Created /\ writer' = "write"
             /\ UNCHANGED <<lost, entry>>

\* Fail is one of the three.
LEMMA FailCases == Fail => GivesUp \/ Tears \/ SkipsStat
<1> SUFFICES ASSUME Fail PROVE GivesUp \/ Tears \/ SkipsStat
  OBVIOUS
<1>1. Faulty
  BY DEF Fail, Faulty
<1>2. CASE /\ Busy /\ lost' = lost \cup {entry} /\ BackToLoop
           /\ disk' \in IF writer = "write" THEN {disk, [disk EXCEPT ![0] = Append(@, 0)]}
                                            ELSE {disk}
  BY <1>1, <1>2 DEF GivesUp, Tears
<1>3. CASE /\ writer = "open" /\ disk' = Created /\ writer' = "write"
           /\ UNCHANGED <<lost, entry>>
  BY <1>1, <1>3 DEF SkipsStat
<1> QED
  BY <1>2, <1>3 DEF Fail, Busy

\* Log puts the new entry at the end of the queue or drops it.
LEMMA Enqueued ==
  ASSUME AInv, Log
  PROVE  \/ /\ channel' \in Seq(1..MaxLogs) /\ Len(channel') = Len(channel) + 1
            /\ Len(channel') <= Capacity /\ channel'[Len(channel) + 1] = logged + 1
            /\ \A k \in 1..Len(channel) : channel'[k] = channel[k]
            /\ lost' = lost
         \/ channel' = channel /\ lost' = lost \cup {logged + 1}
<1>1. /\ channel \in Seq(1..MaxLogs) /\ Len(channel) \in Nat
      /\ logged + 1 \in 1..MaxLogs /\ logged' = logged + 1
  BY LenProperties, BoundsAssumption DEF AInv, TypeOK, Log
<1>2. CASE Room
  <2>1. channel' = Append(channel, logged + 1) /\ lost' = lost
    BY <1>1, <1>2 DEF Log
  <2>2. Len(channel) + 1 <= Capacity
    BY <1>1, <1>2, CapacityAssumption DEF Room
  <2> QED
    BY <1>1, <2>1, <2>2, AppendProperties
<1>3. CASE ~Room
  BY <1>1, <1>3 DEF Log
<1> QED
  BY <1>2, <1>3

\* The writer takes the oldest entry of the queue.
LEMMA Dequeued ==
  ASSUME AInv, Receive
  PROVE  /\ channel' \in Seq(1..MaxLogs) /\ Len(channel) \in Nat /\ 1 \in 1..Len(channel)
         /\ entry' = channel[1] /\ Len(channel') = Len(channel) - 1
         /\ \A k \in 1..Len(channel') : channel'[k] = channel[k + 1]
<1>1. channel \in Seq(1..MaxLogs) /\ channel # <<>>
  BY DEF AInv, TypeOK, Receive
<1>2. Len(channel) \in Nat /\ Len(channel) # 0
  BY <1>1, LenProperties, EmptySeq
<1> QED
  BY <1>1, <1>2, HeadTailProperties DEF Receive

\* Where the file at k was before file i was renamed
Origin(i, k) == IF k = i + 1 THEN i ELSE k

\* A rename keeps the order of the files and changes none of them.
LEMMA Renamed ==
  ASSUME AInv, NEW i \in DOMAIN disk, disk' = Rename(i)
  PROVE  /\ i \in Nat /\ DOMAIN disk \subseteq Nat
         /\ DOMAIN disk' = (DOMAIN disk \ {i}) \cup {i + 1}
         /\ \A k \in DOMAIN disk' : /\ Origin(i, k) \in DOMAIN disk
                                    /\ disk'[k] = disk[Origin(i, k)]
         /\ \A j, k \in DOMAIN disk' : j < k => Origin(i, j) < Origin(i, k)
<1>1. i \in Nat /\ DOMAIN disk \subseteq Nat
  BY RotationAssumption DEF AInv, TypeOK, Files, LastFile
<1>2. DOMAIN disk' = (DOMAIN disk \ {i}) \cup {i + 1}
  BY DEF Rename
<1>3. \A k \in DOMAIN disk' : Origin(i, k) \in DOMAIN disk /\ disk'[k] = disk[Origin(i, k)]
  BY <1>2 DEF Rename, Origin
<1>4. \A j, k \in DOMAIN disk' : j < k => Origin(i, j) < Origin(i, k)
  BY <1>1, <1>2 DEF Origin
<1> QED
  BY <1>1, <1>2, <1>3, <1>4

\* Opening for append adds at most an empty log.
LEMMA Opened ==
  ASSUME disk' = Created
  PROVE  /\ DOMAIN disk' = DOMAIN disk \cup {0}
         /\ \A k \in DOMAIN disk : disk'[k] = disk[k]
         /\ \A k \in DOMAIN disk' : k \in DOMAIN disk \/ disk'[k] = <<>>
         /\ 0 \notin DOMAIN disk => disk'[0] = <<>>
BY DEF Created

\* What follows is said of a log that gets the line x.
Adds(x) == disk' = [disk EXCEPT ![0] = Append(@, x)]

\* The other files and the earlier lines stay.
LEMMA Added ==
  ASSUME AInv, writer = "write", NEW x \in -MaxLogs..MaxLogs, Adds(x)
  PROVE  /\ DOMAIN disk' = DOMAIN disk /\ 0 \in DOMAIN disk /\ DOMAIN disk \subseteq Nat
         /\ \A k \in DOMAIN disk \ {0} : disk'[k] = disk[k]
         /\ disk'[0] \in Seq(-MaxLogs..MaxLogs)
         /\ Len(disk[0]) \in Nat /\ Len(disk'[0]) = Len(disk[0]) + 1
         /\ disk'[0][Len(disk[0]) + 1] = x
         /\ \A n \in 1..Len(disk[0]) : disk'[0][n] = disk[0][n]
<1>1. 0 \in DOMAIN disk /\ disk[0] \in Seq(-MaxLogs..MaxLogs)
  BY DEF AInv, TypeOK, RotationInv
<1>2. DOMAIN disk \subseteq Nat
  BY RotationAssumption DEF AInv, TypeOK, Files, LastFile
<1>3. disk'[0] = Append(disk[0], x)
  BY <1>1 DEF Adds
<1>4. DOMAIN disk' = DOMAIN disk /\ \A k \in DOMAIN disk \ {0} : disk'[k] = disk[k]
  BY DEF Adds
<1> QED
  BY <1>1, <1>2, <1>3, <1>4, AppendProperties, LenProperties

\* The line of an entry holds its number, readable or not.
LEMMA LineWritten ==
  ASSUME AInv, WriteLine
  PROVE  \E x \in -MaxLogs..MaxLogs : Adds(x) /\ Number(x) = entry /\ x # 0
<1> DEFINE x == IF AfterFragment(disk[0]) THEN -entry ELSE entry
<1>1. entry \in 1..MaxLogs /\ MaxLogs \in Nat
  BY BoundsAssumption DEF AInv, TypeOK, EntryInv, Busy, WriteLine
<1>2. x \in -MaxLogs..MaxLogs /\ Number(x) = entry /\ x # 0
  BY <1>1 DEF Number
<1>3. Adds(x)
  BY DEF WriteLine, Written, Adds
<1> QED
  BY <1>2, <1>3

-----------------------------------------------------------------------------
(* Each part is kept by every step of a reachable state.                   *)

\* The files' part of TypeOK: what is on disk, and how much of it
DiskOK == /\ DOMAIN disk \subseteq Files
          /\ \A k \in DOMAIN disk :
               /\ disk[k] \in Seq(-MaxLogs..MaxLogs)
               /\ Len(disk[k]) <= (IF MaxSize = 0 THEN 1 ELSE MaxSize) + faults

\* The same files, and no fewer faults
LEMMA DiskKept ==
  ASSUME AInv, disk' = disk, faults' \in {faults, faults + 1}
  PROVE  DiskOK'
<1>1. \A k \in DOMAIN disk : Len(disk[k]) \in Nat
  BY LenProperties DEF AInv, TypeOK
<1>2. faults \in Nat /\ MaxSize \in Nat
  BY BoundsAssumption, MaxSizeAssumption DEF AInv, TypeOK
<1> QED
  BY <1>1, <1>2 DEF AInv, TypeOK, DiskOK

\* A log that is created is empty
LEMMA DiskCreated ==
  ASSUME AInv, disk' = Created, faults' \in {faults, faults + 1}
  PROVE  DiskOK'
<1>1. faults \in Nat /\ MaxSize \in Nat /\ 0 \in Files
  BY BoundsAssumption, MaxSizeAssumption, RotationAssumption
     DEF AInv, TypeOK, Files, LastFile
<1>2. \A k \in DOMAIN disk : disk'[k] = disk[k] /\ Len(disk[k]) \in Nat
  BY Opened, LenProperties DEF AInv, TypeOK
<1>3. DOMAIN disk' \subseteq Files
  BY <1>1, Opened DEF AInv, TypeOK
<1>4. ASSUME NEW k \in DOMAIN disk'
      PROVE  /\ disk'[k] \in Seq(-MaxLogs..MaxLogs)
             /\ Len(disk'[k]) <= (IF MaxSize = 0 THEN 1 ELSE MaxSize) + faults'
  <2>1. CASE k \in DOMAIN disk
    <3>1. /\ disk[k] \in Seq(-MaxLogs..MaxLogs)
          /\ Len(disk[k]) <= (IF MaxSize = 0 THEN 1 ELSE MaxSize) + faults
      BY <2>1 DEF AInv, TypeOK
    <3> QED
      BY <1>1, <1>2, <2>1, <3>1
  <2>2. CASE disk'[k] = <<>>
    <3>1. <<>> \in Seq(-MaxLogs..MaxLogs) /\ Len(<<>>) = 0
      OBVIOUS
    <3>2. disk'[k] \in Seq(-MaxLogs..MaxLogs) /\ Len(disk'[k]) = 0
      BY <2>2, <3>1
    <3>3. faults' \in Nat /\ (IF MaxSize = 0 THEN 1 ELSE MaxSize) \in Nat
      BY <1>1
    <3>4. \A a, b \in Nat : 0 <= a + b
      OBVIOUS
    <3> QED
      BY <3>2, <3>3, <3>4, Zenon
  <2> QED
    BY <2>1, <2>2, Opened
<1> QED
  BY <1>3, <1>4 DEF DiskOK

\* Fewer or the same files, each as it was
LEMMA DiskRenamed ==
  ASSUME AInv, NEW i \in DOMAIN disk, i < LastFile, disk' = Rename(i), faults' = faults
  PROVE  DiskOK'
<1>1. i + 1 \in Files
  <2>1. i \in Nat
    BY Renamed
  <2>2. LastFile \in Nat
    BY RotationAssumption DEF LastFile
  <2> QED
    BY <2>1, <2>2 DEF Files
<1>2. DOMAIN disk' \subseteq Files
  BY <1>1, Renamed DEF AInv, TypeOK
<1>3. \A k \in DOMAIN disk' :
        /\ disk'[k] \in Seq(-MaxLogs..MaxLogs)
        /\ Len(disk'[k]) <= (IF MaxSize = 0 THEN 1 ELSE MaxSize) + faults'
  BY Renamed DEF AInv, TypeOK
<1> QED
  BY <1>2, <1>3 DEF DiskOK

\* One line more in the log
LEMMA DiskAdded ==
  ASSUME AInv, writer = "write", NEW x \in -MaxLogs..MaxLogs, Adds(x),
         faults' \in {faults, faults + 1}
  PROVE  DiskOK'
<1>1. faults \in Nat /\ MaxSize \in Nat
  BY BoundsAssumption, MaxSizeAssumption DEF AInv, TypeOK
<1>2. Len(disk[0]) + 1 <= (IF MaxSize = 0 THEN 1 ELSE MaxSize) + faults
  BY <1>1, Added DEF AInv, SizeInv
<1>3. DOMAIN disk' \subseteq Files
  BY Added DEF AInv, TypeOK
<1>4. ASSUME NEW k \in DOMAIN disk'
      PROVE  /\ disk'[k] \in Seq(-MaxLogs..MaxLogs)
             /\ Len(disk'[k]) <= (IF MaxSize = 0 THEN 1 ELSE MaxSize) + faults'
  <2>1. CASE k = 0
    BY <1>1, <1>2, <2>1, Added
  <2>2. CASE k # 0
    <3>1. k \in DOMAIN disk /\ disk'[k] = disk[k]
      BY <2>2, Added
    <3>2. /\ disk[k] \in Seq(-MaxLogs..MaxLogs)
          /\ Len(disk[k]) <= (IF MaxSize = 0 THEN 1 ELSE MaxSize) + faults
      BY <3>1 DEF AInv, TypeOK
    <3>3. Len(disk[k]) \in Nat
      BY <3>2, LenProperties
    <3> QED
      BY <1>1, <3>1, <3>2, <3>3
  <2> QED
    BY <2>1, <2>2
<1> QED
  BY <1>3, <1>4 DEF DiskOK

\* A file is opened with room for a line, and rotation keeps within its files.
LEMMA DiskStep ==
  ASSUME AInv, [Next]_vars
  PROVE  DiskOK'
<1> USE DEF vars, queueVars, writerVars, closeVars, Faulty
<1>1. CASE Log
  BY <1>1, DiskKept DEF Log
<1>2. CASE Receive
  BY <1>2, DiskKept DEF Receive
<1>3. CASE SeeCancel
  BY <1>3, DiskKept DEF SeeCancel
<1>4. CASE DrainEnds
  BY <1>4, DiskKept DEF DrainEnds
<1>5. CASE OpenLog
  BY <1>5, DiskCreated DEF OpenLog
<1>6. CASE Shift
  <2>1. index \in 1..RotationCount - 1 /\ index < LastFile
    BY <1>6, RotationAssumption DEF AInv, RotationInv, Shift, LastFile
  <2>2. CASE index \in DOMAIN disk
    BY <1>6, <2>1, <2>2, DiskRenamed DEF Shift
  <2>3. CASE index \notin DOMAIN disk
    BY <1>6, <2>3, DiskKept DEF Shift
  <2> QED
    BY <2>2, <2>3
<1>7. CASE MoveCurrent
  <2>1. 0 \in DOMAIN disk /\ 0 < LastFile
    BY <1>7, RotationAssumption DEF AInv, RotationInv, MoveCurrent, LastFile
  <2> QED
    BY <1>7, <2>1, DiskRenamed DEF MoveCurrent
<1>8. CASE Reopen
  BY <1>8, DiskCreated DEF Reopen
<1>9. CASE WriteLine
  <2>1. PICK x \in -MaxLogs..MaxLogs : Adds(x) /\ Number(x) = entry /\ x # 0
    BY <1>9, LineWritten
  <2> QED
    BY <1>9, <2>1, DiskAdded DEF WriteLine
<1>10. CASE GivesUp
  BY <1>10, DiskKept DEF GivesUp
<1>11. CASE Tears
  <2>1. PICK x \in -MaxLogs..MaxLogs : Adds(x) /\ x = 0
    <3>1. 0 \in -MaxLogs..MaxLogs /\ Adds(0)
      BY <1>11, BoundsAssumption DEF Tears, Adds
    <3> QED
      BY <3>1
  <2>2. writer = "write" /\ written' = written /\ faults' = faults + 1
    BY <1>11 DEF Tears
  <2>3. Adds(x)
    BY <2>1
  <2>4. \/ x = 0 /\ written' = written
        \/ x # 0 /\ Number(x) = entry /\ written' = written \cup {entry}
    BY <2>1, <2>2
  <2> QED
    BY <2>2, <2>3, DiskAdded
<1>12. CASE SkipsStat
  BY <1>12, DiskCreated DEF SkipsStat
<1>13. CASE Close
  BY <1>13, DiskKept DEF Close
<1>14. CASE CloseReturns
  BY <1>14, DiskKept DEF CloseReturns
<1>15. CASE CloseTimesOut
  BY <1>15, DiskKept DEF CloseTimesOut
<1>16. CASE Restart
  BY <1>16, DiskKept DEF Restart
<1>17. CASE UNCHANGED vars
  BY <1>17, DiskKept
<1> QED
  BY FailCases, <1>1, <1>2, <1>3, <1>4, <1>5, <1>6, <1>7, <1>8, <1>9, <1>10, <1>11,
       <1>12, <1>13, <1>14, <1>15, <1>16, <1>17 DEF Next, WriterStep


\* The rest of TypeOK
RestOK ==
  /\ logged \in 0..MaxLogs
  /\ channel \in Seq(1..MaxLogs) /\ Len(channel) <= Capacity
  /\ writer \in {"select", "drain", "open", "shift", "current", "reopen", "write", "exited"}
  /\ entry \in 0..MaxLogs
  /\ draining \in BOOLEAN
  /\ index \in -1..RotationCount
  /\ cancelled \in BOOLEAN
  /\ closer \in {"open", "waiting", "returned", "timedOut"}
  /\ mark \in 0..MaxLogs
  /\ written \subseteq 1..MaxLogs /\ lost \subseteq 1..MaxLogs
  /\ faults \in 0..MaxFaults /\ restarts \in 0..MaxRestarts

\* Queue, writer and Close stay within their types.
LEMMA RestStep ==
  ASSUME AInv, [Next]_vars
  PROVE  RestOK'
<1> USE BoundsAssumption, RotationAssumption DEF AInv, TypeOK, RestOK, EntryInv, Busy,
         vars, queueVars, writerVars, closeVars, Faulty
<1>1. CASE Log
  <2>1. channel' \in Seq(1..MaxLogs) /\ Len(channel') <= Capacity
    BY <1>1, Enqueued
  <2>2. logged + 1 \in 1..MaxLogs /\ logged' = logged + 1
    BY <1>1 DEF Log
  <2>3. lost' = lost \/ lost' = lost \cup {logged + 1}
    BY <1>1, Enqueued
  <2>4. lost' \subseteq 1..MaxLogs /\ logged' \in 0..MaxLogs
    <3>1. logged' \in 0..MaxLogs
      BY <2>2
    <3>2. {logged + 1} \subseteq 1..MaxLogs
      BY <2>2
    <3>3. lost' \subseteq 1..MaxLogs
      BY <2>3, <3>2
    <3> QED
      BY <3>1, <3>3
  <2> QED
    BY <1>1, <2>1, <2>4 DEF Log
<1>2. CASE Receive
  <2>1. channel' \in Seq(1..MaxLogs) /\ Len(channel') <= Capacity
    BY <1>2, Dequeued, CapacityAssumption
  <2>2. entry' \in 0..MaxLogs
    BY <1>2, Dequeued, ElementOfSeq
  <2> QED
    BY <1>2, <2>1, <2>2 DEF Receive
<1>3. CASE SeeCancel
  BY <1>3 DEF SeeCancel, AfterCancel
<1>4. CASE DrainEnds
  BY <1>4 DEF DrainEnds
<1>5. CASE OpenLog
  <2>1. index' \in -1..RotationCount /\ writer' \in {"shift", "current", "write"}
    BY <1>5 DEF OpenLog
  <2> QED
    BY <1>5, <2>1 DEF OpenLog
<1>6. CASE Shift
  <2>1. index' \in -1..RotationCount /\ writer' \in {"shift", "current"}
    BY <1>6 DEF Shift, RotationInv
  <2> QED
    BY <1>6, <2>1 DEF Shift
<1>7. CASE MoveCurrent
  BY <1>7 DEF MoveCurrent
<1>8. CASE Reopen
  BY <1>8 DEF Reopen
<1>9. CASE WriteLine
  BY <1>9 DEF WriteLine, BackToLoop, Written
<1>10. CASE GivesUp
  BY <1>10 DEF GivesUp, BackToLoop
<1>11. CASE Tears
  BY <1>11 DEF Tears, BackToLoop
<1>12. CASE SkipsStat
  BY <1>12 DEF SkipsStat
<1>13. CASE Close
  BY <1>13 DEF Close
<1>14. CASE CloseReturns
  BY <1>14 DEF CloseReturns
<1>15. CASE CloseTimesOut
  BY <1>15 DEF CloseTimesOut
<1>16. CASE Restart
  <2>1. channel' \in Seq(1..MaxLogs) /\ Len(channel') <= Capacity
    BY <1>16, CapacityAssumption DEF Restart
  <2>2. lost' \subseteq 1..MaxLogs
    <3>1. Queued \subseteq 1..MaxLogs
      BY ElementOfSeq DEF Queued
    <3>2. {entry} \ {0} \subseteq 1..MaxLogs
      OBVIOUS
    <3> QED
      BY <1>16, <3>1, <3>2 DEF Restart
  <2>3. /\ entry' \in 0..MaxLogs /\ index' \in -1..RotationCount /\ mark' \in 0..MaxLogs
        /\ restarts' \in 0..MaxRestarts /\ writer' = "select" /\ closer' = "open"
        /\ draining' = FALSE /\ cancelled' = FALSE
    BY <1>16 DEF Restart
  <2>4. UNCHANGED <<logged, written, faults>>
    BY <1>16 DEF Restart
  <2> QED
    BY <2>1, <2>2, <2>3, <2>4
<1>17. CASE UNCHANGED vars
  BY <1>17
<1> QED
  BY FailCases, <1>1, <1>2, <1>3, <1>4, <1>5, <1>6, <1>7, <1>8, <1>9, <1>10, <1>11,
       <1>12, <1>13, <1>14, <1>15, <1>16, <1>17 DEF Next, WriterStep

\* The writer has an entry exactly while it writes one.
LEMMA EntryStep ==
  ASSUME AInv, [Next]_vars
  PROVE  EntryInv'
<1> USE BoundsAssumption DEF AInv, TypeOK, EntryInv, Busy, vars, queueVars, writerVars,
         closeVars, Faulty
<1>1. CASE Log
  BY <1>1 DEF Log
<1>2. CASE Receive
  BY <1>2, Dequeued DEF Receive, QueueInv
<1>3. CASE SeeCancel
  BY <1>3 DEF SeeCancel, AfterCancel
<1>4. CASE DrainEnds
  BY <1>4 DEF DrainEnds
<1>5. CASE OpenLog
  BY <1>5 DEF OpenLog
<1>6. CASE Shift
  BY <1>6 DEF Shift
<1>7. CASE MoveCurrent
  BY <1>7 DEF MoveCurrent
<1>8. CASE Reopen
  BY <1>8 DEF Reopen
<1>9. CASE WriteLine
  BY <1>9 DEF WriteLine, BackToLoop, Written
<1>10. CASE GivesUp
  BY <1>10 DEF GivesUp, BackToLoop
<1>11. CASE Tears
  BY <1>11 DEF Tears, BackToLoop
<1>12. CASE SkipsStat
  BY <1>12 DEF SkipsStat
<1>13. CASE Close
  BY <1>13 DEF Close
<1>14. CASE CloseReturns
  BY <1>14 DEF CloseReturns
<1>15. CASE CloseTimesOut
  BY <1>15 DEF CloseTimesOut
<1>16. CASE Restart
  BY <1>16 DEF Restart
<1>17. CASE UNCHANGED vars
  BY <1>17
<1> QED
  BY FailCases, <1>1, <1>2, <1>3, <1>4, <1>5, <1>6, <1>7, <1>8, <1>9, <1>10, <1>11,
       <1>12, <1>13, <1>14, <1>15, <1>16, <1>17 DEF Next, WriterStep

\* The queue is first in, first out, and one goroutine empties it.
LEMMA QueueStep ==
  ASSUME AInv, [Next]_vars
  PROVE  QueueInv'
<1> USE BoundsAssumption DEF AInv, TypeOK, EntryInv, QueueInv, Busy, vars, queueVars,
         writerVars, closeVars, Faulty
<1>1. CASE Log
  <2>1. /\ logged' = logged + 1 /\ UNCHANGED <<entry, written, writer>>
        /\ Len(channel) \in Nat
    BY <1>1, LenProperties DEF Log
  <2>2. CASE channel' = channel
    BY <2>1, <2>2
  <2>3. CASE /\ Len(channel') = Len(channel) + 1 /\ channel'[Len(channel) + 1] = logged + 1
             /\ \A k \in 1..Len(channel) : channel'[k] = channel[k]
    <3>1. \A k \in 1..Len(channel') : \/ k \in 1..Len(channel) /\ channel'[k] = channel[k]
                                      \/ k = Len(channel) + 1 /\ channel'[k] = logged + 1
      BY <2>1, <2>3
    <3>2. \A k \in 1..Len(channel') : channel'[k] \in 1..logged' /\ entry' < channel'[k]
      BY <2>1, <3>1
    <3>3. ASSUME NEW k \in 1..Len(channel'), NEW m \in 1..Len(channel'), k < m
          PROVE  channel'[k] < channel'[m]
      <4>1. k \in 1..Len(channel) /\ channel'[k] = channel[k]
        BY <2>1, <2>3, <3>1, <3>3
      <4>2. CASE m \in 1..Len(channel) /\ channel'[m] = channel[m]
        BY <3>3, <4>1, <4>2
      <4>3. CASE channel'[m] = logged + 1
        BY <4>1, <4>3
      <4> QED
        BY <3>1, <4>2, <4>3
    <3>4. \A e \in written : e <= logged' /\ \A k \in 1..Len(channel') : e < channel'[k]
      BY <2>1, <3>1
    <3> QED
      BY <2>1, <3>2, <3>3, <3>4
  <2> QED
    BY <1>1, <2>2, <2>3, Enqueued
<1>2. CASE Receive
  <2>1. entry' \in 1..logged /\ \A e \in written : e < entry'
    BY <1>2, Dequeued
  <2>2. \A k \in 1..Len(channel') : channel'[k] = channel[k + 1] /\ k + 1 \in 1..Len(channel)
    BY <1>2, Dequeued
  <2>3. UNCHANGED <<logged, written>>
    BY <1>2 DEF Receive
  <2>4. \A k \in 1..Len(channel') : channel'[k] \in 1..logged /\ entry' < channel'[k]
    <3>1. \A k \in 1..Len(channel') : 1 \in 1..Len(channel) /\ 1 < k + 1
      BY <1>2, Dequeued
    <3>2. entry' = channel[1]
      BY <1>2, Dequeued
    <3> QED
      BY <2>2, <3>1, <3>2
  <2>5. \A k, m \in 1..Len(channel') : k < m => channel'[k] < channel'[m]
    BY <2>2, Dequeued
  <2>6. \A e \in written : e <= logged /\ \A k \in 1..Len(channel') : e < channel'[k]
    BY <2>2
  <2> QED
    BY <2>1, <2>3, <2>4, <2>5, <2>6
<1>3. CASE SeeCancel
  BY <1>3 DEF SeeCancel, AfterCancel
<1>4. CASE DrainEnds
  BY <1>4 DEF DrainEnds
<1>5. CASE OpenLog
  BY <1>5 DEF OpenLog
<1>6. CASE Shift
  BY <1>6 DEF Shift
<1>7. CASE MoveCurrent
  BY <1>7 DEF MoveCurrent
<1>8. CASE Reopen
  BY <1>8 DEF Reopen
<1>9. CASE WriteLine
  BY <1>9 DEF WriteLine, BackToLoop, Written
<1>10. CASE GivesUp
  BY <1>10 DEF GivesUp, BackToLoop
<1>11. CASE Tears
  BY <1>11 DEF Tears, BackToLoop
<1>12. CASE SkipsStat
  BY <1>12 DEF SkipsStat
<1>13. CASE Close
  BY <1>13 DEF Close
<1>14. CASE CloseReturns
  BY <1>14 DEF CloseReturns
<1>15. CASE CloseTimesOut
  BY <1>15 DEF CloseTimesOut
<1>16. CASE Restart
  BY <1>16 DEF Restart
<1>17. CASE UNCHANGED vars
  BY <1>17
<1> QED
  BY FailCases, <1>1, <1>2, <1>3, <1>4, <1>5, <1>6, <1>7, <1>8, <1>9, <1>10, <1>11,
       <1>12, <1>13, <1>14, <1>15, <1>16, <1>17 DEF Next, WriterStep

\* The loop frees the place it fills next.
LEMMA RotationStep ==
  ASSUME AInv, [Next]_vars
  PROVE  RotationInv'
<1> USE RotationAssumption DEF AInv, TypeOK, RotationInv, vars, queueVars, writerVars,
         closeVars, Faulty
<1>1. CASE Log
  BY <1>1 DEF Log
<1>2. CASE Receive
  BY <1>2 DEF Receive
<1>3. CASE SeeCancel
  BY <1>3 DEF SeeCancel, AfterCancel
<1>4. CASE DrainEnds
  BY <1>4 DEF DrainEnds
<1>5. CASE OpenLog
  BY <1>5, Opened DEF OpenLog, LastFile
<1>6. CASE Shift
  <2>1. index \in 1..RotationCount - 1 /\ index' = index - 1
    BY <1>6 DEF Shift
  <2>2. 0 \in DOMAIN disk' /\ index \notin DOMAIN disk'
    <3>1. CASE index \in DOMAIN disk
      <4>1. disk' = Rename(index)
        BY <1>6, <3>1 DEF Shift
      <4>2. DOMAIN disk' = (DOMAIN disk \ {index}) \cup {index + 1}
        BY <3>1, <4>1, Renamed
      <4>3. 0 \in DOMAIN disk
        BY <1>6 DEF Shift
      <4> QED
        BY <2>1, <4>2, <4>3
    <3>2. CASE index \notin DOMAIN disk
      BY <1>6, <3>2 DEF Shift
    <3> QED
      BY <3>1, <3>2
  <2> QED
    BY <1>6, <2>1, <2>2 DEF Shift
<1>7. CASE MoveCurrent
  <2>1. 0 \in DOMAIN disk /\ disk' = Rename(0)
    BY <1>7 DEF MoveCurrent
  <2>2. 0 \notin DOMAIN disk'
    BY <2>1 DEF Rename
  <2> QED
    BY <1>7, <2>2 DEF MoveCurrent
<1>8. CASE Reopen
  BY <1>8, Opened DEF Reopen
<1>9. CASE WriteLine
  BY <1>9 DEF WriteLine, BackToLoop, Written
<1>10. CASE GivesUp
  BY <1>10 DEF GivesUp, BackToLoop
<1>11. CASE Tears
  BY <1>11 DEF Tears, BackToLoop
<1>12. CASE SkipsStat
  BY <1>12, Opened DEF SkipsStat
<1>13. CASE Close
  BY <1>13 DEF Close
<1>14. CASE CloseReturns
  BY <1>14 DEF CloseReturns
<1>15. CASE CloseTimesOut
  BY <1>15 DEF CloseTimesOut
<1>16. CASE Restart
  BY <1>16 DEF Restart
<1>17. CASE UNCHANGED vars
  BY <1>17
<1> QED
  BY FailCases, <1>1, <1>2, <1>3, <1>4, <1>5, <1>6, <1>7, <1>8, <1>9, <1>10, <1>11,
       <1>12, <1>13, <1>14, <1>15, <1>16, <1>17 DEF Next, WriterStep

\* A log that is due is moved away before the write, unless its Stat failed.
LEMMA SizeStep ==
  ASSUME AInv, [Next]_vars
  PROVE  SizeInv'
<1> USE MaxSizeAssumption, BoundsAssumption DEF AInv, TypeOK, SizeInv, RotationInv,
         vars, queueVars, writerVars, closeVars, Faulty
<1>1. CASE Log
  BY <1>1 DEF Log
<1>2. CASE Receive
  BY <1>2 DEF Receive
<1>3. CASE SeeCancel
  BY <1>3 DEF SeeCancel, AfterCancel
<1>4. CASE DrainEnds
  BY <1>4 DEF DrainEnds
<1>5. CASE OpenLog
  <2>1. disk'[0] \in Seq(-MaxLogs..MaxLogs)
    BY <1>5, Opened, EmptySeq DEF OpenLog
  <2>2. Len(disk'[0]) \in Nat
    BY <2>1, LenProperties
  <2> QED
    BY <1>5, <2>2 DEF OpenLog
<1>6. CASE Shift
  BY <1>6 DEF Shift
<1>7. CASE MoveCurrent
  BY <1>7 DEF MoveCurrent
<1>8. CASE Reopen
  BY <1>8, Opened DEF Reopen
<1>9. CASE WriteLine
  BY <1>9 DEF WriteLine, BackToLoop, Written
<1>10. CASE GivesUp
  BY <1>10 DEF GivesUp, BackToLoop
<1>11. CASE Tears
  BY <1>11 DEF Tears, BackToLoop
<1>12. CASE SkipsStat
  <2>1. 0 \in DOMAIN disk => Len(disk[0]) \in Nat
    BY LenProperties
  <2> QED
    BY <1>12, <2>1, Opened DEF SkipsStat
<1>13. CASE Close
  BY <1>13 DEF Close
<1>14. CASE CloseReturns
  BY <1>14 DEF CloseReturns
<1>15. CASE CloseTimesOut
  BY <1>15 DEF CloseTimesOut
<1>16. CASE Restart
  BY <1>16 DEF Restart
<1>17. CASE UNCHANGED vars
  BY <1>17
<1> QED
  BY FailCases, <1>1, <1>2, <1>3, <1>4, <1>5, <1>6, <1>7, <1>8, <1>9, <1>10, <1>11,
       <1>12, <1>13, <1>14, <1>15, <1>16, <1>17 DEF Next, WriterStep

\* The shifts leave the log alone until it is moved.
LEMMA DueStep ==
  ASSUME AInv, [Next]_vars
  PROVE  DueInv'
<1> USE DEF AInv, RotationInv, DueInv, vars, queueVars, writerVars, closeVars, Faulty
<1>1. CASE Log
  BY <1>1 DEF Log
<1>2. CASE Receive
  BY <1>2 DEF Receive
<1>3. CASE SeeCancel
  BY <1>3 DEF SeeCancel, AfterCancel
<1>4. CASE DrainEnds
  BY <1>4 DEF DrainEnds
<1>5. CASE OpenLog
  BY <1>5 DEF OpenLog
<1>6. CASE Shift
  <2>1. index \in 1..RotationCount - 1 /\ 0 \in DOMAIN disk
    BY <1>6 DEF Shift
  <2>2. disk'[0] = disk[0]
    <3>1. CASE index \in DOMAIN disk
      <4>1. disk' = Rename(index)
        BY <1>6, <3>1 DEF Shift
      <4> QED
        BY <2>1, <4>1 DEF Rename
    <3>2. CASE index \notin DOMAIN disk
      BY <1>6, <3>2 DEF Shift
    <3> QED
      BY <3>1, <3>2
  <2> QED
    BY <1>6, <2>2 DEF Shift
<1>7. CASE MoveCurrent
  BY <1>7 DEF MoveCurrent
<1>8. CASE Reopen
  BY <1>8 DEF Reopen
<1>9. CASE WriteLine
  BY <1>9 DEF WriteLine, BackToLoop, Written
<1>10. CASE GivesUp
  BY <1>10 DEF GivesUp, BackToLoop
<1>11. CASE Tears
  BY <1>11 DEF Tears, BackToLoop
<1>12. CASE SkipsStat
  BY <1>12 DEF SkipsStat
<1>13. CASE Close
  BY <1>13 DEF Close
<1>14. CASE CloseReturns
  BY <1>14 DEF CloseReturns
<1>15. CASE CloseTimesOut
  BY <1>15 DEF CloseTimesOut
<1>16. CASE Restart
  BY <1>16 DEF Restart
<1>17. CASE UNCHANGED vars
  BY <1>17
<1> QED
  BY FailCases, <1>1, <1>2, <1>3, <1>4, <1>5, <1>6, <1>7, <1>8, <1>9, <1>10, <1>11,
       <1>12, <1>13, <1>14, <1>15, <1>16, <1>17 DEF Next, WriterStep

\* Lines of the files a rename leaves are lines of the files before it.
LEMMA LinesRenamed ==
  ASSUME AInv, NEW i \in DOMAIN disk, disk' = Rename(i), written' = written
  PROVE  LinesInv'
<1>1. ASSUME NEW k \in DOMAIN disk', NEW n \in 1..Len(disk'[k])
      PROVE  disk'[k][n] = 0 \/ Number(disk'[k][n]) \in written'
  <2>1. Origin(i, k) \in DOMAIN disk /\ disk'[k] = disk[Origin(i, k)]
    BY Renamed
  <2> QED
    BY <2>1 DEF AInv, LinesInv
<1>2. ASSUME NEW k \in DOMAIN disk', NEW m \in 1..Len(disk'[k]), NEW n \in 1..Len(disk'[k]),
             m < n, disk'[k][m] # 0, disk'[k][n] # 0
      PROVE  Number(disk'[k][m]) < Number(disk'[k][n])
  <2>1. Origin(i, k) \in DOMAIN disk /\ disk'[k] = disk[Origin(i, k)]
    BY Renamed
  <2> QED
    BY <1>2, <2>1 DEF AInv, LinesInv
<1>3. ASSUME NEW j \in DOMAIN disk', NEW k \in DOMAIN disk', j < k,
             NEW m \in 1..Len(disk'[j]), NEW n \in 1..Len(disk'[k]),
             disk'[j][m] # 0, disk'[k][n] # 0
      PROVE  Number(disk'[k][n]) < Number(disk'[j][m])
  <2>1. /\ Origin(i, j) \in DOMAIN disk /\ disk'[j] = disk[Origin(i, j)]
        /\ Origin(i, k) \in DOMAIN disk /\ disk'[k] = disk[Origin(i, k)]
        /\ Origin(i, j) < Origin(i, k)
    BY <1>3, Renamed
  <2> QED
    BY <1>3, <2>1 DEF AInv, LinesInv
<1> QED
  BY <1>1, <1>2, <1>3 DEF LinesInv

\* An empty log has no line.
LEMMA LinesCreated ==
  ASSUME AInv, disk' = Created, written' = written
  PROVE  LinesInv'
<1>1. \A k \in DOMAIN disk' : 1..Len(disk'[k]) # {} => k \in DOMAIN disk /\ disk'[k] = disk[k]
  BY Opened
<1> QED
  BY <1>1 DEF AInv, LinesInv, Number

\* A new line is the last of the newest file, and of a newer entry, if of one.
LEMMA LinesAdded ==
  ASSUME AInv, writer = "write", NEW x \in -MaxLogs..MaxLogs, Adds(x),
         \/ x = 0 /\ written' = written
         \/ x # 0 /\ Number(x) = entry /\ written' = written \cup {entry}
  PROVE  LinesInv'
<1> DEFINE new == Len(disk[0]) + 1
<1>1. \A e \in written : e < entry
  BY DEF AInv, QueueInv, Busy
<1>2. /\ DOMAIN disk' = DOMAIN disk /\ 0 \in DOMAIN disk /\ DOMAIN disk \subseteq Nat
      /\ Len(disk[0]) \in Nat /\ Len(disk'[0]) = new /\ disk'[0][new] = x
  BY Added
<1>3. \A k \in DOMAIN disk : \A n \in 1..Len(disk'[k]) :
        \/ n \in 1..Len(disk[k]) /\ disk'[k][n] = disk[k][n]
        \/ k = 0 /\ n = new /\ disk'[k][n] = x
  BY Added
<1>4. \A k \in DOMAIN disk : \A n \in 1..Len(disk[k]) :
        disk[k][n] = 0 \/ Number(disk[k][n]) \in written
  BY DEF AInv, LinesInv
<1>5. ASSUME NEW k \in DOMAIN disk', NEW n \in 1..Len(disk'[k])
      PROVE  disk'[k][n] = 0 \/ Number(disk'[k][n]) \in written'
  BY <1>2, <1>3, <1>4
<1>6. ASSUME NEW k \in DOMAIN disk', NEW m \in 1..Len(disk'[k]), NEW n \in 1..Len(disk'[k]),
             m < n, disk'[k][m] # 0, disk'[k][n] # 0
      PROVE  Number(disk'[k][m]) < Number(disk'[k][n])
  <2>1. CASE n \in 1..Len(disk[k]) /\ disk'[k][n] = disk[k][n]
    <3>1. m \in 1..Len(disk[k]) /\ disk'[k][m] = disk[k][m]
      BY <1>2, <1>3, <1>6, <2>1
    <3> QED
      BY <1>2, <1>6, <2>1, <3>1 DEF AInv, LinesInv
  <2>2. CASE k = 0 /\ n = new /\ disk'[k][n] = x
    <3>1. m \in 1..Len(disk[k]) /\ disk'[k][m] = disk[k][m]
      BY <1>2, <1>3, <1>6, <2>2
    <3>2. Number(disk'[k][m]) \in written
      BY <1>2, <1>4, <1>6, <3>1
    <3> QED
      BY <1>1, <1>6, <2>2, <3>2
  <2> QED
    BY <1>2, <1>3, <2>1, <2>2
<1>7. ASSUME NEW j \in DOMAIN disk', NEW k \in DOMAIN disk', j < k,
             NEW m \in 1..Len(disk'[j]), NEW n \in 1..Len(disk'[k]),
             disk'[j][m] # 0, disk'[k][n] # 0
      PROVE  Number(disk'[k][n]) < Number(disk'[j][m])
  <2>1. n \in 1..Len(disk[k]) /\ disk'[k][n] = disk[k][n]
    BY <1>2, <1>3, <1>7
  <2>2. CASE m \in 1..Len(disk[j]) /\ disk'[j][m] = disk[j][m]
    BY <1>2, <1>7, <2>1, <2>2 DEF AInv, LinesInv
  <2>3. CASE j = 0 /\ m = new /\ disk'[j][m] = x
    <3>1. Number(disk'[k][n]) \in written
      BY <1>2, <1>4, <1>7, <2>1
    <3> QED
      BY <1>1, <1>7, <2>3, <3>1
  <2> QED
    BY <1>2, <1>3, <2>2, <2>3
<1> QED
  BY <1>5, <1>6, <1>7 DEF LinesInv

\* Rotation, restarts and failures keep the trail's order.
LEMMA LinesStep ==
  ASSUME AInv, [Next]_vars
  PROVE  LinesInv'
<1> USE DEF vars, queueVars, writerVars, closeVars, Faulty
<1>1. CASE Log
  BY <1>1 DEF Log, AInv, LinesInv, Number
<1>2. CASE Receive
  BY <1>2 DEF Receive, AInv, LinesInv, Number
<1>3. CASE SeeCancel
  BY <1>3 DEF SeeCancel, AInv, LinesInv, Number, AfterCancel
<1>4. CASE DrainEnds
  BY <1>4 DEF DrainEnds, AInv, LinesInv, Number
<1>5. CASE OpenLog
  BY <1>5, LinesCreated DEF OpenLog
<1>6. CASE Shift
  <2>1. CASE index \in DOMAIN disk
    BY <1>6, <2>1, LinesRenamed DEF Shift
  <2>2. CASE index \notin DOMAIN disk
    BY <1>6, <2>2 DEF Shift, AInv, LinesInv, Number
  <2> QED
    BY <2>1, <2>2
<1>7. CASE MoveCurrent
  BY <1>7, LinesRenamed DEF MoveCurrent, AInv, RotationInv
<1>8. CASE Reopen
  BY <1>8, LinesCreated DEF Reopen
<1>9. CASE WriteLine
  <2>1. PICK x \in -MaxLogs..MaxLogs : Adds(x) /\ Number(x) = entry /\ x # 0
    BY <1>9, LineWritten
  <2> QED
    BY <1>9, <2>1, LinesAdded DEF WriteLine
<1>10. CASE GivesUp
  BY <1>10 DEF GivesUp, AInv, LinesInv, Number, BackToLoop
<1>11. CASE Tears
  <2>1. PICK x \in -MaxLogs..MaxLogs : Adds(x) /\ x = 0
    <3>1. 0 \in -MaxLogs..MaxLogs /\ Adds(0)
      BY <1>11, BoundsAssumption DEF Tears, Adds
    <3> QED
      BY <3>1
  <2>2. writer = "write" /\ written' = written /\ faults' = faults + 1
    BY <1>11 DEF Tears
  <2>3. Adds(x)
    BY <2>1
  <2>4. \/ x = 0 /\ written' = written
        \/ x # 0 /\ Number(x) = entry /\ written' = written \cup {entry}
    BY <2>1, <2>2
  <2> QED
    BY <2>2, <2>3, <2>4, LinesAdded
<1>12. CASE SkipsStat
  BY <1>12, LinesCreated DEF SkipsStat
<1>13. CASE Close
  BY <1>13 DEF Close, AInv, LinesInv, Number
<1>14. CASE CloseReturns
  BY <1>14 DEF CloseReturns, AInv, LinesInv, Number
<1>15. CASE CloseTimesOut
  BY <1>15 DEF CloseTimesOut, AInv, LinesInv, Number
<1>16. CASE Restart
  BY <1>16 DEF Restart, AInv, LinesInv, Number
<1>17. CASE UNCHANGED vars
  BY <1>17 DEF AInv, LinesInv, Number
<1> QED
  BY FailCases, <1>1, <1>2, <1>3, <1>4, <1>5, <1>6, <1>7, <1>8, <1>9, <1>10, <1>11,
       <1>12, <1>13, <1>14, <1>15, <1>16, <1>17 DEF Next, WriterStep

\* What is on disk before and after a step
LEMMA OnDiskLines ==
  /\ \A f : f \in OnDisk <=>
       /\ f # 0
       /\ \E k \in DOMAIN disk : \E n \in 1..Len(disk[k]) : f = Number(disk[k][n])
  /\ \A f : f \in OnDisk' <=>
       /\ f # 0
       /\ \E k \in DOMAIN disk' : \E n \in 1..Len(disk'[k]) : f = Number(disk'[k][n])
<1> DEFINE held(k) == {Number(disk[k][n]) : n \in 1..Len(disk[k])}
<1>1. OnDisk = (UNION {held(k) : k \in DOMAIN disk}) \ {0}
  BY DEF OnDisk, Number
<1>2. OnDisk' = (UNION {held(k)' : k \in DOMAIN disk'}) \ {0}
  BY DEF OnDisk, Number
<1>3. ASSUME NEW f
      PROVE  f \in OnDisk <=>
               /\ f # 0
               /\ \E k \in DOMAIN disk : \E n \in 1..Len(disk[k]) : f = Number(disk[k][n])
  BY <1>1
<1>4. ASSUME NEW f
      PROVE  f \in OnDisk' <=>
               /\ f # 0
               /\ \E k \in DOMAIN disk' : \E n \in 1..Len(disk'[k]) : f = Number(disk'[k][n])
  BY <1>2
<1> QED
  BY <1>3, <1>4

\* The same files, and nothing written
LEMMA OldestKept ==
  ASSUME AInv, disk' = disk, written' = written
  PROVE  OnlyOldestForgotten'
<1>1. OnDisk' = OnDisk
  BY DEF OnDisk
<1> QED
  BY <1>1 DEF AInv, OnlyOldestForgotten

\* A rename can only push out the oldest file.
LEMMA ForgetsOldest ==
  ASSUME AInv, NEW i \in DOMAIN disk, i + 1 \notin DOMAIN disk \/ i + 1 = LastFile,
         disk' = Rename(i), written' = written
  PROVE  OnlyOldestForgotten'
<1>1. OnDisk \subseteq written /\ \A e \in written \ OnDisk : \A f \in OnDisk : e < f
  BY DEF AInv, OnlyOldestForgotten
<1>2. OnDisk' \subseteq OnDisk
  <2>1. ASSUME NEW f \in OnDisk' PROVE f \in OnDisk
    <3>1. PICK k \in DOMAIN disk' :
            \E n \in 1..Len(disk'[k]) : f # 0 /\ f = Number(disk'[k][n])
      BY OnDiskLines
    <3>2. Origin(i, k) \in DOMAIN disk /\ disk'[k] = disk[Origin(i, k)]
      BY Renamed
    <3> QED
      BY <3>1, <3>2, OnDiskLines
  <2> QED
    BY <2>1
<1>3. ASSUME NEW e \in written, e \notin OnDisk', NEW f \in OnDisk' PROVE e < f
  <2>1. CASE e \notin OnDisk
    BY <1>1, <1>2, <1>3, <2>1
  <2>2. CASE e \in OnDisk
    <3>0. PICK k \in DOMAIN disk :
            \E n \in 1..Len(disk[k]) : e # 0 /\ e = Number(disk[k][n])
      BY <2>2, OnDiskLines
    <3>1. PICK n \in 1..Len(disk[k]) : e # 0 /\ e = Number(disk[k][n])
      BY <3>0
    <3>2. k = i + 1
      <4>1. SUFFICES ASSUME k # i + 1 PROVE e \in OnDisk'
        BY <1>3
      <4>2. CASE k = i
        <5>1. i + 1 \in DOMAIN disk' /\ disk'[i + 1] = disk[i]
          BY Renamed DEF Origin
        <5> QED
          BY <3>1, <4>2, <5>1, OnDiskLines
      <4>3. CASE k # i
        <5>1. k \in DOMAIN disk' /\ disk'[k] = disk[k]
          BY <4>1, <4>3, Renamed DEF Origin
        <5> QED
          BY <3>1, <5>1, OnDiskLines
      <4> QED
        BY <4>2, <4>3
    <3>10. PICK j \in DOMAIN disk' :
             \E m \in 1..Len(disk'[j]) : f # 0 /\ f = Number(disk'[j][m])
      BY OnDiskLines
    <3>3. PICK m \in 1..Len(disk'[j]) : f # 0 /\ f = Number(disk'[j][m])
      BY <3>10
    <3> DEFINE o == Origin(i, j)
    <3>4. o \in DOMAIN disk /\ disk'[j] = disk[o] /\ o # i + 1
      <4>1. o \in DOMAIN disk /\ disk'[j] = disk[o]
        BY Renamed
      <4>2. i \in Nat
        BY Renamed
      <4> QED
        BY <4>1, <4>2 DEF Origin
    <3>5. o < i + 1
      <4>1. o \in Files /\ i \in Nat /\ k \in DOMAIN disk
        BY <3>1, <3>4, Renamed DEF AInv, TypeOK
      <4> QED
        BY <3>2, <3>4, <4>1, RotationAssumption DEF Files, LastFile
    <3>6. disk[k][n] # 0 /\ disk[o][m] # 0
      BY <3>1, <3>3, <3>4 DEF Number
    <3> QED
      BY <3>1, <3>2, <3>3, <3>4, <3>5, <3>6 DEF AInv, LinesInv
  <2> QED
    BY <2>1, <2>2
<1> QED
  BY <1>1, <1>2, <1>3 DEF OnlyOldestForgotten

\* Opening the log forgets and adds nothing.
LEMMA OpeningKeeps ==
  ASSUME disk' = Created
  PROVE  OnDisk' = OnDisk
<1>1. \A k \in DOMAIN disk' : 1..Len(disk'[k]) # {} => k \in DOMAIN disk /\ disk'[k] = disk[k]
  BY Opened
<1>2. OnDisk' \subseteq OnDisk
  BY <1>1, OnDiskLines
<1>3. OnDisk \subseteq OnDisk'
  BY Opened, OnDiskLines
<1> QED
  BY <1>2, <1>3

\* What forgets nothing does not forget the wrong thing.
LEMMA ForgetsNone ==
  ASSUME AInv, disk' = Created, written' = written
  PROVE  OnlyOldestForgotten'
BY OpeningKeeps DEF AInv, OnlyOldestForgotten

\* A line takes nothing away.
LEMMA AddingKeeps ==
  ASSUME AInv, writer = "write", NEW x \in -MaxLogs..MaxLogs, Adds(x)
  PROVE  OnDisk \subseteq OnDisk'
<1>1. \A k \in DOMAIN disk : \A n \in 1..Len(disk[k]) :
        k \in DOMAIN disk' /\ n \in 1..Len(disk'[k]) /\ disk'[k][n] = disk[k][n]
  BY Added
<1> QED
  BY <1>1, OnDiskLines

\* Nor does a line, which is of the newest entry, if of one.
LEMMA AddsNewest ==
  ASSUME AInv, writer = "write", NEW x \in -MaxLogs..MaxLogs, Adds(x),
         \/ x = 0 /\ written' = written
         \/ x # 0 /\ Number(x) = entry /\ written' = written \cup {entry}
  PROVE  OnlyOldestForgotten'
<1>1. OnDisk \subseteq written /\ \A e \in written \ OnDisk : \A f \in OnDisk : e < f
  BY DEF AInv, OnlyOldestForgotten
<1>2. \A e \in written : e < entry
  BY DEF AInv, QueueInv, Busy
<1>3. OnDisk \subseteq OnDisk'
  BY AddingKeeps
<1>4. OnDisk' \subseteq OnDisk \cup {Number(x)}
  <2>1. \A k \in DOMAIN disk' : \A n \in 1..Len(disk'[k]) :
          \/ k \in DOMAIN disk /\ n \in 1..Len(disk[k]) /\ disk'[k][n] = disk[k][n]
          \/ disk'[k][n] = x
    BY Added
  <2> QED
    BY <2>1, OnDiskLines
<1>5. CASE x = 0 /\ written' = written
  <2>1. 0 \notin OnDisk' /\ Number(x) = 0
    BY <1>5, OnDiskLines DEF Number
  <2>2. OnDisk' = OnDisk
    BY <1>3, <1>4, <2>1
  <2> QED
    BY <1>1, <1>5, <2>2 DEF OnlyOldestForgotten
<1>6. CASE x # 0 /\ Number(x) = entry /\ written' = written \cup {entry}
  <2>1. entry \in OnDisk'
    <3>1. /\ 0 \in DOMAIN disk' /\ Len(disk[0]) + 1 \in 1..Len(disk'[0])
          /\ disk'[0][Len(disk[0]) + 1] = x
      BY Added
    <3>2. entry # 0
      BY DEF AInv, EntryInv, Busy
    <3> QED
      BY <1>6, <3>1, <3>2, OnDiskLines
  <2>2. OnDisk' = OnDisk \cup {entry}
    BY <1>3, <1>4, <1>6, <2>1
  <2> QED
    BY <1>1, <1>2, <1>6, <2>2 DEF OnlyOldestForgotten
<1> QED
  BY <1>5, <1>6

\* A rotation forgets the oldest file or none.
LEMMA OldestStep ==
  ASSUME AInv, [Next]_vars
  PROVE  OnlyOldestForgotten'
<1> USE DEF vars, queueVars, writerVars, closeVars, Faulty
<1>1. CASE Log
  BY <1>1, OldestKept DEF Log
<1>2. CASE Receive
  BY <1>2, OldestKept DEF Receive
<1>3. CASE SeeCancel
  BY <1>3, OldestKept DEF SeeCancel
<1>4. CASE DrainEnds
  BY <1>4, OldestKept DEF DrainEnds
<1>5. CASE OpenLog
  BY <1>5, ForgetsNone DEF OpenLog
<1>6. CASE Shift
  <2>1. CASE index \in DOMAIN disk
    <3>1. index + 1 \notin DOMAIN disk \/ index + 1 = LastFile
      BY <1>6, RotationAssumption DEF AInv, RotationInv, Shift, LastFile
    <3> QED
      BY <1>6, <2>1, <3>1, ForgetsOldest DEF Shift
  <2>2. CASE index \notin DOMAIN disk
    BY <1>6, <2>2, OldestKept DEF Shift
  <2> QED
    BY <2>1, <2>2
<1>7. CASE MoveCurrent
  <2>1. 0 \in DOMAIN disk /\ (0 + 1 \notin DOMAIN disk \/ 0 + 1 = LastFile)
    BY <1>7 DEF AInv, RotationInv, MoveCurrent
  <2> QED
    BY <1>7, <2>1, ForgetsOldest DEF MoveCurrent
<1>8. CASE Reopen
  BY <1>8, ForgetsNone DEF Reopen
<1>9. CASE WriteLine
  <2>1. PICK x \in -MaxLogs..MaxLogs : Adds(x) /\ Number(x) = entry /\ x # 0
    BY <1>9, LineWritten
  <2> QED
    BY <1>9, <2>1, AddsNewest DEF WriteLine
<1>10. CASE GivesUp
  BY <1>10, OldestKept DEF GivesUp
<1>11. CASE Tears
  <2>1. PICK x \in -MaxLogs..MaxLogs : Adds(x) /\ x = 0
    <3>1. 0 \in -MaxLogs..MaxLogs /\ Adds(0)
      BY <1>11, BoundsAssumption DEF Tears, Adds
    <3> QED
      BY <3>1
  <2>2. writer = "write" /\ written' = written /\ faults' = faults + 1
    BY <1>11 DEF Tears
  <2>3. Adds(x)
    BY <2>1
  <2>4. \/ x = 0 /\ written' = written
        \/ x # 0 /\ Number(x) = entry /\ written' = written \cup {entry}
    BY <2>1, <2>2
  <2> QED
    BY <2>2, <2>3, <2>4, AddsNewest
<1>12. CASE SkipsStat
  BY <1>12, ForgetsNone DEF SkipsStat
<1>13. CASE Close
  BY <1>13, OldestKept DEF Close
<1>14. CASE CloseReturns
  BY <1>14, OldestKept DEF CloseReturns
<1>15. CASE CloseTimesOut
  BY <1>15, OldestKept DEF CloseTimesOut
<1>16. CASE Restart
  BY <1>16, OldestKept DEF Restart
<1>17. CASE UNCHANGED vars
  BY <1>17, OldestKept
<1> QED
  BY FailCases, <1>1, <1>2, <1>3, <1>4, <1>5, <1>6, <1>7, <1>8, <1>9, <1>10, <1>11,
       <1>12, <1>13, <1>14, <1>15, <1>16, <1>17 DEF Next, WriterStep

\* Entries go from the queue to the writer, and from there to the file or lost.
LEMMA AccountStep ==
  ASSUME AInv, [Next]_vars
  PROVE  AccountInv'
<1> USE BoundsAssumption DEF AInv, TypeOK, EntryInv, AccountInv, Queued, Busy, vars,
         queueVars, writerVars, closeVars, Faulty
<1>1. CASE Log
  <2>1. UNCHANGED <<written, entry>> /\ logged' = logged + 1 /\ Len(channel) \in Nat
    BY <1>1, LenProperties DEF Log
  <2>2. Queued \subseteq Queued' /\ logged + 1 \in Queued' \cup lost' /\ lost \subseteq lost'
    <3>1. CASE channel' = channel /\ lost' = lost \cup {logged + 1}
      BY <3>1
    <3>2. CASE /\ Len(channel') = Len(channel) + 1 /\ channel'[Len(channel) + 1] = logged + 1
               /\ \A k \in 1..Len(channel) : channel'[k] = channel[k]
               /\ lost' = lost
      BY <2>1, <3>2
    <3> QED
      BY <1>1, <3>1, <3>2, Enqueued
  <2>3. \A e \in 1..logged' : e \in 1..logged \/ e = logged + 1
    BY <2>1
  <2> QED
    BY <2>1, <2>2, <2>3
<1>2. CASE Receive
  <2>1. Queued \subseteq Queued' \cup {entry'} /\ entry = 0
    <3>1. ASSUME NEW k \in 1..Len(channel) PROVE channel[k] \in Queued' \cup {entry'}
      <4>1. CASE k = 1
        BY <1>2, <4>1, Dequeued
      <4>2. CASE k # 1
        <5>1. k - 1 \in 1..Len(channel') /\ channel'[k - 1] = channel[k]
          <6>1. k - 1 \in 1..Len(channel') /\ (k - 1) + 1 = k
            BY <1>2, <4>2, Dequeued
          <6>2. channel'[k - 1] = channel[(k - 1) + 1]
            BY <1>2, <6>1, Dequeued
          <6> QED
            BY <6>1, <6>2
        <5> QED
          BY <5>1
      <4> QED
        BY <4>1, <4>2
    <3> QED
      BY <1>2, <3>1 DEF Receive
  <2>2. UNCHANGED <<logged, written, lost>>
    BY <1>2 DEF Receive
  <2>3. \A e \in 1..logged : e # entry
    BY <2>1
  <2> QED
    BY <2>1, <2>2, <2>3
<1>3. CASE SeeCancel
  BY <1>3 DEF SeeCancel, AfterCancel
<1>4. CASE DrainEnds
  BY <1>4 DEF DrainEnds
<1>5. CASE OpenLog
  BY <1>5 DEF OpenLog
<1>6. CASE Shift
  BY <1>6 DEF Shift
<1>7. CASE MoveCurrent
  BY <1>7 DEF MoveCurrent
<1>8. CASE Reopen
  BY <1>8 DEF Reopen
<1>9. CASE WriteLine
  BY <1>9 DEF WriteLine, BackToLoop, Written
<1>10. CASE GivesUp
  BY <1>10 DEF GivesUp, BackToLoop
<1>11. CASE Tears
  BY <1>11 DEF Tears, BackToLoop
<1>12. CASE SkipsStat
  BY <1>12 DEF SkipsStat
<1>13. CASE Close
  BY <1>13 DEF Close
<1>14. CASE CloseReturns
  BY <1>14 DEF CloseReturns
<1>15. CASE CloseTimesOut
  BY <1>15 DEF CloseTimesOut
<1>16. CASE Restart
  BY <1>16 DEF Restart
<1>17. CASE UNCHANGED vars
  BY <1>17
<1> QED
  BY FailCases, <1>1, <1>2, <1>3, <1>4, <1>5, <1>6, <1>7, <1>8, <1>9, <1>10, <1>11,
       <1>12, <1>13, <1>14, <1>15, <1>16, <1>17 DEF Next, WriterStep

\* The drain loop ends with an empty queue, after Close was called.
LEMMA CloseStep ==
  ASSUME AInv, [Next]_vars
  PROVE  CloseInv'
<1> USE BoundsAssumption DEF AInv, TypeOK, CloseInv, Busy, vars, queueVars, writerVars,
         closeVars, Faulty
<1>1. CASE Log
  BY <1>1, Enqueued DEF Log
<1>2. CASE Receive
  BY <1>2 DEF Receive
<1>3. CASE SeeCancel
  BY <1>3 DEF SeeCancel, AfterCancel
<1>4. CASE DrainEnds
  BY <1>4 DEF DrainEnds
<1>5. CASE OpenLog
  BY <1>5 DEF OpenLog
<1>6. CASE Shift
  BY <1>6 DEF Shift
<1>7. CASE MoveCurrent
  BY <1>7 DEF MoveCurrent
<1>8. CASE Reopen
  BY <1>8 DEF Reopen
<1>9. CASE WriteLine
  BY <1>9 DEF WriteLine, BackToLoop, Written
<1>10. CASE GivesUp
  BY <1>10 DEF GivesUp, BackToLoop
<1>11. CASE Tears
  BY <1>11 DEF Tears, BackToLoop
<1>12. CASE SkipsStat
  BY <1>12 DEF SkipsStat
<1>13. CASE Close
  BY <1>13 DEF Close, QueueInv
<1>14. CASE CloseReturns
  BY <1>14 DEF CloseReturns
<1>15. CASE CloseTimesOut
  BY <1>15 DEF CloseTimesOut
<1>16. CASE Restart
  BY <1>16 DEF Restart
<1>17. CASE UNCHANGED vars
  BY <1>17
<1> QED
  BY FailCases, <1>1, <1>2, <1>3, <1>4, <1>5, <1>6, <1>7, <1>8, <1>9, <1>10, <1>11,
       <1>12, <1>13, <1>14, <1>15, <1>16, <1>17 DEF Next, WriterStep

-----------------------------------------------------------------------------
(* Theorems. *)

\* A first auditor has an empty queue and an empty log.
LEMMA InitAInv == Init => AInv
<1> SUFFICES ASSUME Init PROVE AInv
  OBVIOUS
<1> USE BoundsAssumption, RotationAssumption, CapacityAssumption
<1>1. DOMAIN disk = {} /\ channel = <<>> /\ Len(channel) = 0 /\ channel \in Seq(1..MaxLogs)
  BY DEF Init
<1>2. TypeOK
  <2>1. DOMAIN disk \subseteq Files /\ Len(channel) <= Capacity
    BY <1>1
  <2>2. index \in -1..RotationCount /\ faults \in 0..MaxFaults /\ restarts \in 0..MaxRestarts
        /\ logged \in 0..MaxLogs /\ entry \in 0..MaxLogs /\ mark \in 0..MaxLogs
    BY DEF Init
  <2>3. written \subseteq 1..MaxLogs /\ lost \subseteq 1..MaxLogs /\ writer = "select"
        /\ draining \in BOOLEAN /\ cancelled \in BOOLEAN /\ closer = "open"
    BY DEF Init
  <2> QED
    BY <1>1, <2>1, <2>2, <2>3 DEF TypeOK
<1>3. EntryInv /\ QueueInv /\ RotationInv /\ SizeInv /\ DueInv
  BY <1>1 DEF Init, EntryInv, QueueInv, RotationInv, SizeInv, DueInv, Busy
<1>4. LinesInv /\ OnlyOldestForgotten
  BY <1>1 DEF Init, LinesInv, OnlyOldestForgotten, OnDisk
<1>5. AccountInv /\ CloseInv
  BY <1>1 DEF Init, AccountInv, CloseInv
<1> QED
  BY <1>2, <1>3, <1>4, <1>5 DEF AInv

\* Every step keeps the invariant.
LEMMA AInvStep == AInv /\ [Next]_vars => AInv'
<1> SUFFICES ASSUME AInv, [Next]_vars PROVE AInv'
  OBVIOUS
<1>1. TypeOK'
  BY DiskStep, RestStep DEF TypeOK, DiskOK, RestOK
<1> QED
  BY <1>1, EntryStep, QueueStep, RotationStep, SizeStep, DueStep, LinesStep, OldestStep,
     AccountStep, CloseStep DEF AInv

\* The inductive invariant holds in every reachable state.
THEOREM AuditorInvariant == Spec => []AInv
BY InitAInv, AInvStep, PTL DEF Spec

\* The queue stays within the channel's buffer and the log within its size, but
\* for a line per failed Stat; rotation makes no file beyond its count.
THEOREM AuditorTypes == Spec => []TypeOK
<1>1. AInv => TypeOK
  BY DEF AInv
<1> QED
  BY <1>1, AuditorInvariant, PTL

\* The readable lines, oldest file first, are in the order of the Log calls.
THEOREM TrailInOrder == Spec => []TrailOrdered
<1>1. AInv => TrailOrdered
  <2> SUFFICES ASSUME AInv PROVE TrailOrdered
    OBVIOUS
  <2>1. \A k \in DOMAIN disk : \A m, n \in 1..Len(disk[k]) :
          m < n /\ disk[k][m] > 0 /\ disk[k][n] > 0 => disk[k][m] < disk[k][n]
    <3>1. \A k \in DOMAIN disk : \A n \in 1..Len(disk[k]) : disk[k][n] \in Int
      BY ElementOfSeq, BoundsAssumption DEF AInv, TypeOK
    <3> QED
      BY <3>1 DEF AInv, LinesInv, Number
  <2>2. ASSUME NEW j \in DOMAIN disk, NEW k \in DOMAIN disk, j < k,
               NEW e \in Entries(k), NEW f \in Entries(j)
        PROVE  e < f
    <3>1. PICK n \in 1..Len(disk[k]) : e = disk[k][n] /\ e \in 1..MaxLogs
      BY DEF Entries
    <3>2. PICK m \in 1..Len(disk[j]) : f = disk[j][m] /\ f \in 1..MaxLogs
      BY DEF Entries
    <3>3. Number(e) = e /\ Number(f) = f /\ e # 0 /\ f # 0
      BY <3>1, <3>2, BoundsAssumption DEF Number
    <3> QED
      BY <2>2, <3>1, <3>2, <3>3 DEF AInv, LinesInv
  <2> QED
    BY <2>1, <2>2 DEF TrailOrdered
<1> QED
  BY <1>1, AuditorInvariant, PTL

\* rotateLog drops its oldest file and nothing else, whatever fails and wherever
\* the process ends.
THEOREM OldestForgotten == Spec => []OnlyOldestForgotten
<1>1. AInv => OnlyOldestForgotten
  BY DEF AInv
<1> QED
  BY <1>1, AuditorInvariant, PTL

\* A step that forgets an entry is a rotation of a log of MaxSize lines, and
\* those lines stay: rotateLog never leaves a reader fewer.
ForgetsOnlyWhenFull ==
  [][\/ OnDisk \subseteq OnDisk'
     \/ /\ 0 \in DOMAIN disk /\ Len(disk[0]) >= MaxSize
        /\ \E k \in DOMAIN disk' : disk'[k] = disk[0]]_vars

\* rotateLog makes room by forgetting only when it keeps a full log in exchange.
THEOREM ForgettingKeepsALog == Spec => ForgetsOnlyWhenFull
<1> DEFINE Forgets == /\ 0 \in DOMAIN disk /\ Len(disk[0]) >= MaxSize
                      /\ \E k \in DOMAIN disk' : disk'[k] = disk[0]
<1>1. ASSUME AInv, Next PROVE OnDisk \subseteq OnDisk' \/ Forgets
  <2>1. CASE Shift
    <3>1. CASE index \in DOMAIN disk
      <4>1. /\ disk' = Rename(index) /\ index \in 1..RotationCount - 1
            /\ 0 \in DOMAIN disk /\ Len(disk[0]) >= MaxSize
        BY <1>1, <2>1, <3>1 DEF Shift, AInv, RotationInv, DueInv
      <4>2. 0 \in DOMAIN disk' /\ disk'[0] = disk[0]
        BY <4>1 DEF Rename
      <4> QED
        BY <4>1, <4>2
    <3>2. CASE index \notin DOMAIN disk
      BY <2>1, <3>2 DEF Shift, OnDisk
    <3> QED
      BY <3>1, <3>2
  <2>2. CASE MoveCurrent
    <3>1. disk' = Rename(0) /\ 0 \in DOMAIN disk /\ Len(disk[0]) >= MaxSize
      BY <1>1, <2>2 DEF MoveCurrent, AInv, RotationInv, DueInv
    <3>2. 1 \in DOMAIN disk' /\ disk'[1] = disk[0]
      BY <3>1 DEF Rename
    <3> QED
      BY <3>1, <3>2
  <2>3. CASE OpenLog \/ Reopen \/ SkipsStat
    BY <2>3, OpeningKeeps DEF OpenLog, Reopen, SkipsStat
  <2>4. CASE WriteLine
    <3>1. PICK x \in -MaxLogs..MaxLogs : Adds(x)
      BY <1>1, <2>4, LineWritten
    <3> QED
      BY <1>1, <2>4, <3>1, AddingKeeps DEF WriteLine
  <2>5. CASE Tears
    <3>1. 0 \in -MaxLogs..MaxLogs /\ Adds(0) /\ writer = "write"
      BY <2>5, BoundsAssumption DEF Tears, Adds
    <3>2. PICK x \in -MaxLogs..MaxLogs : Adds(x)
      BY <3>1
    <3> QED
      BY <1>1, <3>1, <3>2, AddingKeeps
  <2>6. CASE Log \/ Receive \/ SeeCancel \/ DrainEnds \/ GivesUp
    BY <2>6 DEF Log, Receive, SeeCancel, DrainEnds, GivesUp, OnDisk
  <2>7. CASE Close \/ CloseReturns \/ CloseTimesOut \/ Restart
    BY <2>7 DEF Close, CloseReturns, CloseTimesOut, Restart, OnDisk
  <2> QED
    BY <1>1, <2>1, <2>2, <2>3, <2>4, <2>5, <2>6, <2>7, FailCases DEF Next, WriterStep
<1>2. AInv /\ [Next]_vars => [OnDisk \subseteq OnDisk' \/ Forgets]_vars
  BY <1>1
<1> QED
  BY <1>2, AuditorInvariant, PTL DEF Spec, ForgetsOnlyWhenFull

\* A Close that returns in time leaves no entry behind that was logged before it.
THEOREM CloseDrains == Spec => []DrainedOnClose
<1>1. AInv => DrainedOnClose
  <2> SUFFICES ASSUME AInv, closer = "returned", NEW e \in 1..mark
               PROVE  e \in written \cup lost
    BY DEF DrainedOnClose
  <2>1. writer = "exited" /\ entry = 0
    BY DEF AInv, CloseInv, EntryInv, Busy
  <2>2. mark \in Nat /\ logged \in Nat /\ mark <= logged
    BY BoundsAssumption DEF AInv, TypeOK, CloseInv
  <2>3. e \in written \cup lost \cup Queued \cup {entry}
    BY <2>2 DEF AInv, AccountInv
  <2>4. \A k \in 1..Len(channel) : mark < channel[k] /\ channel[k] \in Int
    BY <2>1 DEF AInv, CloseInv, QueueInv
  <2>5. e \notin Queued /\ e # entry
    BY <2>1, <2>2, <2>4 DEF Queued
  <2> QED
    BY <2>3, <2>5
<1> QED
  BY <1>1, AuditorInvariant, PTL
=============================================================================

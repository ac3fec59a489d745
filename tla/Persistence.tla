----------------------------- MODULE Persistence -----------------------------
(***************************************************************************)
(* internal/task/persistence.go: the store written to a file at every tick *)
(* and once more by Stop, and read back by Start in the next process.      *)
(*                                                                         *)
(* The store's content is a version number; of its JSON encoding only the  *)
(* length matters.  A byte of the file is the version whose encoding it    *)
(* belongs to.  Two savers, saveLoop's goroutine and Stop, share the file  *)
(* without a lock: os.WriteFile opens it with O_TRUNC and writes from      *)
(* offset 0 of its own descriptor, so that overlapping saves can leave     *)
(* bytes of both.  The process may end at any step.                        *)
(*                                                                         *)
(* The model is of an enabled configuration with RestoreOnLoad, and of one *)
(* call of Start and at most one of Stop per process (a second Stop finds  *)
(* running unset and does nothing).                                        *)
(***************************************************************************)
EXTENDS Integers, Sequences

CONSTANTS
  MaxVersion,    \* bound: changes of the store
  Size,          \* Size[v]: the length of version v's encoding
  MaxFaults,     \* bound: failed file operations
  MaxRestarts    \* bound: restarts of the process

Versions == 0..MaxVersion      \* 0 is the empty store
Savers   == {"loop", "stop"}

ASSUME VersionAssumption == MaxVersion \in Nat
ASSUME SizeAssumption == Size \in [Versions -> Nat \ {0}]
ASSUME BoundsAssumption == MaxFaults \in Nat /\ MaxRestarts \in Nat

VARIABLES
  phase,      \* what the process did: nothing yet, Start, Stop, a failed Start
  store,      \* the version the store holds
  issued,     \* the newest version there ever was
  file,       \* the bytes of the tasks file, or Missing
  pc,         \* pc[s]: where saver s is in save()
  snap,       \* snap[s]: the version its GetAll returned
  overlap,    \* overlap[s]: its save met the other saver's (history)
  disturbed,  \* the last save to end was torn or overlapped (history)
  saved,      \* the version of the last save that succeeded (history)
  mark,       \* the version of the store when Stop was called (history)
  faults, restarts

saveVars  == <<pc, snap, overlap>>
boundVars == <<faults, restarts>>
vars == <<phase, store, issued, file, saveVars, disturbed, saved, mark, boundVars>>

Missing == <<-1>>

\* What json.MarshalIndent makes of version v
Encoding(v) == [i \in 1..Size[v] |-> v]

\* json.Unmarshal takes one whole encoding: an empty file, a prefix and bytes
\* behind the end of the value are errors.
Parses(f) == \E v \in Versions : f = Encoding(v)
Parsed(f) == CHOOSE v \in Versions : f = Encoding(v)

KeepsOldBytes(f)    == f               \* mutant: opened without O_TRUNC
ForgetsTasks(f)     == 0               \* mutant: parsed and not put in the store

\* restore's answer for a file: without one there is nothing to restore.
Restorable(f) == f = Missing \/ Parses(f)
Restored(f)   == IF f = Missing THEN 0 ELSE Parsed(f)

\* O_CREATE and O_TRUNC, then bytes written at the start
Truncated(f)        == <<>>
Overwritten(f, new) == new \o SubSeq(f, Len(new) + 1, Len(f))

Saving(s)  == pc[s] \in {"snapped", "opened"}
Other(s)   == IF s = "loop" THEN "stop" ELSE "loop"

-----------------------------------------------------------------------------
Init ==
  /\ phase = "down" /\ store = 0 /\ issued = 0
  /\ file = Missing
  /\ pc = [s \in Savers |-> "idle"] /\ snap = [s \in Savers |-> 0]
  /\ overlap = [s \in Savers |-> FALSE]
  /\ disturbed = FALSE /\ saved = 0 /\ mark = 0
  /\ faults = 0 /\ restarts = 0

\* Start: restore, then the ticker and saveLoop
Start ==
  /\ phase = "down"
  /\ IF Restorable(file)
       THEN phase' = "running" /\ store' = Restored(file)
       ELSE phase' = "failed" /\ UNCHANGED store
  /\ UNCHANGED <<issued, file, saveVars, disturbed, saved, mark, boundVars>>

\* The directory cannot be made or the file not be read.
StartRefused ==
  /\ phase = "down" /\ faults < MaxFaults
  /\ phase' = "refused" /\ faults' = faults + 1
  /\ UNCHANGED <<store, issued, file, saveVars, disturbed, saved, mark, restarts>>

\* A task is saved, updated or deleted.
Change ==
  /\ phase \in {"running", "stopping", "stopped"} /\ issued < MaxVersion
  /\ issued' = issued + 1 /\ store' = issued'
  /\ UNCHANGED <<phase, file, saveVars, disturbed, saved, mark, boundVars>>

\* saveLoop receives a tick.
TakeTick ==
  /\ phase = "running" /\ pc["loop"] = "idle"
  /\ pc' = [pc EXCEPT !["loop"] = "due"]
  /\ UNCHANGED <<phase, store, issued, file, snap, overlap, disturbed, saved, mark, boundVars>>

StopUnsaved ==    \* mutant: the last save is left to the ticker
  /\ phase = "running"
  /\ phase' = "stopped" /\ mark' = store
  /\ pc' = [pc EXCEPT !["stop"] = "saved"]
  /\ UNCHANGED <<store, issued, file, snap, overlap, disturbed, saved, boundVars>>

\* Stop stops the ticker; a save that saveLoop has begun goes on.
Stop ==
  /\ phase = "running"
  /\ phase' = "stopping" /\ mark' = store
  /\ pc' = [pc EXCEPT !["stop"] = "due"]
  /\ UNCHANGED <<store, issued, file, snap, overlap, disturbed, saved, boundVars>>

-----------------------------------------------------------------------------
(* save(), by either saver *)

LoopGivesUp(s, how) == /\ pc' = [pc EXCEPT ![s] = how]      \* mutant
                       /\ phase' = IF s = "stop" THEN "stopped" ELSE phase

\* The loop waits for its next tick, whatever came of the save; Stop returns.
SaveReturns(s, how) ==
  /\ pc' = [pc EXCEPT ![s] = IF s = "loop" THEN "idle" ELSE how]
  /\ phase' = IF s = "stop" THEN "stopped" ELSE phase

\* GetAll, under the store's read lock
Snapshot(s) ==
  /\ pc[s] = "due"
  /\ pc' = [pc EXCEPT ![s] = "snapped"]
  /\ snap' = [snap EXCEPT ![s] = store]
  /\ overlap' = IF Saving(Other(s)) THEN [r \in Savers |-> TRUE]
                ELSE [overlap EXCEPT ![s] = FALSE]
  /\ UNCHANGED <<phase, store, issued, file, disturbed, saved, mark, boundVars>>

OpenFile(s) ==
  /\ pc[s] = "snapped"
  /\ file' = Truncated(file)
  /\ pc' = [pc EXCEPT ![s] = "opened"]
  /\ UNCHANGED <<phase, store, issued, snap, overlap, disturbed, saved, mark, boundVars>>

WriteFile(s) ==
  /\ pc[s] = "opened"
  /\ file' = Overwritten(file, Encoding(snap[s]))
  /\ saved' = snap[s]
  /\ disturbed' = overlap[s]
  /\ SaveReturns(s, "saved")
  /\ UNCHANGED <<store, issued, snap, overlap, mark, boundVars>>

\* The file cannot be opened, or the disk is full after some bytes.
SaveFails(s) ==
  /\ faults < MaxFaults /\ faults' = faults + 1
  /\ \/ pc[s] = "snapped" /\ UNCHANGED <<file, disturbed>>
     \/ /\ pc[s] = "opened"
        /\ \E n \in 0..Size[snap[s]] - 1 :
             file' = Overwritten(file, SubSeq(Encoding(snap[s]), 1, n))
        /\ disturbed' = TRUE
  /\ SaveReturns(s, "gaveUp")
  /\ UNCHANGED <<store, issued, snap, overlap, saved, mark, restarts>>

\* The process ends, after Stop or before, and the next one begins: the file
\* is as the write calls left it, the store is empty.
Restart ==
  /\ phase # "down" /\ restarts < MaxRestarts /\ restarts' = restarts + 1
  /\ phase' = "down" /\ store' = 0
  /\ pc' = [s \in Savers |-> "idle"] /\ snap' = [s \in Savers |-> 0]
  /\ overlap' = [s \in Savers |-> FALSE]
  /\ disturbed' = (disturbed \/ \E s \in Savers : pc[s] = "opened")
  /\ UNCHANGED <<issued, file, saved, mark, faults>>

SaveStep(s) == Snapshot(s) \/ OpenFile(s) \/ WriteFile(s)

Next == \/ Start \/ StartRefused \/ Change \/ TakeTick \/ Stop \/ Restart
        \/ \E s \in Savers : SaveStep(s) \/ SaveFails(s)

Spec == Init /\ [][Next]_vars

\* The ticker ticks and a save that began goes on; nothing has to change,
\* fail, stop or restart.
FairSpec == Spec /\ WF_vars(TakeTick) /\ \A s \in Savers : WF_vars(SaveStep(s))

-----------------------------------------------------------------------------
(* Properties. *)

TypeOK ==
  /\ phase \in {"down", "running", "stopping", "stopped", "failed", "refused"}
  /\ store \in Versions /\ issued \in Versions
  /\ file = Missing \/ file \in Seq(Versions)
  /\ pc \in [Savers -> {"idle", "due", "snapped", "opened", "saved", "gaveUp"}]
  /\ pc["loop"] \notin {"saved", "gaveUp"}
  /\ snap \in [Savers -> Versions]
  /\ overlap \in [Savers -> BOOLEAN] /\ disturbed \in BOOLEAN
  /\ saved \in Versions /\ mark \in Versions
  /\ faults \in 0..MaxFaults /\ restarts \in 0..MaxRestarts

\* A file no Start can read is left only by a write that is under way, was cut
\* short, or was mixed with the other saver's: a shorter store written over a
\* longer one, an empty store and a first run leave none.
ReadableUnlessDisturbed ==
  Restorable(file) \/ disturbed \/ \E s \in Savers : pc[s] = "opened"

\* Start in the next process brings back the version of the last save that
\* succeeded, wherever the last process ended, unless that save was disturbed;
\* only then can it find a file it does not understand.
RestartRestoresLastSave ==
  [][phase = "down" /\ phase' \in {"running", "failed"} /\ ~disturbed
       => phase' = "running" /\ store' = saved]_vars

\* After a Stop whose save succeeded the file is as new as the store was when
\* Stop was called, although saveLoop may still be writing, unless their saves
\* overlapped or a later one was cut short.
StopSaves ==
  pc["stop"] = "saved" =>
    \/ disturbed \/ overlap["stop"] \/ pc["loop"] = "opened"
    \/ Parses(file) /\ Parsed(file) >= mark

\* While the manager runs, every version of the store, or a newer one, reaches
\* the file, through failed saves: the loop does not end with one.
ChangeReachesFile ==
  \A v \in Versions :
    (phase = "running" /\ store = v) ~>
      (phase # "running" \/ (Parses(file) /\ Parsed(file) >= v))
=============================================================================

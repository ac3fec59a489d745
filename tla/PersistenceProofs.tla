-------------------------- MODULE PersistenceProofs --------------------------
(***************************************************************************)
(* What Persistence claims of the file and of the next process, for any    *)
(* sizes of the encodings and any number of changes, failures and          *)
(* restarts: facts about encodings and writes, the inductive invariant     *)
(* PInv, part by part, and the theorems that follow from it.               *)
(***************************************************************************)
EXTENDS Persistence, SequenceTheorems, TLAPS

-----------------------------------------------------------------------------
(* The inductive invariant. *)

\* What the process has done says which savers can be at work; the store is
\* never newer than the last change, nor older than a Stop found it.
PhaseInv ==
  /\ phase \in {"down", "failed", "refused"} => \A s \in Savers : pc[s] = "idle"
  /\ phase = "running" => pc["stop"] = "idle"
  /\ store <= issued
  /\ phase \in {"stopping", "stopped"} => mark <= store

\* No byte of the file and no snapshot is newer than the last change.
IssuedInv ==
  /\ file # Missing => \A i \in 1..Len(file) : file[i] <= issued
  /\ \A s \in Savers : snap[s] <= issued

\* Two savers at once know of each other; one that is alone has the file to
\* itself from its truncation to its write.
SaverInv ==
  /\ Saving("loop") /\ Saving("stop") => overlap["loop"] /\ overlap["stop"]
  /\ \A s \in Savers : pc[s] = "opened" => file # Missing /\ (~overlap[s] => file = <<>>)

\* What Stop saves, and what the loop saves after it, is as new as the store
\* was when Stop was called.
StopInv ==
  /\ pc["stop"] \in {"snapped", "opened"} => mark <= snap["stop"]
  /\ pc["stop"] \in {"snapped", "opened", "saved"} /\ ~overlap["stop"] /\ Saving("loop") =>
       mark <= snap["loop"]
  /\ pc["stop"] = "saved" => file # Missing /\ (~overlap["stop"] => mark <= saved)

\* With no save disturbed or under way the file is what the last save wrote.
FileInv ==
  ~disturbed /\ (\A s \in Savers : pc[s] # "opened") =>
    \/ file = Missing /\ saved = 0
    \/ file = Encoding(saved)

PInv == TypeOK /\ PhaseInv /\ IssuedInv /\ SaverInv /\ StopInv /\ FileInv

-----------------------------------------------------------------------------
(* What a write leaves of a file, and what a reader makes of it. *)

\* An encoding is a nonempty sequence of its version's bytes.
LEMMA EncodingShape ==
  ASSUME NEW v \in Versions
  PROVE  /\ Encoding(v) \in Seq(Versions) /\ Len(Encoding(v)) = Size[v]
         /\ Size[v] \in Nat \ {0}
         /\ \A i \in 1..Size[v] : Encoding(v)[i] = v
         /\ Encoding(v) # Missing
<1>1. Size[v] \in Nat \ {0}
  BY SizeAssumption
<1>2. Encoding(v) \in Seq(Versions) /\ Len(Encoding(v)) = Size[v]
  BY <1>1 DEF Encoding
<1>3. \A i \in 1..Size[v] : Encoding(v)[i] = v
  BY DEF Encoding
<1>4. Encoding(v) # Missing
  <2>1. Encoding(v)[1] = v /\ Missing[1] = -1
    BY <1>1, <1>3 DEF Missing
  <2>2. v # -1
    BY VersionAssumption DEF Versions
  <2> QED
    BY <2>1, <2>2
<1> QED
  BY <1>1, <1>2, <1>3, <1>4

\* What save wrote is what restore reads: no two versions are encoded alike.
LEMMA ParsedEncoding ==
  ASSUME NEW v \in Versions
  PROVE  /\ Parses(Encoding(v)) /\ Parsed(Encoding(v)) = v
         /\ Restorable(Encoding(v)) /\ Restored(Encoding(v)) = v
<1>1. Parses(Encoding(v))
  BY DEF Parses
<1>2. ASSUME NEW w \in Versions, Encoding(v) = Encoding(w) PROVE w = v
  <2>1. Encoding(v)[1] = v /\ Encoding(w)[1] = w
    BY EncodingShape
  <2> QED
    BY <1>2, <2>1
<1>3. Parsed(Encoding(v)) \in Versions /\ Encoding(v) = Encoding(Parsed(Encoding(v)))
  BY DEF Parsed
<1>4. Parsed(Encoding(v)) = v
  BY <1>2, <1>3
<1> QED
  BY <1>1, <1>4, EncodingShape DEF Restorable, Restored

\* A write into an empty file leaves what it wrote.
LEMMA WriteIntoEmpty ==
  ASSUME NEW e \in Seq(Versions)
  PROVE  Overwritten(<<>>, e) = e
<1>1. Len(e) \in Nat /\ Len(<<>>) = 0
  BY LenProperties
<1>2. SubSeq(<<>>, Len(e) + 1, Len(<<>>)) = <<>>
  BY <1>1, SubSeqEmpty
<1> QED
  BY <1>2, ConcatEmptySeq DEF Overwritten

\* A write, whole or cut short, leaves bytes of what it wrote and of what was
\* there: none is newer than both.
LEMMA WriteKeepsBound ==
  ASSUME NEW f \in Seq(Versions), NEW e \in Seq(Versions), NEW n \in Versions,
         \A i \in 1..Len(f) : f[i] <= n,
         \A i \in 1..Len(e) : e[i] <= n
  PROVE  /\ Overwritten(f, e) \in Seq(Versions)
         /\ \A i \in 1..Len(Overwritten(f, e)) : Overwritten(f, e)[i] <= n
<1> DEFINE t == SubSeq(f, Len(e) + 1, Len(f))
<1>1. Len(e) \in Nat /\ Len(f) \in Nat
  BY LenProperties
<1>2. t \in Seq(Versions)
  BY <1>1, SubSeqProperties
<1>3. \A i \in 1..Len(t) : t[i] <= n
  BY <1>1, SubSeqProperties
<1>4. /\ e \o t \in Seq(Versions) /\ Len(e \o t) = Len(e) + Len(t)
      /\ \A i \in 1..Len(e) + Len(t) :
           (e \o t)[i] = IF i <= Len(e) THEN e[i] ELSE t[i - Len(e)]
  BY <1>2, ConcatProperties
<1>5. Len(t) \in Nat
  BY <1>2, LenProperties
<1>6. ASSUME NEW i \in 1..Len(e \o t) PROVE (e \o t)[i] <= n
  <2>1. CASE i <= Len(e)
    BY <1>1, <1>4, <1>5, <2>1
  <2>2. CASE i > Len(e)
    <3> DEFINE k == i - Len(e)
    <3>1. k \in 1..Len(t)
      BY <1>1, <1>4, <1>5, <2>2
    <3>2. (e \o t)[i] = t[k]
      BY <1>1, <1>4, <1>5, <2>2
    <3> QED
      BY <3>1, <3>2, <1>3
  <2> QED
    BY <2>1, <2>2, <1>1, <1>4, <1>5
<1> QED
  BY <1>4, <1>6 DEF Overwritten

\* What is written of version v at once, all of it or its first bytes
LEMMA PrefixShape ==
  ASSUME NEW v \in Versions, NEW n \in 0..Size[v] - 1
  PROVE  /\ SubSeq(Encoding(v), 1, n) \in Seq(Versions)
         /\ \A i \in 1..Len(SubSeq(Encoding(v), 1, n)) :
              SubSeq(Encoding(v), 1, n)[i] = v
<1>1. /\ Encoding(v) \in Seq(Versions) /\ Len(Encoding(v)) = Size[v] /\ Size[v] \in Nat
      /\ \A i \in 1..Size[v] : Encoding(v)[i] = v
  BY EncodingShape
<1>2. n \in Nat /\ n <= Size[v]
  BY <1>1
<1>3. /\ SubSeq(Encoding(v), 1, n) \in Seq(Versions) /\ Len(SubSeq(Encoding(v), 1, n)) = n
      /\ \A i \in 1..n : SubSeq(Encoding(v), 1, n)[i] = Encoding(v)[i]
  BY <1>1, <1>2, SubSeqProperties
<1> QED
  BY <1>1, <1>2, <1>3

\* The mark of an absent file is no content.
LEMMA NoByteMissing == Missing \notin Seq(Versions)
<1> SUFFICES ASSUME Missing \in Seq(Versions) PROVE FALSE
  OBVIOUS
<1>1. Missing[1] \in Versions
  BY DEF Missing
<1> QED
  BY <1>1, VersionAssumption DEF Missing, Versions

\* The file that Start reads gives it a version that was issued.
LEMMA RestoredVersion ==
  ASSUME PInv, Restorable(file)
  PROVE  Restored(file) \in Versions /\ Restored(file) <= issued
<1> USE VersionAssumption DEF PInv, TypeOK
<1>1. CASE file = Missing
  BY <1>1 DEF Restored, Versions
<1>2. CASE file # Missing
  <2>1. PICK v \in Versions : file = Encoding(v)
    BY <1>2 DEF Restorable, Parses
  <2>2. Restored(file) = v
    BY <2>1, ParsedEncoding
  <2>3. file[1] = v /\ 1 \in 1..Len(file)
    <3>1. Size[v] \in Nat \ {0} /\ Len(Encoding(v)) = Size[v]
      BY EncodingShape
    <3>2. 1 \in 1..Size[v]
      BY <3>1
    <3>3. Encoding(v)[1] = v
      BY <3>2, EncodingShape
    <3> QED
      BY <2>1, <3>1, <3>2, <3>3
  <2>4. file[1] <= issued
    BY <1>2, <2>3 DEF IssuedInv
  <2> QED
    BY <2>2, <2>3, <2>4
<1> QED
  BY <1>1, <1>2

\* A saver that has opened the file leaves issued bytes; alone, its encoding.
LEMMA WrittenFile ==
  ASSUME PInv, NEW s \in Savers, WriteFile(s)
  PROVE  /\ file' \in Seq(Versions) /\ file' # Missing
         /\ \A i \in 1..Len(file') : file'[i] <= issued
         /\ ~overlap[s] => file' = Encoding(snap[s])
<1> DEFINE e == Encoding(snap[s])
<1>1. /\ snap[s] \in Versions /\ issued \in Versions /\ snap[s] <= issued
      /\ file \in Seq(Versions) /\ \A i \in 1..Len(file) : file[i] <= issued
      /\ ~overlap[s] => file = <<>>
      /\ file' = Overwritten(file, e)
  BY DEF PInv, TypeOK, IssuedInv, SaverInv, WriteFile
<1>2. /\ e \in Seq(Versions) /\ Len(e) = Size[snap[s]]
      /\ \A i \in 1..Size[snap[s]] : e[i] = snap[s]
  BY <1>1, EncodingShape
<1>3. \A i \in 1..Len(e) : e[i] <= issued
  BY <1>1, <1>2
<1>4. file' \in Seq(Versions) /\ \A i \in 1..Len(file') : file'[i] <= issued
  BY <1>1, <1>2, <1>3, WriteKeepsBound
<1>5. ~overlap[s] => file' = e
  BY <1>1, <1>2, WriteIntoEmpty
<1> QED
  BY <1>4, <1>5, NoByteMissing

\* So does one whose write is cut short, or that could not open the file.
LEMMA CutFile ==
  ASSUME PInv, NEW s \in Savers, SaveFails(s)
  PROVE  /\ file' = Missing \/ file' \in Seq(Versions)
         /\ file' # Missing => \A i \in 1..Len(file') : file'[i] <= issued
         /\ file # Missing => file' # Missing
         /\ pc[s] = "snapped" => file' = file /\ disturbed' = disturbed
         /\ pc[s] \in {"snapped", "opened"} /\ disturbed' \in BOOLEAN
         /\ pc[s] = "opened" => disturbed'
<1>1. CASE pc[s] = "snapped" /\ UNCHANGED <<file, disturbed>>
  BY <1>1 DEF PInv, TypeOK, IssuedInv
<1>2. CASE pc[s] = "opened" /\ disturbed' = TRUE
           /\ \E n \in 0..Size[snap[s]] - 1 :
                file' = Overwritten(file, SubSeq(Encoding(snap[s]), 1, n))
  <2>1. PICK n \in 0..Size[snap[s]] - 1 :
          file' = Overwritten(file, SubSeq(Encoding(snap[s]), 1, n))
    BY <1>2
  <2> DEFINE e == SubSeq(Encoding(snap[s]), 1, n)
  <2>2. /\ snap[s] \in Versions /\ issued \in Versions /\ snap[s] <= issued
        /\ file \in Seq(Versions) /\ \A i \in 1..Len(file) : file[i] <= issued
    BY <1>2 DEF PInv, TypeOK, IssuedInv, SaverInv
  <2>3. e \in Seq(Versions) /\ \A i \in 1..Len(e) : e[i] = snap[s]
    BY <2>2, PrefixShape
  <2>4. \A i \in 1..Len(e) : e[i] <= issued
    BY <2>2, <2>3
  <2>5. file' \in Seq(Versions) /\ \A i \in 1..Len(file') : file'[i] <= issued
    BY <2>1, <2>2, <2>3, <2>4, WriteKeepsBound
  <2> QED
    BY <1>2, <2>5, NoByteMissing
<1> QED
  BY <1>1, <1>2 DEF SaveFails

-----------------------------------------------------------------------------
(* Each part is kept by every step of a reachable state.                   *)

\* The store never leaves the versions, because what Start restores was issued;
\* bytes of the file are bytes of encodings.
LEMMA TypesStep ==
  ASSUME PInv, [Next]_vars
  PROVE  TypeOK'
<1> USE VersionAssumption, BoundsAssumption DEF PInv, vars, saveVars, boundVars, TypeOK,
         Versions, Savers, PhaseInv
<1>1. CASE Start
  BY <1>1, RestoredVersion DEF Start
<1>2. CASE StartRefused
  BY <1>2 DEF StartRefused
<1>3. CASE Change
  BY <1>3 DEF Change
<1>4. CASE TakeTick
  BY <1>4 DEF TakeTick
<1>5. CASE Stop
  BY <1>5 DEF Stop
<1>6. CASE Restart
  BY <1>6 DEF Restart
<1>7. ASSUME NEW s \in Savers, Snapshot(s) PROVE TypeOK'
  BY <1>7 DEF Snapshot, Saving, Other
<1>8. ASSUME NEW s \in Savers, OpenFile(s) PROVE TypeOK'
  BY <1>8 DEF OpenFile, Truncated
<1>9. ASSUME NEW s \in Savers, WriteFile(s) PROVE TypeOK'
  BY <1>9, WrittenFile DEF WriteFile, SaveReturns
<1>10. ASSUME NEW s \in Savers, SaveFails(s) PROVE TypeOK'
  <2>1. (file' = Missing \/ file' \in Seq(Versions)) /\ disturbed' \in BOOLEAN
    BY <1>10, CutFile
  <2>2. pc' \in [Savers -> {"idle", "due", "snapped", "opened", "saved", "gaveUp"}]
        /\ pc'["loop"] \notin {"saved", "gaveUp"}
    BY <1>10 DEF SaveFails, SaveReturns
  <2>3. phase' \in {"down", "running", "stopping", "stopped", "failed", "refused"}
        /\ faults' \in 0..MaxFaults
    BY <1>10 DEF SaveFails, SaveReturns
  <2>4. UNCHANGED <<store, issued, snap, overlap, saved, mark, restarts>>
    BY <1>10 DEF SaveFails
  <2> QED
    BY <2>1, <2>2, <2>3, <2>4
<1>11. CASE UNCHANGED vars
  BY <1>11
<1> QED
  BY <1>1, <1>2, <1>3, <1>4, <1>5, <1>6, <1>7, <1>8, <1>9, <1>10, <1>11 DEF Next,
       SaveStep

\* A saver is at work only in a process that has started; the store, which only
\* grows while it runs, is as new as Stop found it.
LEMMA PhaseStep ==
  ASSUME PInv, [Next]_vars
  PROVE  PhaseInv'
<1> USE VersionAssumption, BoundsAssumption DEF PInv, vars, saveVars, boundVars, TypeOK,
         Versions, Savers, PhaseInv
<1>1. CASE Start
  BY <1>1, RestoredVersion DEF Start
<1>2. CASE StartRefused
  BY <1>2 DEF StartRefused
<1>3. CASE Change
  BY <1>3 DEF Change
<1>4. CASE TakeTick
  BY <1>4 DEF TakeTick
<1>5. CASE Stop
  BY <1>5 DEF Stop
<1>6. CASE Restart
  BY <1>6 DEF Restart
<1>7. ASSUME NEW s \in Savers, Snapshot(s) PROVE PhaseInv'
  BY <1>7 DEF Snapshot, Saving, Other
<1>8. ASSUME NEW s \in Savers, OpenFile(s) PROVE PhaseInv'
  BY <1>8 DEF OpenFile
<1>9. ASSUME NEW s \in Savers, WriteFile(s) PROVE PhaseInv'
  BY <1>9 DEF WriteFile, SaveReturns
<1>10. ASSUME NEW s \in Savers, SaveFails(s) PROVE PhaseInv'
  BY <1>10, CutFile DEF SaveFails, SaveReturns
<1>11. CASE UNCHANGED vars
  BY <1>11
<1> QED
  BY <1>1, <1>2, <1>3, <1>4, <1>5, <1>6, <1>7, <1>8, <1>9, <1>10, <1>11 DEF Next,
       SaveStep

\* Nothing is written or kept that was not issued.
LEMMA IssuedStep ==
  ASSUME PInv, [Next]_vars
  PROVE  IssuedInv'
<1> USE VersionAssumption, BoundsAssumption DEF PInv, vars, saveVars, boundVars, TypeOK,
         Versions, Savers, PhaseInv, IssuedInv
<1>1. CASE Start
  BY <1>1 DEF Start
<1>2. CASE StartRefused
  BY <1>2 DEF StartRefused
<1>3. CASE Change
  BY <1>3 DEF Change
<1>4. CASE TakeTick
  BY <1>4 DEF TakeTick
<1>5. CASE Stop
  BY <1>5 DEF Stop
<1>6. CASE Restart
  BY <1>6 DEF Restart
<1>7. ASSUME NEW s \in Savers, Snapshot(s) PROVE IssuedInv'
  BY <1>7 DEF Snapshot, Saving, Other
<1>8. ASSUME NEW s \in Savers, OpenFile(s) PROVE IssuedInv'
  BY <1>8 DEF OpenFile, Truncated
<1>9. ASSUME NEW s \in Savers, WriteFile(s) PROVE IssuedInv'
  BY <1>9, WrittenFile DEF WriteFile, SaveReturns
<1>10. ASSUME NEW s \in Savers, SaveFails(s) PROVE IssuedInv'
  BY <1>10, CutFile DEF SaveFails, SaveReturns
<1>11. CASE UNCHANGED vars
  BY <1>11
<1> QED
  BY <1>1, <1>2, <1>3, <1>4, <1>5, <1>6, <1>7, <1>8, <1>9, <1>10, <1>11 DEF Next,
       SaveStep

\* A save that meets another marks both; a lone one finds the file as it left it.
LEMMA SaverStep ==
  ASSUME PInv, [Next]_vars
  PROVE  SaverInv'
<1> USE VersionAssumption, BoundsAssumption DEF PInv, vars, saveVars, boundVars, TypeOK,
         Savers, PhaseInv, SaverInv, Saving
<1>1. CASE Start
  BY <1>1 DEF Start
<1>2. CASE StartRefused
  BY <1>2 DEF StartRefused
<1>3. CASE Change
  BY <1>3 DEF Change
<1>4. CASE TakeTick
  BY <1>4 DEF TakeTick
<1>5. CASE Stop
  BY <1>5 DEF Stop
<1>6. CASE Restart
  BY <1>6 DEF Restart
<1>7. ASSUME NEW s \in Savers, Snapshot(s) PROVE SaverInv'
  BY <1>7 DEF Snapshot, Saving, Other
<1>8. ASSUME NEW s \in Savers, OpenFile(s) PROVE SaverInv'
  BY <1>8 DEF OpenFile, Truncated, Missing
<1>9. ASSUME NEW s \in Savers, WriteFile(s) PROVE SaverInv'
  BY <1>9, WrittenFile DEF WriteFile, SaveReturns
<1>10. ASSUME NEW s \in Savers, SaveFails(s) PROVE SaverInv'
  BY <1>10, CutFile DEF SaveFails, SaveReturns
<1>11. CASE UNCHANGED vars
  BY <1>11
<1> QED
  BY <1>1, <1>2, <1>3, <1>4, <1>5, <1>6, <1>7, <1>8, <1>9, <1>10, <1>11 DEF Next,
       SaveStep

\* A save that meets Stop's has marked it; one that follows has a newer snapshot.
LEMMA StopStep ==
  ASSUME PInv, [Next]_vars
  PROVE  StopInv'
<1> USE VersionAssumption, BoundsAssumption DEF PInv, vars, saveVars, boundVars, TypeOK,
         Versions, Savers, PhaseInv, SaverInv, StopInv, Saving
<1>1. CASE Start
  BY <1>1 DEF Start
<1>2. CASE StartRefused
  BY <1>2 DEF StartRefused
<1>3. CASE Change
  BY <1>3 DEF Change
<1>4. CASE TakeTick
  BY <1>4 DEF TakeTick
<1>5. CASE Stop
  BY <1>5 DEF Stop
<1>6. CASE Restart
  BY <1>6 DEF Restart
<1>7. ASSUME NEW s \in Savers, Snapshot(s) PROVE StopInv'
  BY <1>7 DEF Snapshot, Saving, Other
<1>8. ASSUME NEW s \in Savers, OpenFile(s) PROVE StopInv'
  BY <1>8 DEF OpenFile, Truncated, Missing
<1>9. ASSUME NEW s \in Savers, WriteFile(s) PROVE StopInv'
  BY <1>9, WrittenFile DEF WriteFile, SaveReturns
<1>10. ASSUME NEW s \in Savers, SaveFails(s) PROVE StopInv'
  BY <1>10, CutFile DEF SaveFails, SaveReturns
<1>11. CASE UNCHANGED vars
  BY <1>11
<1> QED
  BY <1>1, <1>2, <1>3, <1>4, <1>5, <1>6, <1>7, <1>8, <1>9, <1>10, <1>11 DEF Next,
       SaveStep

\* The file changes only in the hands of a saver, and the last one to let go of
\* it wrote it alone or is recorded as disturbed.
LEMMA FileStep ==
  ASSUME PInv, [Next]_vars
  PROVE  FileInv'
<1> USE VersionAssumption, BoundsAssumption DEF PInv, vars, saveVars, boundVars, TypeOK,
         Savers, PhaseInv, SaverInv, FileInv, Saving
<1>1. CASE Start
  BY <1>1 DEF Start
<1>2. CASE StartRefused
  BY <1>2 DEF StartRefused
<1>3. CASE Change
  BY <1>3 DEF Change
<1>4. CASE TakeTick
  BY <1>4 DEF TakeTick
<1>5. CASE Stop
  BY <1>5 DEF Stop
<1>6. CASE Restart
  BY <1>6 DEF Restart
<1>7. ASSUME NEW s \in Savers, Snapshot(s) PROVE FileInv'
  BY <1>7 DEF Snapshot, Saving, Other
<1>8. ASSUME NEW s \in Savers, OpenFile(s) PROVE FileInv'
  BY <1>8 DEF OpenFile
<1>9. ASSUME NEW s \in Savers, WriteFile(s) PROVE FileInv'
  BY <1>9, WrittenFile DEF WriteFile, SaveReturns
<1>10. ASSUME NEW s \in Savers, SaveFails(s) PROVE FileInv'
  BY <1>10, CutFile DEF SaveFails, SaveReturns
<1>11. CASE UNCHANGED vars
  BY <1>11
<1> QED
  BY <1>1, <1>2, <1>3, <1>4, <1>5, <1>6, <1>7, <1>8, <1>9, <1>10, <1>11 DEF Next,
       SaveStep

-----------------------------------------------------------------------------
(* Theorems. *)

\* A first start finds no file and has saved nothing.
LEMMA InitPInv == Init => PInv
<1> SUFFICES ASSUME Init PROVE PInv
  OBVIOUS
<1> USE VersionAssumption, BoundsAssumption DEF Init, Versions, Savers
<1>1. TypeOK
  <2>1. pc \in [Savers -> {"idle", "due", "snapped", "opened", "saved", "gaveUp"}]
        /\ pc["loop"] = "idle"
    OBVIOUS
  <2>2. snap \in [Savers -> Versions]
    OBVIOUS
  <2>3. overlap \in [Savers -> BOOLEAN] /\ disturbed \in BOOLEAN
    OBVIOUS
  <2>4. store \in Versions /\ issued \in Versions /\ saved \in Versions /\ mark \in Versions
        /\ faults \in 0..MaxFaults /\ restarts \in 0..MaxRestarts
    OBVIOUS
  <2> QED
    BY <2>1, <2>2, <2>3, <2>4 DEF TypeOK
<1>2. PhaseInv /\ IssuedInv /\ SaverInv
  BY DEF PhaseInv, IssuedInv, SaverInv, Saving
<1>3. StopInv /\ FileInv
  BY DEF StopInv, FileInv, Saving
<1> QED
  BY <1>1, <1>2, <1>3 DEF PInv

\* Every step keeps the invariant.
LEMMA PInvStep == PInv /\ [Next]_vars => PInv'
BY TypesStep, PhaseStep, IssuedStep, SaverStep, StopStep, FileStep DEF PInv

\* The inductive invariant holds in every reachable state.
THEOREM PersistenceInvariant == Spec => []PInv
BY InitPInv, PInvStep, PTL DEF Spec

\* Savers, store and file stay within their types.
THEOREM PersistenceTypes == Spec => []TypeOK
<1>1. PInv => TypeOK
  BY DEF PInv
<1> QED
  BY <1>1, PersistenceInvariant, PTL

\* With no save disturbed or under way the next Start can read the file.
LEMMA UndisturbedFile ==
  ASSUME PInv, ~disturbed, \A s \in Savers : pc[s] # "opened"
  PROVE  Restorable(file) /\ Restored(file) = saved
<1>1. CASE file = Missing /\ saved = 0
  BY <1>1 DEF Restorable, Restored
<1>2. CASE file = Encoding(saved)
  <2>1. saved \in Versions
    BY DEF PInv, TypeOK
  <2> QED
    BY <1>2, <2>1, ParsedEncoding
<1> QED
  BY <1>1, <1>2 DEF PInv, FileInv

\* The file is unreadable only while a save writes it or after one that was
\* torn or overlapped: save's truncation and write, and restore, agree.
THEOREM ReadableFile == Spec => []ReadableUnlessDisturbed
<1>1. PInv => ReadableUnlessDisturbed
  BY UndisturbedFile DEF ReadableUnlessDisturbed
<1> QED
  BY <1>1, PersistenceInvariant, PTL

\* Stop's save is not undone by an older snapshot that saveLoop writes after it,
\* unless their saves overlapped or a later one is under way or was torn.
THEOREM StopKeepsStore == Spec => []StopSaves
<1>1. PInv => StopSaves
  <2> SUFFICES ASSUME PInv, pc["stop"] = "saved", ~disturbed, ~overlap["stop"],
                      pc["loop"] # "opened"
               PROVE  Parses(file) /\ Parsed(file) >= mark
    BY DEF StopSaves
  <2>1. file # Missing /\ mark <= saved /\ saved \in Versions
    BY DEF PInv, TypeOK, StopInv
  <2>2. file = Encoding(saved)
    BY <2>1 DEF PInv, FileInv, Savers
  <2>3. Parses(file) /\ Parsed(file) = saved
    BY <2>1, <2>2, ParsedEncoding
  <2>4. mark \in Int /\ saved \in Int
    BY DEF PInv, TypeOK, Versions
  <2> QED
    BY <2>1, <2>3, <2>4
<1> QED
  BY <1>1, PersistenceInvariant, PTL

\* restore puts the last successful save into the next process's store.
THEOREM RestoreLastSave == Spec => RestartRestoresLastSave
<1>1. PInv /\ [Next]_vars =>
        [phase = "down" /\ phase' \in {"running", "failed"} /\ ~disturbed
           => phase' = "running" /\ store' = saved]_vars
  <2> SUFFICES ASSUME PInv, Next, phase = "down", phase' \in {"running", "failed"},
                      ~disturbed
               PROVE  phase' = "running" /\ store' = saved
    BY DEF vars
  <2>1. \A s \in Savers : pc[s] = "idle"
    BY DEF PInv, PhaseInv
  <2>2. Start
    BY <2>1 DEF Next, StartRefused, Change, TakeTick, Stop, Restart, SaveStep,
            Snapshot, OpenFile, WriteFile, SaveFails
  <2>3. Restorable(file) /\ Restored(file) = saved
    BY <2>1, UndisturbedFile
  <2> QED
    BY <2>2, <2>3 DEF Start
<1> QED
  BY <1>1, PersistenceInvariant, PTL DEF Spec, RestartRestoresLastSave
=============================================================================

----------------------- MODULE WhitelistCheckerProofs -----------------------
(***************************************************************************)
(* What WhitelistChecker claims of settings, rules and paths, for any      *)
(* number of reloads at once and of edits: the inductive invariant WInv,   *)
(* part by part, and the theorems that follow from it.                     *)
(***************************************************************************)
EXTENDS WhitelistChecker, TLAPS

-----------------------------------------------------------------------------
(* The inductive invariant. *)

\* The edit is in the file's past or present, and it was read and parsed.
Loaded(v) == v \in 0..file /\ kind[v] \in {"good", "invalid", "badRegex"}

HasOld  == {"read", "stat2", "install", "compile", "restore"}
Busy(r) == pc[r] \in HasOld \cup {"old"}

\* Before the server serves, at most the main goroutine is at work.
StartInv ==
  /\ \A r \in Reloaders : start # "serving" /\ r # Main => pc[r] = "idle"
  /\ start \in {"down", "loaded"} => pc[Main] = "idle"
  /\ start = "checking" => pc[Main] \in HasOld
  /\ start # "down" => settings <= file /\ kind[settings] = "good"

\* What a goroutine holds was in the file, and is no older than the settings.
LocalInv(r) ==
  /\ info[r] <= file
  /\ pc[r] = "stat2" => data[r] \in settings..file /\ kind[data[r]] # "missing"
  /\ pc[r] = "install" => Loaded(data[r]) /\ settings <= data[r]
  /\ start = "serving" /\ pc[r] \in HasOld => Loaded(old[r]) /\ settings <= old[r]

Compiling == \E r \in Reloaders : pc[r] = "compile"

\* What the checker holds, from the moment NewChecker has installed it.
CheckerInv ==
  /\ lastMod <= file
  /\ start = "serving" \/ Compiling => Loaded(config) /\ settings <= config
  /\ start = "serving" => rules \in settings..file /\ Compiles(rules)

\* Without overlap one reload is past its comparison; it can restore the
\* content of the rules, and only it can make config and rules differ.
OverlapInv == ~overlapped =>
  /\ \A r, s \in Reloaders : Busy(r) /\ Busy(s) => r = s
  /\ start = "serving" =>
       /\ \A r \in Reloaders : pc[r] \in HasOld => old[r] = rules
       /\ config = rules \/ \E r \in Reloaders : pc[r] \in {"compile", "restore"}

\* Without a race a reload takes the modification time of what it has read.
RaceInv == ~raced => \A r \in Reloaders :
  /\ pc[r] = "stat2" => data[r] = file
  /\ pc[r] = "install" => info[r] = data[r]

\* Without either, lastMod is the time of what is enforced, or of a content
\* that does not compile.
CurrentInv == ~overlapped /\ ~raced =>
  /\ Compiling => config = lastMod
  /\ start = "serving" => rules = lastMod \/ ~Compiles(lastMod) \/ Compiling

WInv == /\ TypeOK /\ StartInv /\ (\A r \in Reloaders : LocalInv(r)) /\ CheckerInv
        /\ OverlapInv /\ RaceInv /\ CurrentInv

-----------------------------------------------------------------------------
(* Each part is kept by every step of a reachable state.                   *)

\* NewChecker has a reloader's place to borrow.
LEMMA MainIsReloader == Main \in Reloaders
BY ReloadersAssumption DEF Main

\* A goroutine that returns leaves its locals empty.
LEMMA FinishTypes ==
  ASSUME TypeOK, NEW r \in Reloaders, Finish(r)
  PROVE  /\ pc' \in [Reloaders -> {"idle", "stat", "compare", "old", "read", "stat2",
                                   "install", "compile", "restore"}]
         /\ info' \in [Reloaders -> Edits] /\ data' \in [Reloaders -> Edits]
         /\ old' \in [Reloaders -> Edits \cup {NoConfig}]
BY MaxEditsAssumption DEF TypeOK, Finish, Goto, Edits

\* Types need more than types: config is only ever set to an edit because a
\* reload that restores has kept one.
LEMMA TypesStep ==
  ASSUME WInv, [Next]_vars
  PROVE  TypeOK'
<1> USE MainIsReloader, MaxEditsAssumption DEF WInv, vars, fileVars, startVars,
         checkerVars, localVars, ghostVars, TypeOK, Edits, Kinds, NoConfig, OldConfig,
         RestoredBy, ConfigToCompile, NewerThan, LocalInv, Loaded, HasOld
<1>1. ASSUME NEW kinds \in SUBSET Kinds, SaveFile(kinds),
             initMode' \in {"none", "checked", "done"}
      PROVE  TypeOK'
  <2>1. raced' \in BOOLEAN
    BY <1>1 DEF SaveFile
  <2>2. kind' \in [Edits -> Kinds]
    <3>1. PICK k \in kinds : kind' = [kind EXCEPT ![file + 1] = k]
      BY <1>1 DEF SaveFile
    <3> QED
      BY <3>1
  <2>3. file' \in Edits
    BY <1>1 DEF SaveFile
  <2>4. UNCHANGED <<start, settings, checkerVars, pc, localVars, overlapped>>
    BY <1>1 DEF SaveFile
  <2> QED
    BY <1>1, <2>1, <2>2, <2>3, <2>4
<1>2. CASE InitCheck
  BY <1>2 DEF InitCheck
<1>3. CASE LoadSettings
  BY <1>3 DEF LoadSettings
<1>4. CASE NewChecker
  BY <1>4 DEF NewChecker, Goto
<1>5. CASE GiveUp
  BY <1>5 DEF GiveUp, Finish, Goto
<1>6. ASSUME NEW r \in Reloaders, Spawn(r) PROVE TypeOK'
  BY <1>6 DEF Spawn, Finish, Goto
<1>7. ASSUME NEW r \in Reloaders, StatFile(r) PROVE TypeOK'
  <2>1. CASE Readable
    BY <1>7, <2>1 DEF StatFile, Goto
  <2>2. CASE ~Readable
    BY <1>7, <2>2, FinishTypes DEF StatFile
  <2> QED
    BY <2>1, <2>2
<1>8. ASSUME NEW r \in Reloaders, CompareTime(r) PROVE TypeOK'
  <2>1. overlapped' \in BOOLEAN
    BY <1>8 DEF CompareTime
  <2>2. CASE NewerThan(info[r])
    BY <1>8, <2>1, <2>2 DEF CompareTime, Goto
  <2>3. CASE ~NewerThan(info[r])
    BY <1>8, <2>1, <2>3, FinishTypes DEF CompareTime
  <2> QED
    BY <2>2, <2>3
<1>9. ASSUME NEW r \in Reloaders, KeepOld(r) PROVE TypeOK'
  BY <1>9 DEF KeepOld, Finish, Goto
<1>10. ASSUME NEW r \in Reloaders, ReadData(r) PROVE TypeOK'
  BY <1>10 DEF ReadData, Finish, Goto
<1>11. ASSUME NEW r \in Reloaders, StatAgain(r) PROVE TypeOK'
  BY <1>11 DEF StatAgain, Finish, Goto
<1>12. ASSUME NEW r \in Reloaders, Install(r) PROVE TypeOK'
  BY <1>12 DEF Install, Finish, Goto
<1>13. ASSUME NEW r \in Reloaders, CompileRules(r) PROVE TypeOK'
  <2>1. CASE Compiles(config)
    BY <1>13, <2>1, FinishTypes DEF CompileRules
  <2>2. CASE ~Compiles(config)
    BY <1>13, <2>2 DEF CompileRules, Goto
  <2> QED
    BY <2>1, <2>2
<1>14. ASSUME NEW r \in Reloaders, Restore(r) PROVE TypeOK'
  BY <1>14 DEF Restore, Finish, Goto
<1>15. CASE UNCHANGED vars
  BY <1>15
<1> QED
  BY <1>1, <1>2, <1>3, <1>4, <1>5, <1>6, <1>7, <1>8, <1>9, <1>10, <1>11, <1>12, <1>13,
       <1>14, <1>15
     DEF Next, Edit, InitWrite, Kinds, StartStep, ReloadStep

\* Nobody but NewChecker works before the server serves, on a validated file.
LEMMA StartStepInv ==
  ASSUME WInv, [Next]_vars
  PROVE  StartInv'
<1> USE MainIsReloader DEF WInv, vars, fileVars, startVars, checkerVars, localVars,
         ghostVars, StartInv, TypeOK, Edits, HasOld
<1>1. ASSUME NEW kinds \in SUBSET Kinds, SaveFile(kinds) PROVE StartInv'
  BY <1>1 DEF SaveFile
<1>2. CASE InitCheck
  BY <1>2 DEF InitCheck
<1>3. CASE LoadSettings
  BY <1>3 DEF LoadSettings
<1>4. CASE NewChecker
  BY <1>4 DEF NewChecker, Goto
<1>5. CASE GiveUp
  BY <1>5 DEF GiveUp, Finish, Goto
<1>6. ASSUME NEW r \in Reloaders, Spawn(r) PROVE StartInv'
  BY <1>6 DEF Spawn, Finish, Goto
<1>7. ASSUME NEW r \in Reloaders, StatFile(r) PROVE StartInv'
  BY <1>7 DEF StatFile, Finish, Goto
<1>8. ASSUME NEW r \in Reloaders, CompareTime(r) PROVE StartInv'
  BY <1>8 DEF CompareTime, Finish, Goto
<1>9. ASSUME NEW r \in Reloaders, KeepOld(r) PROVE StartInv'
  BY <1>9 DEF KeepOld, Finish, Goto
<1>10. ASSUME NEW r \in Reloaders, ReadData(r) PROVE StartInv'
  BY <1>10 DEF ReadData, Finish, Goto
<1>11. ASSUME NEW r \in Reloaders, StatAgain(r) PROVE StartInv'
  BY <1>11 DEF StatAgain, Finish, Goto
<1>12. ASSUME NEW r \in Reloaders, Install(r) PROVE StartInv'
  BY <1>12 DEF Install, Finish, Goto
<1>13. ASSUME NEW r \in Reloaders, CompileRules(r) PROVE StartInv'
  BY <1>13 DEF CompileRules, Finish, Goto
<1>14. ASSUME NEW r \in Reloaders, Restore(r) PROVE StartInv'
  BY <1>14 DEF Restore, Finish, Goto
<1>15. CASE UNCHANGED vars
  BY <1>15
<1> QED
  BY <1>1, <1>2, <1>3, <1>4, <1>5, <1>6, <1>7, <1>8, <1>9, <1>10, <1>11, <1>12, <1>13,
       <1>14, <1>15
     DEF Next, Edit, InitWrite, Kinds, StartStep, ReloadStep

\* Contents are read when they are in the file, and what was once there counts
\* as such for ever.
LEMMA LocalStep ==
  ASSUME WInv, [Next]_vars, NEW q \in Reloaders
  PROVE  LocalInv(q)'
<1> USE MainIsReloader DEF WInv, vars, fileVars, startVars, checkerVars, localVars,
         ghostVars, StartInv, LocalInv, CheckerInv, Loaded, HasOld, TypeOK, Edits,
         Kinds, Parses, Readable, OldConfig
<1>1. ASSUME NEW kinds \in SUBSET Kinds, SaveFile(kinds) PROVE LocalInv(q)'
  BY <1>1 DEF SaveFile
<1>2. CASE InitCheck
  BY <1>2 DEF InitCheck
<1>3. CASE LoadSettings
  BY <1>3 DEF LoadSettings
<1>4. CASE NewChecker
  BY <1>4 DEF NewChecker, Goto
<1>5. CASE GiveUp
  BY <1>5 DEF GiveUp, Finish, Goto
<1>6. ASSUME NEW r \in Reloaders, Spawn(r) PROVE LocalInv(q)'
  BY <1>6 DEF Spawn, Finish, Goto
<1>7. ASSUME NEW r \in Reloaders, StatFile(r) PROVE LocalInv(q)'
  BY <1>7 DEF StatFile, Finish, Goto
<1>8. ASSUME NEW r \in Reloaders, CompareTime(r) PROVE LocalInv(q)'
  BY <1>8 DEF CompareTime, Finish, Goto
<1>9. ASSUME NEW r \in Reloaders, KeepOld(r) PROVE LocalInv(q)'
  BY <1>9 DEF KeepOld, Finish, Goto
<1>10. ASSUME NEW r \in Reloaders, ReadData(r) PROVE LocalInv(q)'
  <2>1. start # "down" /\ file \in settings..file
    BY <1>10 DEF ReadData
  <2> QED
    BY <1>10, <2>1 DEF ReadData, Goto
<1>11. ASSUME NEW r \in Reloaders, StatAgain(r) PROVE LocalInv(q)'
  BY <1>11 DEF StatAgain, Finish, Goto
<1>12. ASSUME NEW r \in Reloaders, Install(r) PROVE LocalInv(q)'
  BY <1>12 DEF Install, Finish, Goto
<1>13. ASSUME NEW r \in Reloaders, CompileRules(r) PROVE LocalInv(q)'
  <2>1. pc'[q] \in HasOld => (start = "serving" /\ old'[q] = old[q]) \/ start' # "serving"
    BY <1>13 DEF CompileRules, Finish, Goto
  <2>2. info'[q] <= file
    BY <1>13, MaxEditsAssumption DEF CompileRules, Finish, Goto
  <2> QED
    BY <1>13, <2>1, <2>2 DEF CompileRules, Finish, Goto
<1>14. ASSUME NEW r \in Reloaders, Restore(r) PROVE LocalInv(q)'
  BY <1>14 DEF Restore, Finish, Goto
<1>15. CASE UNCHANGED vars
  BY <1>15
<1> QED
  BY <1>1, <1>2, <1>3, <1>4, <1>5, <1>6, <1>7, <1>8, <1>9, <1>10, <1>11, <1>12, <1>13,
       <1>14, <1>15
     DEF Next, Edit, InitWrite, Kinds, StartStep, ReloadStep

\* Install and Restore bring a content that parsed, CompileRules one that
\* compiled.
LEMMA CheckerStep ==
  ASSUME WInv, [Next]_vars
  PROVE  CheckerInv'
<1> USE MainIsReloader DEF WInv, vars, fileVars, startVars, checkerVars, localVars,
         ghostVars, StartInv, LocalInv, CheckerInv, Compiling, Loaded, HasOld, TypeOK,
         Edits, Compiles, ConfigToCompile, RestoredBy
<1>1. ASSUME NEW kinds \in SUBSET Kinds, SaveFile(kinds) PROVE CheckerInv'
  BY <1>1 DEF SaveFile
<1>2. CASE InitCheck
  BY <1>2 DEF InitCheck
<1>3. CASE LoadSettings
  BY <1>3 DEF LoadSettings
<1>4. CASE NewChecker
  BY <1>4 DEF NewChecker, Goto
<1>5. CASE GiveUp
  BY <1>5 DEF GiveUp, Finish, Goto
<1>6. ASSUME NEW r \in Reloaders, Spawn(r) PROVE CheckerInv'
  BY <1>6 DEF Spawn, Finish, Goto
<1>7. ASSUME NEW r \in Reloaders, StatFile(r) PROVE CheckerInv'
  BY <1>7 DEF StatFile, Finish, Goto
<1>8. ASSUME NEW r \in Reloaders, CompareTime(r) PROVE CheckerInv'
  BY <1>8 DEF CompareTime, Finish, Goto
<1>9. ASSUME NEW r \in Reloaders, KeepOld(r) PROVE CheckerInv'
  BY <1>9 DEF KeepOld, Finish, Goto
<1>10. ASSUME NEW r \in Reloaders, ReadData(r) PROVE CheckerInv'
  BY <1>10 DEF ReadData, Finish, Goto
<1>11. ASSUME NEW r \in Reloaders, StatAgain(r) PROVE CheckerInv'
  BY <1>11 DEF StatAgain, Finish, Goto
<1>12. ASSUME NEW r \in Reloaders, Install(r) PROVE CheckerInv'
  BY <1>12 DEF Install, Finish, Goto
<1>13. ASSUME NEW r \in Reloaders, CompileRules(r) PROVE CheckerInv'
  BY <1>13 DEF CompileRules, Finish, Goto
<1>14. ASSUME NEW r \in Reloaders, Restore(r) PROVE CheckerInv'
  BY <1>14 DEF Restore, Finish, Goto
<1>15. CASE UNCHANGED vars
  BY <1>15
<1> QED
  BY <1>1, <1>2, <1>3, <1>4, <1>5, <1>6, <1>7, <1>8, <1>9, <1>10, <1>11, <1>12, <1>13,
       <1>14, <1>15
     DEF Next, Edit, InitWrite, Kinds, StartStep, ReloadStep

\* A second goroutine past its comparison is an overlap; a single one restores
\* what the rules were compiled from.
LEMMA OverlapStep ==
  ASSUME WInv, [Next]_vars
  PROVE  OverlapInv'
<1> USE MainIsReloader DEF WInv, vars, fileVars, startVars, checkerVars, localVars,
         ghostVars, StartInv, OverlapInv, Busy, HasOld, TypeOK, ConfigToCompile,
         RestoredBy, OldConfig
<1>1. ASSUME NEW kinds \in SUBSET Kinds, SaveFile(kinds) PROVE OverlapInv'
  BY <1>1 DEF SaveFile
<1>2. CASE InitCheck
  BY <1>2 DEF InitCheck
<1>3. CASE LoadSettings
  BY <1>3 DEF LoadSettings
<1>4. CASE NewChecker
  BY <1>4 DEF NewChecker, Goto
<1>5. CASE GiveUp
  BY <1>5 DEF GiveUp, Finish, Goto
<1>6. ASSUME NEW r \in Reloaders, Spawn(r) PROVE OverlapInv'
  BY <1>6 DEF Spawn, Finish, Goto
<1>7. ASSUME NEW r \in Reloaders, StatFile(r) PROVE OverlapInv'
  BY <1>7 DEF StatFile, Finish, Goto
<1>8. ASSUME NEW r \in Reloaders, CompareTime(r) PROVE OverlapInv'
  <2>1. CASE NewerThan(info[r])
    <3>1. ~overlapped' => ~overlapped /\ \A s \in Reloaders \ {r} : ~Busy(s)
      BY <1>8, <2>1 DEF CompareTime
    <3>2. \A s \in Reloaders \ {r} : pc'[s] = pc[s]
      BY <1>8, <2>1 DEF CompareTime, Goto
    <3>3. pc'[r] = "old"
      BY <1>8, <2>1 DEF CompareTime, Goto
    <3> QED
      BY <1>8, <2>1, <3>1, <3>2, <3>3 DEF CompareTime
  <2>2. CASE ~NewerThan(info[r])
    BY <1>8, <2>2 DEF CompareTime, Finish, Goto
  <2> QED
    BY <2>1, <2>2
<1>9. ASSUME NEW r \in Reloaders, KeepOld(r) PROVE OverlapInv'
  BY <1>9 DEF KeepOld, Finish, Goto
<1>10. ASSUME NEW r \in Reloaders, ReadData(r) PROVE OverlapInv'
  BY <1>10 DEF ReadData, Finish, Goto
<1>11. ASSUME NEW r \in Reloaders, StatAgain(r) PROVE OverlapInv'
  BY <1>11 DEF StatAgain, Finish, Goto
<1>12. ASSUME NEW r \in Reloaders, Install(r) PROVE OverlapInv'
  BY <1>12 DEF Install, Finish, Goto
<1>13. ASSUME NEW r \in Reloaders, CompileRules(r) PROVE OverlapInv'
  BY <1>13 DEF CompileRules, Finish, Goto
<1>14. ASSUME NEW r \in Reloaders, Restore(r) PROVE OverlapInv'
  BY <1>14 DEF Restore, Finish, Goto
<1>15. CASE UNCHANGED vars
  BY <1>15
<1> QED
  BY <1>1, <1>2, <1>3, <1>4, <1>5, <1>6, <1>7, <1>8, <1>9, <1>10, <1>11, <1>12, <1>13,
       <1>14, <1>15
     DEF Next, Edit, InitWrite, Kinds, StartStep, ReloadStep

\* An edit between ReadFile and Stat is a race.
LEMMA RaceStep ==
  ASSUME WInv, [Next]_vars
  PROVE  RaceInv'
<1> USE MainIsReloader DEF WInv, vars, fileVars, startVars, checkerVars, localVars,
         ghostVars, RaceInv, TypeOK
<1>1. ASSUME NEW kinds \in SUBSET Kinds, SaveFile(kinds) PROVE RaceInv'
  BY <1>1 DEF SaveFile
<1>2. CASE InitCheck
  BY <1>2 DEF InitCheck
<1>3. CASE LoadSettings
  BY <1>3 DEF LoadSettings
<1>4. CASE NewChecker
  BY <1>4 DEF NewChecker, Goto
<1>5. CASE GiveUp
  BY <1>5 DEF GiveUp, Finish, Goto
<1>6. ASSUME NEW r \in Reloaders, Spawn(r) PROVE RaceInv'
  BY <1>6 DEF Spawn, Finish, Goto
<1>7. ASSUME NEW r \in Reloaders, StatFile(r) PROVE RaceInv'
  BY <1>7 DEF StatFile, Finish, Goto
<1>8. ASSUME NEW r \in Reloaders, CompareTime(r) PROVE RaceInv'
  BY <1>8 DEF CompareTime, Finish, Goto
<1>9. ASSUME NEW r \in Reloaders, KeepOld(r) PROVE RaceInv'
  BY <1>9 DEF KeepOld, Finish, Goto
<1>10. ASSUME NEW r \in Reloaders, ReadData(r) PROVE RaceInv'
  BY <1>10 DEF ReadData, Finish, Goto
<1>11. ASSUME NEW r \in Reloaders, StatAgain(r) PROVE RaceInv'
  BY <1>11 DEF StatAgain, Finish, Goto
<1>12. ASSUME NEW r \in Reloaders, Install(r) PROVE RaceInv'
  BY <1>12 DEF Install, Finish, Goto
<1>13. ASSUME NEW r \in Reloaders, CompileRules(r) PROVE RaceInv'
  BY <1>13 DEF CompileRules, Finish, Goto
<1>14. ASSUME NEW r \in Reloaders, Restore(r) PROVE RaceInv'
  BY <1>14 DEF Restore, Finish, Goto
<1>15. CASE UNCHANGED vars
  BY <1>15
<1> QED
  BY <1>1, <1>2, <1>3, <1>4, <1>5, <1>6, <1>7, <1>8, <1>9, <1>10, <1>11, <1>12, <1>13,
       <1>14, <1>15
     DEF Next, Edit, InitWrite, Kinds, StartStep, ReloadStep

\* lastMod is moved by Install alone, which takes a content and its own time.
LEMMA CurrentStep ==
  ASSUME WInv, [Next]_vars
  PROVE  CurrentInv'
<1> USE MainIsReloader DEF WInv, vars, fileVars, startVars, checkerVars, localVars,
         ghostVars, StartInv, OverlapInv, RaceInv, CurrentInv, CheckerInv, Compiling,
         Busy, HasOld, TypeOK, Edits, Compiles, ConfigToCompile, RestoredBy
<1>1. ASSUME NEW kinds \in SUBSET Kinds, SaveFile(kinds) PROVE CurrentInv'
  BY <1>1 DEF SaveFile
<1>2. CASE InitCheck
  BY <1>2 DEF InitCheck
<1>3. CASE LoadSettings
  BY <1>3 DEF LoadSettings
<1>4. CASE NewChecker
  BY <1>4 DEF NewChecker, Goto
<1>5. CASE GiveUp
  BY <1>5 DEF GiveUp, Finish, Goto
<1>6. ASSUME NEW r \in Reloaders, Spawn(r) PROVE CurrentInv'
  BY <1>6 DEF Spawn, Finish, Goto
<1>7. ASSUME NEW r \in Reloaders, StatFile(r) PROVE CurrentInv'
  BY <1>7 DEF StatFile, Finish, Goto
<1>8. ASSUME NEW r \in Reloaders, CompareTime(r) PROVE CurrentInv'
  BY <1>8 DEF CompareTime, Finish, Goto
<1>9. ASSUME NEW r \in Reloaders, KeepOld(r) PROVE CurrentInv'
  BY <1>9 DEF KeepOld, Finish, Goto
<1>10. ASSUME NEW r \in Reloaders, ReadData(r) PROVE CurrentInv'
  BY <1>10 DEF ReadData, Finish, Goto
<1>11. ASSUME NEW r \in Reloaders, StatAgain(r) PROVE CurrentInv'
  BY <1>11 DEF StatAgain, Finish, Goto
<1>12. ASSUME NEW r \in Reloaders, Install(r) PROVE CurrentInv'
  BY <1>12 DEF Install, Finish, Goto
<1>13. ASSUME NEW r \in Reloaders, CompileRules(r) PROVE CurrentInv'
  BY <1>13 DEF CompileRules, Finish, Goto
<1>14. ASSUME NEW r \in Reloaders, Restore(r) PROVE CurrentInv'
  BY <1>14 DEF Restore, Finish, Goto
<1>15. CASE UNCHANGED vars
  BY <1>15
<1> QED
  BY <1>1, <1>2, <1>3, <1>4, <1>5, <1>6, <1>7, <1>8, <1>9, <1>10, <1>11, <1>12, <1>13,
       <1>14, <1>15
     DEF Next, Edit, InitWrite, Kinds, StartStep, ReloadStep

-----------------------------------------------------------------------------
(* The theorems. *)

\* A server starts with nobody at work.
LEMMA WInvInit == Init => WInv
<1> SUFFICES ASSUME Init PROVE WInv
  OBVIOUS
<1>1. kind \in [Edits -> Kinds]
  <2>1. PICK k \in {"good", "missing"} : kind = [v \in Edits |-> IF v = 0 THEN k ELSE "good"]
    BY DEF Init
  <2> QED
    BY <2>1 DEF Kinds
<1>2. TypeOK
  <2>1. 0 \in Edits
    BY MaxEditsAssumption DEF Edits
  <2>2. /\ pc = [r \in Reloaders |-> "idle"] /\ info = [r \in Reloaders |-> 0]
        /\ old = [r \in Reloaders |-> NoConfig] /\ data = [r \in Reloaders |-> 0]
    BY DEF Init
  <2>3. overlapped \in BOOLEAN /\ raced \in BOOLEAN
    BY DEF Init
  <2>4. /\ file = 0 /\ start = "down" /\ settings = 0 /\ initMode = "none"
        /\ config = 0 /\ lastMod = 0 /\ rules = 0
    BY DEF Init
  <2> QED
    BY <1>1, <2>1, <2>2, <2>3, <2>4 DEF TypeOK
<1>3. StartInv /\ CheckerInv /\ \A r \in Reloaders : LocalInv(r)
  BY MainIsReloader DEF Init, StartInv, CheckerInv, LocalInv, Compiling, HasOld
<1>4. OverlapInv /\ RaceInv /\ CurrentInv
  BY DEF Init, OverlapInv, RaceInv, CurrentInv, Compiling, Busy, HasOld
<1> QED
  BY <1>2, <1>3, <1>4 DEF WInv

\* What goroutines and checker hold is in order at every step of every
\* interleaving, for any number of reloads and edits.
THEOREM CheckerInvariant == Spec => []WInv
<1>1. WInv /\ [Next]_vars => WInv'
  BY TypesStep, StartStepInv, LocalStep, CheckerStep, OverlapStep, RaceStep, CurrentStep
       DEF WInv
<1> QED
  BY <1>1, WInvInit, PTL DEF Spec

\* Every variable keeps its type; a serving checker's config is never nil.
THEOREM CheckerTypes == Spec => []TypeOK
<1>1. WInv => TypeOK
  BY DEF WInv
<1> QED
  BY <1>1, CheckerInvariant, PTL

\* Only contents that compiled decide about commands, only contents that parsed
\* about paths (IsAllowed), however many reloads overlap.
THEOREM GoodRulesDecide == Spec => []OnlyGoodRules
<1>1. WInv => OnlyGoodRules
  BY DEF WInv, TypeOK, CheckerInv, Loaded, OnlyGoodRules
<1> QED
  BY <1>1, CheckerInvariant, PTL

\* The settings Load gave run() were validated and are never ahead of the rules
\* and paths NewChecker and the reloads took from the same file.
THEOREM SettingsAreOldest == Spec => []SettingsOldest
<1>1. WInv => SettingsOldest
  BY DEF WInv, TypeOK, StartInv, CheckerInv, Edits, SettingsOldest
<1> QED
  BY <1>1, CheckerInvariant, PTL

\* reloadConfig's "keep old config on error" works as long as reloads do not
\* overlap: commands, paths and /whitelist-info are of one content.
THEOREM ConsistentIfSerial == Spec => []ConsistentWithoutOverlap
<1>1. WInv => ConsistentWithoutOverlap
  <2> SUFFICES ASSUME WInv, ~overlapped, Quiet
               PROVE  InfoAnswer = [status |-> 200, lists |-> DecidedBy.commands]
    BY DEF ConsistentWithoutOverlap
  <2>1. config = rules
    BY DEF WInv, OverlapInv, Quiet
  <2>2. config # NoConfig
    BY DEF WInv, TypeOK, Edits, NoConfig
  <2> QED
    BY <2>1, <2>2 DEF InfoAnswer, Reported, DecidedBy
<1> QED
  BY <1>1, CheckerInvariant, PTL

\* Without an overlap, and without an edit between loadConfig's ReadFile and
\* Stat, lastMod is only the file's if the file is enforced.
THEOREM CurrentIfSerial == Spec => []CurrentWithoutRace
<1>1. WInv => CurrentWithoutRace
  BY DEF WInv, OverlapInv, CurrentInv, Quiet, Compiling, CurrentWithoutRace
<1> QED
  BY <1>1, CheckerInvariant, PTL
=============================================================================

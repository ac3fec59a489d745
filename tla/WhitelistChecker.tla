--------------------------- MODULE WhitelistChecker ---------------------------
(***************************************************************************)
(* internal/whitelist and pkg/config: the config file of a server, from    *)
(* -init and the start of run(), which loads it twice, to the checker that *)
(* decides by rules compiled from it and by the allowed paths of the       *)
(* config it holds, and the reload goroutines IsAllowed starts, any number *)
(* of them at a time.                                                      *)
(*                                                                         *)
(* Edits of the file are numbered; an edit's number is its content and its *)
(* modification time.  Each critical section of the checker's mutex and    *)
(* each file operation is one step.                                        *)
(***************************************************************************)
EXTENDS Integers

CONSTANTS
  Reloaders,   \* reload goroutines that may be alive at once
  MaxEdits     \* bound: edits of the file

ASSUME MaxEditsAssumption == MaxEdits \in Nat
ASSUME ReloadersAssumption == Reloaders # {}

VARIABLES
  file,        \* the number of the last edit
  kind,        \* kind[v]: what edit v left
  start,       \* where run() is on its way to serving
  settings,    \* the edit run()'s cfg was loaded from
  initMode,    \* where InitConfig, in a process of its own, is
  config,      \* the edit c.config was parsed from
  lastMod,     \* c.lastMod
  rules,       \* the edit c.rules were compiled from
  pc,          \* pc[r]: where goroutine r is
  info,        \* info[r]: the modification time it saw first, then loadConfig's
  old,         \* old[r]: its oldConfig
  data,        \* data[r]: the edit whose content it read
  overlapped,  \* two reloads were in progress at once
  raced        \* the file was edited between a reload's ReadFile and its Stat

fileVars    == <<file, kind>>
startVars   == <<start, settings, initMode>>
checkerVars == <<config, lastMod, rules>>
localVars   == <<info, old, data>>
ghostVars   == <<overlapped, raced>>
vars == <<fileVars, startVars, checkerVars, pc, localVars, ghostVars>>

Edits == 0..MaxEdits
NoConfig == -1                     \* a nil *models.Config
\* A content is in order; parses and compiles, but the loader's validation
\* refuses it (no token, no command, no existing path); has a bad regex; does
\* not parse; or the file is gone.
Kinds == {"good", "invalid", "badRegex", "badYaml", "missing"}
Readable == kind[file] # "missing"

AnyParses(v)   == TRUE                            \* mutant: yaml.Unmarshal's error is ignored
Parses(v)   == kind[v] # "badYaml"
Compiles(v) == kind[v] \in {"good", "invalid"}

OlderThan(t)    == t < lastMod                    \* mutant
NothingKept     == NoConfig                       \* mutant: oldConfig is never set
NotRestored(r)  == config                         \* mutant: an error keeps the new config
ConfigSeen(r)   == IF old[r] = NoConfig THEN config ELSE old[r]    \* mutant
NewerThan(t)    == t > lastMod
OldConfig       == config
RestoredBy(r)   == old[r]
ConfigToCompile(r) == config

\* What IsAllowed decides with, in one critical section, and what GetConfig
\* copies and /whitelist-info answers.
DecidedBy == [commands |-> rules, paths |-> config]
Reported  == config
InfoAnswer == [status |-> IF Reported = NoConfig THEN 500 ELSE 200, lists |-> Reported]

-----------------------------------------------------------------------------
Init ==
  /\ file = 0
  /\ \E k \in {"good", "missing"} : kind = [v \in Edits |-> IF v = 0 THEN k ELSE "good"]
  /\ start = "down" /\ settings = 0 /\ initMode = "none"
  /\ config = 0 /\ lastMod = 0 /\ rules = 0
  /\ pc = [r \in Reloaders |-> "idle"]
  /\ info = [r \in Reloaders |-> 0]
  /\ old = [r \in Reloaders |-> NoConfig]
  /\ data = [r \in Reloaders |-> 0]
  /\ overlapped = FALSE /\ raced = FALSE

SaveFile(kinds) ==
  /\ file < MaxEdits
  /\ file' = file + 1
  /\ \E k \in kinds : kind' = [kind EXCEPT ![file + 1] = k]
  /\ raced' = (raced \/ \E r \in Reloaders : pc[r] = "stat2")
  /\ UNCHANGED <<start, settings, checkerVars, pc, localVars, overlapped>>

\* The operator saves the file, or removes it.
Edit == SaveFile(Kinds) /\ UNCHANGED initMode

Goto(r, l) == pc' = [pc EXCEPT ![r] = l]

\* A goroutine's locals are gone when it returns.
Finish(r) == /\ Goto(r, "idle")
             /\ info' = [info EXCEPT ![r] = 0]
             /\ old'  = [old EXCEPT ![r] = NoConfig]
             /\ data' = [data EXCEPT ![r] = 0]

-----------------------------------------------------------------------------
(* The beginning: -init, then run().                                       *)

\* InitConfig refuses if Stat finds the file.
InitCheck ==
  /\ initMode = "none" /\ start = "down" /\ ~Readable
  /\ initMode' = "checked"
  /\ UNCHANGED <<fileVars, start, settings, checkerVars, pc, localVars, ghostVars>>

\* It writes its default, whose allowed paths need not exist; a write that
\* fails may leave any beginning of it.  A log directory that cannot be made
\* is reported as a failure after the file was written.
InitWrite ==
  /\ initMode = "checked" /\ initMode' = "done"
  /\ SaveFile({"good", "invalid", "badYaml"})

ReloadSettings ==    \* mutant: the settings are loaded again when the checker is there
  /\ start \in {"down", "serving"}
  /\ IF kind[file] = "good"
       THEN start' = (IF start = "down" THEN "loaded" ELSE start) /\ settings' = file
       ELSE UNCHANGED <<start, settings>>
  /\ UNCHANGED <<fileVars, initMode, checkerVars, pc, localVars, ghostVars>>

\* Load: read, parse, validate; run() returns 1 otherwise.
LoadSettings ==
  /\ start = "down"
  /\ IF kind[file] = "good"
       THEN start' = "loaded" /\ settings' = file
       ELSE UNCHANGED <<start, settings>>
  /\ UNCHANGED <<fileVars, initMode, checkerVars, pc, localVars, ghostVars>>

\* NewChecker reads the file again, by the same loadConfig and compileRules as
\* a reload: the main goroutine borrows a reloader's place for it.
Main == CHOOSE r \in Reloaders : TRUE

NewChecker ==
  /\ start = "loaded" /\ start' = "checking"
  /\ Goto(Main, "read")
  /\ UNCHANGED <<fileVars, settings, initMode, checkerVars, localVars, ghostVars>>

\* NewChecker's error: run() returns 1, and may be tried again.
GiveUp ==
  /\ start = "checking" /\ pc[Main] = "restore"
  /\ Finish(Main)
  /\ start' = "down" /\ settings' = 0
  /\ config' = 0 /\ lastMod' = 0 /\ rules' = 0
  /\ UNCHANGED <<fileVars, initMode, ghostVars>>

-----------------------------------------------------------------------------
(* reloadConfig *)

\* IsAllowed: more than the reload interval since lastMod, go reloadConfig.
Spawn(r) ==
  /\ start = "serving" /\ pc[r] = "idle"
  /\ Goto(r, "stat")
  /\ UNCHANGED <<fileVars, startVars, checkerVars, localVars, ghostVars>>

StatFile(r) ==
  /\ pc[r] = "stat"
  /\ IF Readable
       THEN Goto(r, "compare") /\ info' = [info EXCEPT ![r] = file] /\ UNCHANGED <<old, data>>
       ELSE Finish(r)
  /\ UNCHANGED <<fileVars, startVars, checkerVars, ghostVars>>

\* lastMod, under the read lock
CompareTime(r) ==
  /\ pc[r] = "compare"
  /\ IF NewerThan(info[r])
       THEN /\ Goto(r, "old") /\ UNCHANGED localVars
            /\ overlapped' = (overlapped \/ \E s \in Reloaders \ {r} :
                                pc[s] \notin {"idle", "stat", "compare"})
       ELSE Finish(r) /\ UNCHANGED overlapped
  /\ UNCHANGED <<fileVars, startVars, checkerVars, raced>>

\* oldConfig := c.config, under the read lock
KeepOld(r) ==
  /\ pc[r] = "old"
  /\ old' = [old EXCEPT ![r] = OldConfig]
  /\ Goto(r, "read")
  /\ UNCHANGED <<fileVars, startVars, checkerVars, info, data, ghostVars>>

-----------------------------------------------------------------------------
(* loadConfig: the content first, the modification time second. *)

ReadData(r) ==
  /\ pc[r] = "read"
  /\ IF Readable
       THEN data' = [data EXCEPT ![r] = file] /\ Goto(r, "stat2")
       ELSE Goto(r, "restore") /\ UNCHANGED data
  /\ UNCHANGED <<fileVars, startVars, checkerVars, info, old, ghostVars>>

StatAgain(r) ==
  /\ pc[r] = "stat2"
  /\ IF Readable /\ Parses(data[r])
       THEN info' = [info EXCEPT ![r] = file] /\ Goto(r, "install")
       ELSE Goto(r, "restore") /\ UNCHANGED info
  /\ UNCHANGED <<fileVars, startVars, checkerVars, old, data, ghostVars>>

Install(r) ==
  /\ pc[r] = "install"
  /\ config' = data[r] /\ lastMod' = info[r]
  /\ Goto(r, "compile")
  /\ UNCHANGED <<fileVars, startVars, rules, localVars, ghostVars>>

\* compileRules compiles whatever config is installed by now; NewChecker's
\* caller goes on to serve.
CompileRules(r) ==
  /\ pc[r] = "compile"
  /\ IF Compiles(ConfigToCompile(r))
       THEN rules' = ConfigToCompile(r) /\ Finish(r) /\ start' = "serving"
       ELSE Goto(r, "restore") /\ UNCHANGED <<rules, start, localVars>>
  /\ UNCHANGED <<fileVars, settings, initMode, config, lastMod, ghostVars>>

\* c.config = oldConfig; lastMod stays
Restore(r) ==
  /\ start = "serving" /\ pc[r] = "restore"
  /\ config' = RestoredBy(r)
  /\ Finish(r)
  /\ UNCHANGED <<fileVars, startVars, lastMod, rules, ghostVars>>

ReloadStep(r) == \/ StatFile(r) \/ CompareTime(r) \/ KeepOld(r) \/ ReadData(r)
                 \/ StatAgain(r) \/ Install(r) \/ CompileRules(r) \/ Restore(r)

StartStep == LoadSettings \/ NewChecker \/ GiveUp

Next == Edit \/ InitCheck \/ InitWrite \/ StartStep
        \/ \E r \in Reloaders : Spawn(r) \/ ReloadStep(r)

Spec == Init /\ [][Next]_vars

\* run() and reload goroutines run, and once it serves requests keep coming:
\* nothing else starts a reload.
FairSpec == Spec /\ WF_vars(StartStep) /\ \A r \in Reloaders : WF_vars(ReloadStep(r)) /\ WF_vars(Spawn(r))

-----------------------------------------------------------------------------
(* Properties. *)

\* Every variable holds a value of its kind; a config that was set is never nil.
TypeOK ==
  /\ file \in Edits /\ kind \in [Edits -> Kinds]
  /\ start \in {"down", "loaded", "checking", "serving"} /\ settings \in Edits
  /\ initMode \in {"none", "checked", "done"}
  /\ config \in Edits /\ lastMod \in Edits /\ rules \in Edits
  /\ pc \in [Reloaders -> {"idle", "stat", "compare", "old", "read", "stat2",
                           "install", "compile", "restore"}]
  /\ info \in [Reloaders -> Edits] /\ old \in [Reloaders -> Edits \cup {NoConfig}]
  /\ data \in [Reloaders -> Edits]
  /\ overlapped \in BOOLEAN /\ raced \in BOOLEAN

Quiet == start = "serving" /\ \A r \in Reloaders : pc[r] \in {"idle", "stat", "compare"}

\* Whatever is saved and however reloads overlap, commands are only ever
\* decided by rules of a content that compiled, and the paths by a content
\* that parsed and that was in the file; lastMod, which may move back, is
\* never ahead of the file.
OnlyGoodRules == start = "serving" =>
  /\ Compiles(rules) /\ rules <= file
  /\ kind[config] \in {"good", "invalid", "badRegex"} /\ config <= file
  /\ lastMod <= file

\* Reloads that did not overlap leave commands and paths of one content, also
\* after contents that did not parse or compile, and /whitelist-info shows it.
ConsistentWithoutOverlap ==
  ~overlapped /\ Quiet => InfoAnswer = [status |-> 200, lists |-> DecidedBy.commands]

\* The settings a server runs with, token, limits and audit file among them,
\* come from a content that was validated, and never from a newer one than its
\* commands and paths do, although those are loaded again while they are not.
SettingsOldest == start = "serving" =>
  /\ kind[settings] = "good"
  /\ settings <= rules /\ settings <= config

\* As long as reloads do not overlap and no edit falls between a reload's
\* reading and its Stat, a checker whose lastMod is the file's enforces that
\* file, unless the content is bad.
CurrentWithoutRace ==
  ~overlapped /\ ~raced /\ Quiet /\ lastMod = file /\ Compiles(file) =>
    rules = file /\ config = file

\* A content that compiles, saved while no reload is in progress, is enforced
\* in the end, commands and paths, if it stays in the file.
GoodEditIsPickedUp ==
  \A v \in Edits :
    (start = "serving" /\ file = v /\ Compiles(v) /\ lastMod < v
       /\ \A r \in Reloaders : pc[r] = "idle")
      ~> (rules = v /\ config = v) \/ file # v

-----------------------------------------------------------------------------
(* What the repository says and the code does not do. *)

\* When no reload is in progress the checker enforces the rules of the config
\* it reports: after an error the old config is kept (checker.go: "Keep old
\* config on error", "Keep old config on compile error").
Consistent == Quiet => DecidedBy.commands = InfoAnswer.lists

\* A saved config is loaded automatically (docs/RUNBOOK.md), if it stays in
\* the file and requests keep coming.
SavedIsReloaded ==
  \A v \in Edits : (start = "serving" /\ file = v /\ kind[v] = "good") ~> (config = v \/ file # v)
=============================================================================

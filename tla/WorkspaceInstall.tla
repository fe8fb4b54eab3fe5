-------------------------- MODULE WorkspaceInstall --------------------------
\* Installs in a workspace: which projects a command installs, what it writes of
\* the others, and what later commands make of that.
\*   plugin-commands-installation/src/{installDeps,recursive}.ts  the command
\*   core/src/install/index.ts, headless/src/index.ts             an install
\*   workspace/state, deps/status                                 "Already up to date"
\* Every project has one dependency at most, of some version; what an install
\* does to a package is in Install.
EXTENDS Integers, FiniteSets, TLC

CONSTANTS
  Projects, Root,  \* the projects there can be; that of the workspace's root
  Versions,        \* of the dependency
  NeedBuild,       \* the versions with build scripts
  Workspaces,      \* [oneLockfile, manifest: project -> version]: to start with
  Edits,           \* by oneLockfile, the <<project, version>> that the user may write
  Commands,        \* by oneLockfile, the [name, version, only, bail] that are run
  Selections,      \* the filters: sets of projects
  Concurrency,     \* workspaceConcurrency
  MaxCommands, MaxEdits, MaxBreaks

VARIABLES
  oneLockfile,  \* sharedWorkspaceLockfile
  ws,       \* the projects there are, their manifests, the importers of lockfiles
  mods,     \* current lockfiles (importers, packages), virtual stores, links of projects
  state,    \* .pnpm-workspace-state.json, and what is newer than it
  command,  \* the command that runs, or how the last one ended
  calls,    \* its calls of mutateModules, by the directory of the lockfile
  past,     \* history, for the properties
  spent
workspaceVars == <<oneLockfile, ws, mods, state, command, calls, past, spent>>

NoDep == 0     \* a project without the dependency
Absent == -1   \* no such project, no such importer
Importers == {Absent, NoDep} \cup Versions

WorkspaceAssumption ==
  /\ Root \in Projects /\ Versions \subseteq Nat \ {NoDep} /\ {MaxCommands, MaxEdits, MaxBreaks} \subseteq Nat
  /\ Workspaces \subseteq [oneLockfile : BOOLEAN, manifest : [Projects -> Importers]]
  /\ Commands \in [BOOLEAN -> SUBSET [name : {"install", "add", "update"}, version : Versions \cup {NoDep},
                                      only : BOOLEAN, bail : BOOLEAN]]

Dir(p) == IF oneLockfile THEN Root ELSE p
Of(d) == {p \in Projects : Dir(p) = d}
Dirs == {Dir(p) : p \in Projects}

Rest == {"idle", "skipped", "verified", "done", "reported", "failed"}
Phases == <<"idle", "waiting", "lock", "prune", "import", "link", "build", "write", "save", "done", "failed">>
Active == {"lock", "prune", "import", "link", "build", "write", "save"}
NoCall == [phase |-> "idle", how |-> "full", target |-> [p \in Projects |-> Absent],
           build |-> {}, write |-> {}, save |-> {}, partial |-> FALSE]
NoCommand == [phase |-> "idle", name |-> "install", sel |-> {}, hit |-> {}, version |-> NoDep,
              only |-> FALSE, bail |-> TRUE, left |-> {}]

WorkspaceTypeOK ==
  /\ oneLockfile \in BOOLEAN
  /\ ws.here \subseteq Projects /\ {ws.manifest, ws.lock, mods.current} \subseteq [Projects -> Importers]
  /\ mods.packages \in [Projects -> SUBSET Versions]
  /\ mods.store \in [Projects -> [Versions -> {"absent", "fresh", "built"}]]
  /\ mods.link \in [Projects -> Versions \cup {NoDep}]
  /\ {state.exists, state.filtered} \subseteq BOOLEAN
  /\ state.projects \cup state.newer \cup state.lockNewer \subseteq Projects
  /\ command.phase \in Rest \cup {"running", "bailing", "rebuilding"}
  /\ command.hit \subseteq command.sel /\ command.left \subseteq command.sel
  /\ \A d \in Projects : /\ \E i \in DOMAIN Phases : calls[d].phase = Phases[i]
                         /\ calls[d].build \subseteq NeedBuild /\ calls[d].write \subseteq {"wanted", "current"}
  /\ past.settled \cup past.missed \cup past.strays \cup past.harmed \subseteq Projects
  /\ spent.commands \in 0..MaxCommands /\ spent.edits \in 0..MaxEdits /\ spent.breaks \in 0..MaxBreaks

\* What lockfiles have
PackagesOf(importers, projects) == {importers[p] : p \in projects} \cap Versions
Ids(importers, d) == {p \in Of(d) : importers[p] # Absent}
HasLockfile(d) == Ids(ws.lock, d) # {}
HasCurrent(d) == Ids(mods.current, d) # {}

\* A new checkout, or a workspace that is installed.
Fresh(here) ==
  /\ ws.lock = [p \in Projects |-> Absent] /\ ws.here = here
  /\ mods = [current |-> ws.lock, packages |-> [p \in Projects |-> {}],
             store |-> [p \in Projects |-> [v \in Versions |-> "absent"]], link |-> [p \in Projects |-> NoDep]]
  /\ state = [exists |-> FALSE, filtered |-> FALSE, projects |-> {}, newer |-> here, lockNewer |-> {}]
Installed(here) ==
  /\ ws.lock = ws.manifest /\ ws.here = here
  /\ LET packages == [d \in Projects |-> IF d \in Dirs THEN PackagesOf(ws.lock, Of(d)) ELSE {}]
     IN  mods = [current |-> [p \in Projects |-> IF packages[Dir(p)] = {} THEN Absent ELSE ws.lock[p]],
                 packages |-> packages,
                 store |-> [d \in Projects |-> [v \in Versions |->
                   IF v \notin packages[d] THEN "absent" ELSE IF v \in NeedBuild THEN "built" ELSE "fresh"]],
                 link |-> [p \in Projects |-> IF p \in here THEN ws.lock[p] ELSE NoDep]]
  /\ state = [exists |-> TRUE, filtered |-> FALSE, projects |-> here, newer |-> {}, lockNewer |-> {}]
Init ==
  /\ \E w \in Workspaces, installed \in BOOLEAN :
       LET here == {p \in Projects : w.manifest[p] # Absent}
           lock == [p \in Projects |-> IF installed THEN w.manifest[p] ELSE Absent]
       IN  /\ oneLockfile = w.oneLockfile
           /\ ws = [here |-> here, manifest |-> w.manifest, lock |-> lock]
           /\ IF installed THEN Installed(here) ELSE Fresh(here)
           /\ past = [settled |-> IF installed THEN here ELSE {}, missed |-> {}, strays |-> {},
                      harmed |-> {}, torn |-> FALSE, broke |-> [d \in Projects |-> {}]]
  /\ command = NoCommand /\ calls = [d \in Projects |-> NoCall]
  /\ spent = [commands |-> 0, edits |-> 0, breaks |-> 0]

-----------------------------------------------------------------------------
\* checkDepsStatus, of a workspace

\* Mutant of CurrentIsWanted: node_modules is not looked at.
NotCompared(d) == TRUE

\* assertLockfilesEqual
CurrentIsWanted(d) ==
  IF HasCurrent(d)
  THEN /\ \A p \in Of(d) : mods.current[p] = ws.lock[p]
       /\ mods.packages[d] = PackagesOf(ws.lock, Of(d))
  ELSE PackagesOf(ws.lock, Of(d)) = {}

HasModulesDir(p) == mods.link[p] # NoDep \/ \E v \in Versions : mods.store[p][v] # "absent"

\* A manifest that is newer than the state has to go with its lockfile, and that
\* with node_modules if it is newer, too.
DepsStatusIsFine(ignoreFilteredInstallCache) ==
  /\ state.exists /\ (ignoreFilteredInstallCache => ~state.filtered)
  /\ state.projects = ws.here
  /\ state.filtered \/ \A p \in ws.here : ws.manifest[p] # NoDep => HasModulesDir(p)
  /\ \A p \in state.newer \cap ws.here :
       /\ HasLockfile(Dir(p)) /\ ws.lock[p] = ws.manifest[p]
       /\ Dir(p) \in state.lockNewer => CurrentIsWanted(Dir(p))

\* "Already up to date", or pnpm run with verifyDepsBeforeRun: the state is
\* renewed if a manifest had to be looked at.
Check(ignoreFilteredInstallCache, phase) ==
  /\ command.phase \in Rest /\ DepsStatusIsFine(ignoreFilteredInstallCache)
  /\ command' = [NoCommand EXCEPT !.phase = phase]
  /\ state' = IF state.newer \cap ws.here = {} THEN state
              ELSE [state EXCEPT !.newer = {}, !.lockNewer = {}]
  /\ calls' = [d \in Projects |-> NoCall]
  /\ UNCHANGED <<oneLockfile, ws, mods, past, spent>>
Skip == Check(TRUE, "skipped")
Verify == Check(FALSE, "verified")

-----------------------------------------------------------------------------
\* A command: install, add a version to the projects that are selected, update
\* those that have the dependency to it; maybe the lockfile only.
Hit(name, sel) == {p \in sel : name = "update" => ws.manifest[p] # NoDep}

Begin(name, sel, version, only, bail) ==
  LET hit == Hit(name, sel)
      mutated == hit \cup (IF oneLockfile THEN {Root} \cap ws.here ELSE {})
  IN  /\ command.phase \in Rest /\ spent.commands < MaxCommands
      /\ sel # {} /\ hit # {} /\ sel \subseteq ws.here
      /\ ~(name = "install" /\ DepsStatusIsFine(TRUE))
      /\ spent' = [spent EXCEPT !.commands = @ + 1]
      /\ command' = [NoCommand EXCEPT !.phase = "running", !.name = name, !.sel = sel, !.hit = hit,
                                      !.version = version, !.only = only, !.bail = bail]
      /\ calls' = [d \in Projects |-> [NoCall EXCEPT !.phase = IF d \in {Dir(p) : p \in hit} THEN "waiting" ELSE "idle"]]
      /\ past' = [past EXCEPT !.settled = @ \ mutated]
      /\ UNCHANGED <<oneLockfile, ws, mods, state>>

\* The projects that a call installs: the root of a workspace is always one.
Mutated(d) == Of(d) \cap (command.hit \cup IF oneLockfile THEN {Root} \cap ws.here ELSE {})
PruneLockfileImporters == command.sel = ws.here /\ command.hit = command.sel
\* What the manifest of a project will say
WantedOf(p) == IF command.name # "install" /\ p \in command.hit THEN command.version ELSE ws.manifest[p]

\* readLockfiles: without a lockfile the current one is taken for it, and both
\* get the importers that they lack.
Read(file, d) ==
  [p \in Projects |-> IF p \in Of(d) \cap ws.here /\ file[p] = Absent THEN NoDep
                      ELSE IF p \in Of(d) THEN file[p] ELSE Absent]
ReadWanted(d) == Read(IF HasLockfile(d) THEN ws.lock ELSE mods.current, d)
CurrentIsUpToDate(d) ==
  /\ Read(mods.current, d) = ReadWanted(d)
  /\ HasLockfile(d) => mods.packages[d] = PackagesOf(ws.lock, Of(d))

\* Mutant of FrozenIsPossible: importers that are too many do not count.
FrozenWithMore(d) ==
  /\ command.name = "install" /\ HasLockfile(d) /\ PackagesOf(ReadWanted(d), Of(d)) # {}
  /\ \A p \in Of(d) \cap ws.here : ReadWanted(d)[p] = ws.manifest[p]

\* All projects are up to date, also those that are not selected.
FrozenIsPossible(d) ==
  /\ command.name = "install" /\ HasLockfile(d) /\ PackagesOf(ReadWanted(d), Of(d)) # {}
  /\ PruneLockfileImporters => Ids(ReadWanted(d), d) = Of(d) \cap ws.here
  /\ \A p \in Of(d) \cap ws.here : ReadWanted(d)[p] = ws.manifest[p]

\* The lockfile that is resolved has all the projects of the workspace.
Resolved(d) ==
  LET read == ReadWanted(d)
  IN  [p \in Projects |->
        IF p \in Of(d) \cap ws.here THEN WantedOf(p)
        ELSE IF PruneLockfileImporters THEN Absent ELSE read[p]]

\* An install of a part of the workspace writes the lockfile and then does what
\* a frozen one does, even if it should write the lockfile only.
Start(d) ==
  LET how == IF FrozenIsPossible(d) THEN "frozen"
             ELSE IF Mutated(d) # Of(d) \cap ws.here THEN "filtered" ELSE "full"
      target == IF how = "frozen" THEN ReadWanted(d) ELSE Resolved(d)
      partial == \/ command.name # "install" /\ ~CurrentIsUpToDate(d)
                 \/ Mutated(d) # Ids(target, d)
  IN  /\ command.phase \in {"running", "bailing"} /\ calls[d].phase = "waiting"
      /\ Cardinality({e \in Dirs : calls[e].phase \in Active}) < Concurrency
      /\ calls' = [calls EXCEPT ![d] =
           [NoCall EXCEPT !.phase = IF command.only \/ how = "filtered" THEN "lock" ELSE "prune",
              !.how = how, !.target = target,
              !.write = IF how = "full" \/ (how = "frozen" /\ target # ws.lock) THEN {"wanted", "current"}
                        ELSE {"current"},
              !.save = {p \in command.hit \cap Of(d) : ws.manifest[p] # WantedOf(p)},
              !.partial = how = "full" /\ partial]]
      /\ past' = [past EXCEPT !.harmed = IF past.broke[d] \subseteq {target} THEN @ ELSE @ \cup {d}]
      /\ UNCHANGED <<oneLockfile, ws, mods, state, command, spent>>

\* When everything else is written the manifests are.
Saving(call) == IF call.save = {} THEN "done" ELSE "save"
SetLock(d) == [p \in Projects |-> IF p \in Of(d) THEN calls[d].target[p] ELSE ws.lock[p]]

WriteLockfileFirst(d) ==
  /\ calls[d].phase = "lock"
  /\ ws' = [ws EXCEPT !.lock = SetLock(d)]
  /\ state' = [state EXCEPT !.lockNewer = @ \cup {d}]
  /\ calls' = [calls EXCEPT ![d].phase =
       IF command.only /\ calls[d].how # "filtered" THEN Saving(calls[d]) ELSE "prune"]
  /\ UNCHANGED <<oneLockfile, mods, command, past, spent>>

\* Mutant of Needed: only what the projects that are installed need is kept.
NeededHere(d) == PackagesOf(calls[d].target, Mutated(d))

Needed(d) == PackagesOf(calls[d].target, Of(d))

\* Direct dependencies that change are removed; from the virtual store, if it is
\* time to, what is not in the lockfile.
PruneModules(d, pruneVirtualStore) ==
  LET gone == {p \in Mutated(d) : mods.current[p] \in Versions /\ mods.current[p] # calls[d].target[p]}
  IN  /\ calls[d].phase = "prune"
      /\ mods' = [mods EXCEPT
           !.link = [p \in Projects |-> IF p \in gone THEN NoDep ELSE @[p]],
           !.store[d] = [v \in Versions |-> IF pruneVirtualStore /\ v \notin Needed(d) THEN "absent" ELSE @[v]]]
      /\ calls' = [calls EXCEPT ![d].phase = "import"]
      /\ UNCHANGED <<oneLockfile, ws, state, command, past, spent>>

\* What is in the current lockfile and in the store is not looked at.
Import(d) ==
  LET new == {v \in PackagesOf(calls[d].target, Mutated(d)) :
                v \notin mods.packages[d] \/ mods.store[d][v] = "absent"}
  IN  /\ calls[d].phase = "import"
      /\ mods' = [mods EXCEPT !.store[d] =
           [v \in Versions |-> IF v \in new /\ @[v] = "absent" THEN "fresh" ELSE @[v]]]
      /\ calls' = [calls EXCEPT ![d].phase = "link", ![d].build = new \cap NeedBuild]
      /\ UNCHANGED <<oneLockfile, ws, state, command, past, spent>>

LinkDirect(d) ==
  /\ calls[d].phase = "link"
  /\ mods' = [mods EXCEPT !.link =
       [p \in Projects |-> IF p \in Mutated(d) /\ calls[d].target[p] # NoDep THEN calls[d].target[p] ELSE @[p]]]
  /\ calls' = [calls EXCEPT ![d].phase = "build"]
  /\ UNCHANGED <<oneLockfile, ws, state, command, past, spent>>

\* Projects with lockfiles of their own are built when all are installed.
Build(d) ==
  /\ calls[d].phase = "build"
  /\ mods' = [mods EXCEPT !.store[d] =
       [v \in Versions |-> IF oneLockfile /\ v \in calls[d].build THEN "built" ELSE @[v]]]
  /\ calls' = [calls EXCEPT ![d].phase = "write"]
  /\ UNCHANGED <<oneLockfile, ws, state, command, past, spent>>

\* The current lockfile gets all the importers of the lockfile, also those that
\* were not installed; it is removed if there is nothing in the lockfile.
NewCurrent(d) ==
  LET target == calls[d].target
  IN  [p \in Projects |->
        IF p \notin Of(d) THEN mods.current[p]
        ELSE IF PackagesOf(target, Of(d)) = {} THEN Absent
        ELSE IF calls[d].partial /\ p \notin Mutated(d) THEN mods.current[p] ELSE target[p]]
NewPackages(d) ==
  LET installed == PackagesOf(calls[d].target, Mutated(d))
      kept == IF calls[d].partial \/ Mutated(d) # Ids(calls[d].target, d) THEN mods.packages[d] ELSE {}
  IN  CASE Ids(NewCurrent(d), d) = {} -> {}
        [] Ids(NewCurrent(d), d) # {} /\ calls[d].how = "full" ->
             (installed \cup kept) \cap PackagesOf(NewCurrent(d), Of(d))
        [] OTHER -> installed \cup kept

WriteLockfile(d, file) ==
  /\ calls[d].phase = "write" /\ file \in calls[d].write
  /\ LET written == [calls[d] EXCEPT !.write = @ \ {file}]
     IN  calls' = [calls EXCEPT ![d] =
           IF written.write = {} THEN [written EXCEPT !.phase = Saving(written)] ELSE written]
  /\ IF file = "wanted"
     THEN /\ ws' = [ws EXCEPT !.lock = SetLock(d)]
          /\ state' = [state EXCEPT !.lockNewer = @ \cup {d}]
          /\ UNCHANGED <<mods, past>>
     ELSE /\ mods' = [mods EXCEPT !.current = NewCurrent(d), !.packages[d] = NewPackages(d)]
          /\ past' = [past EXCEPT !.strays = @ \cup
               {p \in Of(d) \cap ws.here : p \notin Mutated(d) /\ mods.link[p] \notin {NoDep, calls[d].target[p]}}]
          /\ UNCHANGED <<ws, state>>
  /\ UNCHANGED <<oneLockfile, command, spent>>

SaveManifest(d, p) ==
  /\ calls[d].phase = "save" /\ p \in calls[d].save
  /\ ws' = [ws EXCEPT !.manifest[p] = calls[d].target[p]]
  /\ state' = [state EXCEPT !.newer = @ \cup {p}]
  /\ LET saved == [calls[d] EXCEPT !.save = @ \ {p}]
     IN  calls' = [calls EXCEPT ![d] = [saved EXCEPT !.phase = Saving(saved)]]
  /\ UNCHANGED <<oneLockfile, mods, command, past, spent>>

-----------------------------------------------------------------------------
\* The end of a command

AllEnded == \A d \in Dirs : calls[d].phase \in {"idle", "done", "failed"}
Failed == {d \in Dirs : calls[d].phase = "failed"}

\* Mutant of ToRebuild: only if nothing failed.
RebuiltOnSuccess == IF oneLockfile \/ command.only \/ Failed # {} THEN {} ELSE command.sel

ToRebuild == IF oneLockfile \/ command.only THEN {} ELSE command.sel

StartRebuild ==
  /\ command.phase = "running" /\ AllEnded
  /\ command' = [command EXCEPT !.phase = "rebuilding", !.left = ToRebuild]
  /\ UNCHANGED <<oneLockfile, ws, mods, state, calls, past, spent>>

\* All that the current lockfile of the project has.
RebuildProject(p) ==
  /\ command.phase = "rebuilding" /\ p \in command.left
  /\ mods' = [mods EXCEPT !.store[p] =
       [v \in Versions |-> IF v \in mods.packages[p] \cap NeedBuild /\ @[v] = "fresh" THEN "built" ELSE @[v]]]
  /\ command' = [command EXCEPT !.left = @ \ {p}]
  /\ UNCHANGED <<oneLockfile, ws, state, calls, past, spent>>

\* Mutant of FilteredInstall: a part of the workspace is taken for all of it.
NeverFiltered == FALSE

FilteredInstall == command.sel # ws.here

\* throwOnFail, updateWorkspaceState
Conclude ==
  LET installed == UNION {Mutated(d) : d \in {e \in Dirs : calls[e].phase = "done"}}
      overlooked == {p \in state.newer : ~command.only \/ calls[Dir(p)].how = "filtered"} \ installed
      written == Failed = {} /\ ~command.only
  IN  /\ command.phase = "rebuilding" /\ command.left = {}
      /\ command' = [command EXCEPT !.phase = IF Failed = {} THEN "done" ELSE "reported"]
      /\ state' = IF ~written THEN state
                  ELSE [exists |-> TRUE, filtered |-> FilteredInstall, projects |-> ws.here,
                        newer |-> {}, lockNewer |-> {}]
      /\ past' = IF ~written THEN [past EXCEPT !.missed = @ \cup overlooked]
                 ELSE [past EXCEPT
                   !.settled = @ \cup {p \in installed : Dir(p) \notin past.harmed},
                   !.missed = (@ \cup overlooked) \ installed,
                   !.torn = @ /\ installed # ws.here,
                   !.broke = [d \in Projects |-> IF calls[d].phase = "done" THEN {} ELSE @[d]]]
      /\ calls' = [d \in Projects |-> [NoCall EXCEPT !.phase = calls[d].phase]]
      /\ UNCHANGED <<oneLockfile, ws, mods, spent>>

\* What breaks off half-way, between the two lockfiles, and a change of the lockfile
\* without the manifest.
\* Harm is done by one that had yet to build a package which the current lockfile
\* already has, such as one that a filtered install pruned: the next install finds
\* it there and takes it for built.
Broken(ds) ==
  [past EXCEPT
    !.harmed = @ \cup {d \in ds : oneLockfile /\ calls[d].phase \in {"link", "build"}
                                  /\ calls[d].build \cap mods.packages[d] # {}},
    !.broke = [d \in Projects |->
      IF d \in ds /\ calls[d].phase \in {"import", "link", "build", "write"} /\ "current" \in calls[d].write
      THEN {calls[d].target} ELSE @[d]],
    !.torn = \/ @
             \/ ~oneLockfile /\ \E d \in Dirs : calls[d].build # {}
             \/ \E d \in Dirs : calls[d].write = {"wanted"}
             \/ /\ command.name # "install" \/ FilteredInstall
                /\ \E d \in Dirs : calls[d].phase \in (Active \ {"lock"}) \cup {"done"}]

\* A call fails. With bail, or if it is the only one, so does the command: the
\* process ends while others run.
Fail(d) ==
  /\ command.phase = "running" /\ calls[d].phase \in Active /\ spent.breaks < MaxBreaks
  /\ spent' = [spent EXCEPT !.breaks = @ + 1]
  /\ past' = Broken({d})
  /\ calls' = [calls EXCEPT ![d].phase = "failed"]
  /\ command' = [command EXCEPT !.phase = IF oneLockfile \/ command.bail THEN "bailing" ELSE @]
  /\ UNCHANGED <<oneLockfile, ws, mods, state>>

Stop ==
  /\ past' = Broken(Dirs)
  /\ calls' = [d \in Projects |-> NoCall]
  /\ command' = [command EXCEPT !.phase = "failed", !.left = {}]
  /\ UNCHANGED <<oneLockfile, ws, mods, state>>
Exit == command.phase = "bailing" /\ Stop /\ UNCHANGED spent
Kill ==
  /\ command.phase \in {"running", "rebuilding"} /\ spent.breaks < MaxBreaks
  /\ spent' = [spent EXCEPT !.breaks = @ + 1]
  /\ Stop

-----------------------------------------------------------------------------
\* The user, between commands

Edited == /\ command.phase \in Rest /\ spent.edits < MaxEdits
          /\ spent' = [spent EXCEPT !.edits = @ + 1]
          /\ command' = NoCommand /\ calls' = [d \in Projects |-> NoCall]
          /\ UNCHANGED oneLockfile

\* Projects come and go with their manifests.  One that comes back after a filtered
\* install is taken for installed: whether it has links is not looked at then.
EditManifest(p, version) ==
  /\ Edited /\ <<p, version>> \in Edits[oneLockfile] /\ version # ws.manifest[p]
  /\ ws' = [ws EXCEPT !.manifest[p] = version, !.here = @ \cup {p}]
  /\ state' = [state EXCEPT !.newer = @ \cup {p}]
  /\ past' = [past EXCEPT !.settled = @ \ {p},
                          !.missed = IF state.filtered /\ p \notin ws.here THEN @ \cup {p} ELSE @]
  /\ UNCHANGED mods

RemoveProject(p) ==
  LET Without(f, nothing) == IF oneLockfile THEN f ELSE [f EXCEPT ![p] = nothing]
  IN  /\ Edited /\ p \in ws.here \ {Root}
      /\ ws' = [here |-> ws.here \ {p}, manifest |-> [ws.manifest EXCEPT ![p] = Absent],
                lock |-> Without(ws.lock, Absent)]
      /\ mods' = [current |-> Without(mods.current, Absent), packages |-> Without(mods.packages, {}),
                  store |-> Without(mods.store, [v \in Versions |-> "absent"]),
                  link |-> [mods.link EXCEPT ![p] = NoDep]]
      /\ state' = [state EXCEPT !.newer = @ \ {p}]
      /\ past' = [past EXCEPT !.settled = @ \ {p}, !.missed = @ \ {p}, !.strays = @ \ {p},
                              !.broke = Without(@, {})]

-----------------------------------------------------------------------------
Next ==
  \/ command.phase \in Rest /\ UNCHANGED workspaceVars
  \/ Skip \/ Verify \/ StartRebuild \/ Conclude \/ Exit \/ Kill
  \/ \E sel \in Selections \cup {ws.here}, c \in Commands[oneLockfile] :
       Begin(c.name, sel, c.version, c.only, c.bail)
  \/ \E d \in Dirs :
       \/ Start(d) \/ WriteLockfileFirst(d) \/ Import(d) \/ LinkDirect(d) \/ Build(d) \/ Fail(d)
       \/ \E b \in BOOLEAN : PruneModules(d, b)
       \/ \E file \in {"wanted", "current"} : WriteLockfile(d, file)
       \/ \E p \in Of(d) : SaveManifest(d, p)
  \/ \E p \in Projects :
       \/ RebuildProject(p) \/ RemoveProject(p)
       \/ \E v \in Versions \cup {NoDep} : EditManifest(p, v)

Spec == Init /\ [][Next]_workspaceVars

-----------------------------------------------------------------------------
\* A project has its dependency, whole and built. (A filtered install takes the
\* links of the projects that it leaves out for those of the new lockfile: a link
\* that is not wanted any more stays then, for good.)
Usable(p) ==
  LET v == ws.manifest[p]
  IN  IF v = NoDep THEN mods.link[p] = NoDep \/ p \in past.strays
      ELSE /\ mods.link[p] = v
           /\ mods.store[Dir(p)][v] \in IF v \in NeedBuild THEN {"built"} ELSE {"fresh", "built"}

\* A command that ends well has written the lockfile of all projects of the
\* workspace, has installed and built those it was asked for, also after others
\* that broke off, and an install of everything has dropped the projects that
\* are gone. (What broke off with another lockfile may leave damage, see Install.)
WorkspaceIsInstalled ==
  command.phase = "done" =>
    /\ \A d \in Dirs : calls[d].phase = "done" =>
         /\ \A p \in Of(d) \cap ws.here : ws.lock[p] = ws.manifest[p]
         /\ PruneLockfileImporters => Ids(ws.lock, d) = Of(d) \cap ws.here
         /\ command.only \/ d \in past.harmed \/ \A p \in Mutated(d) : Usable(p)
    /\ \A p \in command.hit : calls[Dir(p)].phase = "done"

\* "Already up to date" is true of all projects, whatever was installed, edited
\* or broken off before: but for the damage, for commands that broke off between
\* the two lockfiles or the lockfile and the manifests, and for projects that a
\* filtered install passed over (with one lockfile only where it left a link that
\* is not wanted).
WorkspaceIsUpToDate ==
  command.phase = "skipped" /\ ~past.torn =>
    \A p \in ws.here : Dir(p) \in past.harmed \/ ~(past.broke[Dir(p)] \subseteq {ws.lock})
                       \/ (p \in past.missed /\ (~oneLockfile \/ p \in past.strays))
                       \/ (Usable(p) /\ ws.lock[p] = ws.manifest[p])

\* Before a script is run, up to date means so for all projects but those that
\* were edited when another one was installed, or came back after that.
VerifiedIsUsable ==
  command.phase = "verified" /\ ~past.torn =>
    \A p \in ws.here : Dir(p) \in past.harmed \/ ~(past.broke[Dir(p)] \subseteq {ws.lock})
                       \/ p \in past.missed \/ Usable(p)

\* At no moment do installs of other projects, whether they end well or not,
\* break one that is installed and has not been edited since.
SettledStay == \A p \in past.settled : Usable(p)

\* Without bail a project that fails does not keep the others from being
\* installed and built, and the command still fails.
OthersAreInstalled ==
  command.phase = "reported" =>
    /\ Failed # {}
    /\ command.only \/ \A d \in Dirs : calls[d].phase = "done" /\ d \notin past.harmed =>
                         \A p \in Mutated(d) : Usable(p)
=============================================================================

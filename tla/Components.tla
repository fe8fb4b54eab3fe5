----------------------------- MODULE Components -----------------------------
\* The components that share no state, in one model: a behaviour is one of the
\* component that `subject` names, and the others are parked.
EXTENDS Integers, FiniteSets, Sequences

CONSTANTS
  OtherSubjects, \* subjects that a module which extends this one adds
  RunProjects, Deps, Sorted, Matches, Concurrency,                              \* RecursiveRun
  Servers, Clients, Kind, Spawned, MaxCrashes, NoFile,                          \* StoreServer
  Calls, SkipFetch, MaxLost,                                                    \* StoreRequests
  Retries, MaxRedirects, MirrorHosts,                                           \* Fetching
  ImportFiles, OldFiles, Nested, Bundled, MaxFaults,                            \* Importer
  FxNames, FxVersions, Uploads, Key, Built, Base, FxInstalls, ImportKey, Pid,   \* SideEffects
  GitInstalls, MaxGitFaults,                                                    \* GitHosted
  MetaRequests, MetaWanted, LastVersion, MaxFailures,                           \* MetaCache
  InstallSatisfies, InstallDirect, InstallChildren, NeedBuild, MaxEdits, MaxBreaks, \* Install
  PatchPaths, Ancestors, PatchInodes, MaxTries,                                 \* DirPatcher
  Prunes, Installs, MaxBeside, MaxBegun, After, MaxDead, FilesOf, PackageOf, Manifest, \* StorePrune
  Sources, TreeVersion, NamedAs, MaxRefusals,                                   \* ResolveTree
  Runs, Cleans, MaxAge, MaxTime, MaxKills,                                      \* DlxCache
  WsProjects, WsRoot, WsVersions, WsNeedBuild, WsSetups, Edits, WsCommands, Selections, MaxCommands, \* WorkspaceInstall
  RebChunks, RebDirect, RebDeps, RebHasScripts, RebOptional, RebProjectScripts, RebAllowed,
  RebSelections, RebConcurrency, MaxRebuilds, MaxBroken                         \* Rebuild

VARIABLES
  subject,
  opts, chunk, task, result, snapshot, summary, outcome,
  server, json, client, started, found, removals, crashes,
  asked, try, handlers, answers, filesPromises, fetched, lost,
  dl, attempt, inner, redirects, host, hasAuth, auth, integrity, body, requests, transient,
  leaked,
  method, kind, keep, had, force, place, linked, nested, stage, stageNm, todo, step, faults,
  mislaid,
  path, content, at, holds, fd, imported, stored, overlap,
  pkg, ignore, cloned, git, tree, index, got, gitFaults,
  mode, now, start, metaCache, mirror, limiter, stageOf, readFor, cached, used, fellBack,
  unsaved, failures,
  workspace, hardlinks, cache, manifest, wanted, current, touched, disk, links, roots, inst,
  brokeOff, damaged, stale, edits, breaks,
  sourceDir, targetDir, before, ops, patched, tries,
  files, indexes, shared, job, prune, beside, dead,
  source, groups, waits, children, preferred, importers, ended, refusals, ignored,
  dirs, link, dlx, clean, clock, kills, crossed, spoiled,
  oneLockfile, ws, mods, state, command, calls, past, spent,
  pendingBuilds, ignoredBuilds, built, effects, allowed, cmd, rb, forgotten, begun, broken

runVars == <<opts, chunk, task, result, snapshot, summary, outcome>>
serverVars == <<server, json, client, started, found, removals, crashes>>
reqVars == <<asked, try, handlers, answers, filesPromises, fetched, lost>>
dlVars == <<dl, attempt, inner, redirects, host, hasAuth, auth, integrity, body, requests,
  transient, leaked>>
impVars == <<method, kind, keep, had, force, place, linked, nested, stage, stageNm, todo, step,
  faults, mislaid>>
fxVars == <<path, content, at, holds, fd, imported, stored, overlap>>
gitVars == <<pkg, ignore, cloned, git, tree, index, got, gitFaults>>
metaVars == <<mode, now, start, metaCache, mirror, limiter, stageOf, readFor, cached, used,
  fellBack, unsaved, failures>>
installVars == <<workspace, hardlinks, cache, manifest, wanted, current, touched, disk, links,
  roots, inst, brokeOff, damaged, stale, edits, breaks>>
syncVars == <<sourceDir, targetDir, before, ops, patched, tries>>
pruneVars == <<files, indexes, shared, job, prune, beside, dead>>
treeVars == <<source, groups, waits, children, preferred, importers, ended, refusals, ignored>>
dlxVars == <<dirs, link, dlx, clean, clock, kills, crossed, spoiled>>
wsVars == <<oneLockfile, ws, mods, state, command, calls, past, spent>>
rebVars == <<pendingBuilds, ignoredBuilds, built, effects, allowed, cmd, rb, forgotten, begun,
  broken>>
vars == <<subject, runVars, serverVars, reqVars, dlVars, impVars,
  fxVars, gitVars, metaVars, installVars, syncVars, pruneVars, treeVars,
  dlxVars, wsVars, rebVars>>

-----------------------------------------------------------------------------
Run == INSTANCE RecursiveRun WITH Projects <- RunProjects
Srv == INSTANCE StoreServer
Req == INSTANCE StoreRequests
Dl == INSTANCE Fetching
Imp == INSTANCE Importer WITH Files <- ImportFiles
Fx == INSTANCE SideEffects WITH
  Names <- FxNames, Versions <- FxVersions, Installs <- FxInstalls
Git == INSTANCE GitHosted
Meta == INSTANCE MetaCache WITH
  Requests <- MetaRequests, Wanted <- MetaWanted, at <- stageOf, asked <- readFor
Ins == INSTANCE Install WITH
  Satisfies <- InstallSatisfies, Direct <- InstallDirect, Children <- InstallChildren
Patch == INSTANCE DirPatcher WITH Paths <- PatchPaths, Inodes <- PatchInodes
Prn == INSTANCE StorePrune
Tre == INSTANCE ResolveTree WITH VersionOf <- TreeVersion
Dlx == INSTANCE DlxCache
Wsp == INSTANCE WorkspaceInstall WITH
  Projects <- WsProjects, Root <- WsRoot, Versions <- WsVersions, NeedBuild <- WsNeedBuild,
  Workspaces <- WsSetups, Commands <- WsCommands
Reb == INSTANCE Rebuild WITH
  ProjectChunks <- RebChunks, Direct <- RebDirect, DepsOf <- RebDeps, HasScripts <- RebHasScripts,
  Optional <- RebOptional, ProjectScripts <- RebProjectScripts, Allowed <- RebAllowed,
  Selections <- RebSelections, BuildConcurrency <- RebConcurrency, MaxCommands <- MaxRebuilds

ASSUME ComponentsAssumption ==
  /\ Run!RunAssumption /\ Srv!ServerAssumption /\ Req!RequestsAssumption /\ Dl!FetchingAssumption
  /\ Imp!ImporterAssumption /\ Fx!SideEffectsAssumption /\ Meta!MetaAssumption /\ Ins!InstallAssumption
  /\ Patch!DirPatcherAssumption /\ Prn!PruneAssumption /\ Tre!TreeAssumption /\ Dlx!DlxAssumption
  /\ Git!GitAssumption /\ Wsp!WorkspaceAssumption /\ Reb!RebuildAssumption
-----------------------------------------------------------------------------
Init ==
  /\ subject \in OtherSubjects \cup
       {"run", "server", "requests", "download", "import", "effects", "git", "meta", "install", "sync",
        "prune", "tree", "dlx", "workspace", "rebuild"}
  /\ IF subject = "run" THEN Run!Init
     ELSE /\ opts = "parked" /\ chunk = "parked" /\ task = "parked" /\ result = "parked"
          /\ snapshot = "parked" /\ summary = "parked" /\ outcome = "parked"
  /\ Srv!Init
  /\ Req!Init
  /\ IF subject = "download" THEN Dl!Init
     ELSE /\ dl = "parked" /\ attempt = "parked" /\ inner = "parked" /\ redirects = "parked"
          /\ host = "parked" /\ hasAuth = "parked" /\ auth = "parked" /\ integrity = "parked"
          /\ body = "parked" /\ requests = "parked" /\ transient = "parked" /\ leaked = "parked"
  /\ IF subject = "import" THEN Imp!Init
     ELSE /\ method = "parked" /\ kind = "parked" /\ keep = "parked" /\ had = "parked"
          /\ force = "parked" /\ place = "parked" /\ linked = "parked" /\ nested = "parked"
          /\ stage = "parked" /\ stageNm = "parked" /\ todo = "parked" /\ step = "parked"
          /\ faults = "parked" /\ mislaid = "parked"
  /\ IF subject = "effects" THEN Fx!Init
     ELSE /\ path = "parked" /\ content = "parked" /\ at = "parked" /\ holds = "parked"
          /\ fd = "parked" /\ imported = "parked" /\ stored = "parked" /\ overlap = "parked"
  /\ IF subject = "git" THEN Git!Init
     ELSE /\ pkg = "parked" /\ ignore = "parked" /\ cloned = "parked" /\ git = "parked"
          /\ tree = "parked" /\ index = "parked" /\ got = "parked" /\ gitFaults = "parked"
  /\ IF subject = "meta" THEN Meta!Init
     ELSE /\ mode = "parked" /\ now = "parked" /\ start = "parked" /\ metaCache = "parked"
          /\ mirror = "parked" /\ limiter = "parked" /\ stageOf = "parked" /\ readFor = "parked"
          /\ cached = "parked" /\ used = "parked" /\ fellBack = "parked" /\ unsaved = "parked"
          /\ failures = "parked"
  /\ IF subject = "install" THEN Ins!Init
     ELSE /\ workspace = "parked" /\ hardlinks = "parked" /\ cache = "parked" /\ manifest = "parked"
          /\ wanted = "parked" /\ current = "parked" /\ touched = "parked" /\ disk = "parked"
          /\ links = "parked" /\ roots = "parked" /\ brokeOff = "parked" /\ damaged = "parked"
          /\ stale = "parked" /\ edits = "parked" /\ breaks = "parked"
          /\ inst = Ins!AtRest("idle")
  /\ IF subject = "sync" THEN Patch!Init
     ELSE /\ sourceDir = "parked" /\ targetDir = "parked" /\ before = "parked"
          /\ ops = "parked" /\ patched = "parked" /\ tries = "parked"
  /\ IF subject = "prune" THEN Prn!Init
     ELSE /\ files = "parked" /\ indexes = "parked" /\ shared = "parked" /\ job = "parked"
          /\ prune = "parked" /\ beside = "parked" /\ dead = "parked"
  /\ IF subject = "tree" THEN Tre!Init
     ELSE /\ source = [roots |-> <<>>] /\ groups = <<>> /\ waits = "parked" /\ children = "parked"
          /\ preferred = "parked" /\ importers = "parked" /\ ended = "parked" /\ refusals = "parked"
          /\ ignored = "parked"
  /\ IF subject = "dlx" THEN Dlx!DlxInit
     ELSE /\ dirs = "parked" /\ link = "parked" /\ dlx = "parked" /\ clean = "parked"
          /\ clock = "parked" /\ kills = "parked" /\ crossed = "parked" /\ spoiled = "parked"
  /\ IF subject = "workspace" THEN Wsp!Init
     ELSE /\ oneLockfile = "parked" /\ ws = "parked" /\ mods = "parked" /\ state = "parked"
          /\ command = "parked" /\ calls = "parked" /\ past = "parked" /\ spent = "parked"
  /\ IF subject = "rebuild" THEN Reb!Init
     ELSE /\ pendingBuilds = "parked" /\ ignoredBuilds = "parked" /\ built = "parked"
          /\ effects = "parked" /\ allowed = "parked" /\ cmd = "parked" /\ rb = "parked"
          /\ forgotten = "parked" /\ begun = "parked" /\ broken = "parked"

\* The other components stay as they are.
Only(s) ==
  /\ subject = s /\ UNCHANGED subject
  /\ IF s = "run" THEN TRUE ELSE UNCHANGED runVars
  /\ IF s = "server" THEN TRUE ELSE UNCHANGED serverVars
  /\ IF s = "requests" THEN TRUE ELSE UNCHANGED reqVars
  /\ IF s = "download" THEN TRUE ELSE UNCHANGED dlVars
  /\ IF s = "import" THEN TRUE ELSE UNCHANGED impVars
  /\ IF s = "effects" THEN TRUE ELSE UNCHANGED fxVars
  /\ IF s = "git" THEN TRUE ELSE UNCHANGED gitVars
  /\ IF s = "meta" THEN TRUE ELSE UNCHANGED metaVars
  /\ IF s = "install" THEN TRUE ELSE UNCHANGED installVars
  /\ IF s = "sync" THEN TRUE ELSE UNCHANGED syncVars
  /\ IF s = "prune" THEN TRUE ELSE UNCHANGED pruneVars
  /\ IF s = "tree" THEN TRUE ELSE UNCHANGED treeVars
  /\ IF s = "dlx" THEN TRUE ELSE UNCHANGED dlxVars
  /\ IF s = "workspace" THEN TRUE ELSE UNCHANGED wsVars
  /\ IF s = "rebuild" THEN TRUE ELSE UNCHANGED rebVars

Next ==
  \/ subject = "run" /\ Run!Next /\ Only("run")
  \/ subject = "server" /\ Srv!Next /\ Only("server")
  \/ subject = "requests" /\ Req!Next /\ Only("requests")
  \/ subject = "download" /\ Dl!Next /\ Only("download")
  \/ subject = "import" /\ Imp!Next /\ Only("import")
  \/ subject = "effects" /\ Fx!Next /\ Only("effects")
  \/ subject = "git" /\ Git!Next /\ Only("git")
  \/ subject = "meta" /\ Meta!Next /\ Only("meta")
  \/ subject = "install" /\ Ins!Next /\ Only("install")
  \/ subject = "sync" /\ Patch!Next /\ Only("sync")
  \/ subject = "prune" /\ Prn!Next /\ Only("prune")
  \/ subject = "tree" /\ Tre!Next /\ Only("tree")
  \/ subject = "dlx" /\ Dlx!DlxNext /\ Only("dlx")
  \/ subject = "workspace" /\ Wsp!Next /\ Only("workspace")
  \/ subject = "rebuild" /\ Reb!Next /\ Only("rebuild")

Spec == Init /\ [][Next]_vars
-----------------------------------------------------------------------------
\* Every component has its type.
TypeOK ==
  /\ subject = "run" => Run!RunTypeOK
  /\ subject = "server" => Srv!ServerTypeOK
  /\ subject = "requests" => Req!RequestsTypeOK
  /\ subject = "download" => Dl!FetchingTypeOK
  /\ subject = "import" => Imp!ImporterTypeOK
  /\ subject = "effects" => Fx!SideEffectsTypeOK
  /\ subject = "git" => Git!GitTypeOK
  /\ subject = "meta" => Meta!MetaTypeOK
  /\ subject = "install" => Ins!InstallTypeOK
  /\ subject = "sync" => Patch!PatchTypeOK
  /\ subject = "prune" => Prn!PruneTypeOK
  /\ subject = "tree" => Tre!TreeTypeOK
  /\ subject = "dlx" => Dlx!DlxTypeOK
  /\ subject = "workspace" => Wsp!WorkspaceTypeOK
  /\ subject = "rebuild" => Reb!RebuildTypeOK

\* pnpm -r run: scripts run after those of dependencies, a run that ends well
\* had no failure, and a failure is in the summary file.
RunIsSound == subject = "run" =>
  Run!DependenciesFirst /\ Run!SuccessMeansAllPassed /\ Run!FailureIsInTheSummary

\* pnpm rebuild: dependencies are built first, one that ends well has built what
\* it should, and what is not built is pending or listed as ignored.
RebuildIsSound == subject = "rebuild" =>
  /\ Reb!DependenciesRebuiltFirst /\ Reb!RebuiltIsBuilt /\ Reb!NothingIsForgotten
  /\ Reb!ProjectIsPending

\* The store server: one at a time, clients connect to one that listens, a
\* stopped one is gone.  The answers for files come after their fetch, and no
\* promise is kept after it was delivered.
ServerIsSound ==
  /\ subject = "server" => Srv!OneServer /\ Srv!ConnectedAfterListening /\ Srv!StoppedForGood
  /\ subject = "requests" => Req!AnsweredFilesAreFetched /\ Req!DeliveredPromisesAreDropped

\* Downloads: credentials stay at the registry, requests are bounded, errors
\* that pass are survived, only verified content is stored; git-hosted
\* packages: indexes are true and an install gets the kind it asked for.
\* Metadata: what was published is found, the mirror follows the memory, and
\* the limiter of a file outlives its queue.
FetchedIsSound ==
  /\ subject = "download" => /\ Dl!AuthStaysAtTheRegistry /\ Dl!RequestsAreBounded
                             /\ Dl!TransientErrorsAreSurvived /\ Dl!StoredIsVerified
  /\ subject = "git" => Git!IndexesAreTrue /\ Git!GotWhatWasAsked
  /\ subject = "meta" =>
       Meta!PublishedIsFound /\ Meta!MirrorFollowsMemory /\ Meta!LimiterOutlivesItsQueue

\* Imports: a package directory is whole or as before, the wanted one, and
\* keeps its nested modules; with side effects: entries are true, imports are
\* whole, and an entry is lost only to an overlapping upload.
\* Copies of a package: a patch that ends well makes the copy what the package
\* is, in every order of its parts; it ends well unless a file became a
\* directory or a directory a file, and then the next one does.
ImportedIsSound ==
  /\ subject = "import" => Imp!PlaceIsWhole /\ Imp!ImportedIsWanted /\ Imp!NestedModulesSurvive
  /\ subject = "effects" => Fx!EntriesAreTrue /\ Fx!ImportedIsWhole /\ Fx!LostByOverlapOnly
  /\ subject = "sync" => Patch!SyncedIsSource /\ Patch!SameKindsSucceed /\ Patch!NextOneSucceeds

\* Installs: the tree of dependencies is whole whatever the order of the answers;
\* an install that ends well leaves what its lockfile says, and "already up to
\* date" is true.
InstallIsSound ==
  /\ subject = "tree" => Tre!TreeIsWhole
  /\ subject = "install" => Ins!InstalledIsWanted /\ Ins!UpToDateIsTrue

\* A full install that prunes leaves nothing its lockfile does not have.
PrunedIsClean == Ins!PrunedIsClean

\* In workspaces the same of the projects that were selected, also when others
\* fail, and of those that were installed before that they are not harmed; and
\* "already up to date" is true of all projects, so is the same before a script
\* is run, whatever was installed, edited or broke off.
WorkspaceIsSound == subject = "workspace" =>
  /\ Wsp!WorkspaceIsInstalled /\ Wsp!SettledStay /\ Wsp!OthersAreInstalled
  /\ Wsp!WorkspaceIsUpToDate /\ Wsp!VerifiedIsUsable

\* Prunes of the store: what is linked is kept, no index is left without its
\* package.json, and neither prunes nor installs fail for what earlier ones,
\* also those that were killed, left behind.  pnpm dlx: commands run from
\* whole installations, and cleaning keeps what is used and leaves nothing else.
PruneIsSound ==
  /\ subject = "prune" => /\ Prn!InstallAloneSucceeds /\ Prn!LinkedFilesAreKept
                          /\ Prn!IndexesHaveManifests /\ Prn!PruneAloneSucceeds
  /\ subject = "dlx" => Dlx!RunsAreWhole /\ Dlx!CleanedIsExact
=============================================================================

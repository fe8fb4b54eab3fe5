CONSTANTS
  OtherSubjects = {"peers", "algorithm"}
  RunProjects <- Selected
  Deps <- DepsOf
  Sorted <- SortedChunks
  Matches <- MatchedScripts
  Concurrency = 2
  Servers = {"s1", "s2"}
  Clients = {"user", "stopper"}
  Kind <- KindOf
  Spawned <- SpawnedBy
  MaxCrashes = 1
  NoFile = NoFile
  Calls = {"a", "b"}
  SkipFetch = {"b"}
  MaxLost = 1
  Retries = 2
  MaxRedirects = 2
  MirrorHosts = {"cdn"}
  ImportFiles = {"package.json", "index.js"}
  OldFiles = {"package.json", "old.js"}
  Nested = {"n"}
  Bundled = {"b"}
  MaxFaults = 2
  FxNames = {"package.json", "src.c", "addon"}
  FxVersions = {"1", "2"}
  Uploads = {"u1", "u2"}
  Key <- KeyOf
  Built <- BuiltFiles
  Base <- BaseFiles
  FxInstalls = {"i"}
  ImportKey = "k1"
  Pid <- PidOf
  GitInstalls = {"i", "j"}
  MaxGitFaults = 1
  MetaRequests = {"r1", "r2"}
  MetaWanted <- WantedOf
  LastVersion = 3
  MaxFailures = 1
  InstallSatisfies <- SatisfiesOf
  InstallDirect <- DirectDeps
  InstallChildren <- ChildrenOf
  NeedBuild = {"a"}
  MaxEdits = 1
  MaxBreaks = 1
  PatchPaths = {"x", "x/f", "x/d", "x/d/g"}
  Ancestors <- AncestorsOf
  PatchInodes = {"1", "2"}
  MaxTries = 2
  Prunes = {"p", "q"}
  Installs = {"i", "j", "k"}
  MaxBeside = 2
  MaxBegun = 3
  After <- AfterOf
  MaxDead = 1
  FilesOf <- FilesOfPackage
  PackageOf <- InstalledBy
  Manifest <- ManifestOf
  Sources <- ToResolveAll
  TreeVersion <- NumberOf
  NamedAs <- NameOfPackage
  MaxRefusals = 1
  Runs = {"r1", "r2"}
  Cleans = {"c"}
  MaxAge = 1
  MaxTime = 2
  MaxKills = 1
  WsProjects = {"r", "p", "q"}
  WsRoot = "r"
  WsVersions = {1, 2}
  WsNeedBuild = {2}
  WsSetups <- WorkspacesOf
  Edits <- EditsOf
  WsCommands <- CommandsOf
  Selections = {{"p"}}
  MaxCommands = 2
  RebChunks <- InARow
  RebDirect <- DirectToRebuild
  RebDeps <- DepsToRebuild
  RebHasScripts = {"b", "c"}
  RebOptional = {"c"}
  RebProjectScripts = {"p"}
  RebAllowed = {{"b"}, {"b", "c"}}
  RebSelections = {{"c"}}
  RebConcurrency = 2
  MaxRebuilds = 2
  MaxBroken = 1
SPECIFICATION MCSpec
INVARIANT
  TypeOK
  RunIsSound
  RebuildIsSound
  
  FetchedIsSound
  ImportedIsSound
  
  WorkspaceIsSound
  ResolutionIsSound
  PruneIsSound
  AlgorithmsAreRight
PROPERTY
  PrunedIsClean
  EverybodyEnds

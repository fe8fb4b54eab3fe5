# A TLA+ model of pnpm

This directory holds TLA+ specifications of the parts of pnpm whose correctness
depends on the order of events: promises that many calls share, workers and
processes that share one store directory, the graph algorithm that decides what
runs before what, and the builds that run in that order. TLC checks every specification on small instances;
TLAPS proves the main invariants for every value of the constants. Paths below
are relative to the repository's root, which is `src/` in `PROJECT.json`.

| module | what it is |
|---|---|
| `PackageRequester` | `requestPackage` and `fetchPackageToStore`: the locker of fetches, the queue, the promise reactions |
| `PackageStore` | what the content-addressable store promises (abstract) |
| `CafsStore` | how workers of several processes write, verify and repair the store; implements `PackageStore` |
| `SideEffects` | the index file of a package, uploads of side effects, imports with and without them |
| `GitHosted` | packages from git: two indexes, preparation, ignored builds |
| `Fetching` | a download: attempts, redirects, the authorization header, integrity |
| `MetaCache` | `pickPackage`: metadata in memory, its mirror, the limiter of a file |
| `Importer` | a package directory is staged and renamed into node_modules |
| `StorePrune` | `pnpm store prune` beside installs and other prunes |
| `StoreServer`, `StoreRequests` | the life of `server.json`; packages requested through the server |
| `GraphSequencer` | the topological sort behind builds, recursive scripts and workspace installs |
| `BuildModules` | the build of dependencies: the walk of the graph, its sorting (an instance of `GraphSequencer`), the builds |
| `Rebuild` | `pnpm rebuild` and `approve-builds`: what is pending, ignored, built and forgotten |
| `RecursiveRun` | `pnpm -r run`: chunks of scripts, bail, the summary and the exit code |
| `ResolveTree`, `ResolvePeers` | the resolution of the dependency tree and of peer dependencies |
| `Install` | whole installs, one after the other: what is written in which order, and what is left when one breaks off |
| `WorkspaceInstall` | `install`, `add` and `update` in a workspace, for all or some of its projects: lockfiles, links, the state of the workspace, and what the next command makes of them |
| `DirPatcher` | the copies of an injected package follow its directory |
| `DlxCache` | the cache of `pnpm dlx` and its cleaning |
| `PickVersion`, `ProjectFilter`, `LockfileGraph`, `LockfileMerge`, `DepPaths`, `LockfileFile`, `Hoist`, `LinkBins`, `ImporterSnapshot`, `ListTree` | pure algorithms and what they should compute |
| `MC*` | the instances TLC checks, with the `.cfg` of each run |
| `*Proofs` | the theorems and their proofs |

To repeat the checks: `tlc -config X.cfg MCModule.tla` for a run, `tlapm
ModuleProofs.tla` for the proofs.

## 1. Inventory

pnpm is a TypeScript monorepo. One command runs in one Node.js process: a
single event loop, with a pool of worker threads for hashing, unpacking and
linking. Different commands on one machine share the store directory and
nothing else; there is no lock on the store.

How the parts meet in an install:

    installation commands -> core (mutateModules) or headless install
      -> resolve-dependencies -> store controller
           -> package requester -> resolvers (metadata cache) -> network
                                -> fetchers -> network
                                            -> workers -> store (cafs)
      -> lockfile, hoist, link-bins, modules-cleaner
      -> indexed package importer (workers)
      -> build modules -> graph sequencer, lifecycle hooks, side-effects cache

### Components, their state, what is hard, what makes them correct

**Package requester** (`pkg-manager/package-requester`). State:
`fetchingLocker`, a map from package id to the promise of its fetch and whether
the manifest was asked for; `requestsQueue`, a p-queue with priorities; the
integrity files of local tarballs. Operations: `requestPackage` (resolve, decide
whether to fetch), `fetchPackageToStore` (join or start a fetch, wrap a manifest
reader over it), `doFetchToStore` (look into the store, or queue a download).
Called by core, headless and the store server, thousands of times at once. Hard:
which promise a call finds, at every stage of the fetch and between its
reactions; errors that must not stay cached; a tarball that changes meanwhile.
Correct when: a package is fetched once, no caller finds a failed promise,
everybody gets what it asked for, every call ends.

**Store: cafs and workers** (`store/cafs`, `store/create-cafs-store`, `worker`).
State: files at their content addresses, temporary files, index files; a locker
per worker of the files it wrote. Operations: verify a package against its
index, add a tarball, add a directory with side effects, import into
node_modules. Hard: processes and threads write the same address; crash between
temporary file, rename and index; edits through hard links; a repair that races
with a write. Correct when: an index is never ahead of its files, a file is
never visible before it is whole, bad files are replaced, good ones are kept.

**Graph sequencer** (`deps/graph-sequencer`). A pure function with an intricate
loop: out-degrees counted down over a reversed graph, breadth-first searches for
cycles that are taken out while the graph is iterated. Correct when: the chunks
partition the nodes, dependencies come first where cycles do not forbid it, the
loop ends, and `safe` says whether there was a cycle.

**Build of dependencies** (`exec/build-modules`). `buildSequence` cuts the graph down to what has to be built and sorts it;
`buildModules` runs the chunks with a concurrency limit, one build per package
in the hoisted layout, and uploads side effects to the store. Hard: the cut
loses edges to nodes already walked; a failed build of an optional package;
waiting for the location that builds first. Correct when: no package is built
before what it needs, and nobody waits for ever.

**Rebuild** (`exec/plugin-commands-rebuild`, `exec/build-commands`). The same
chunks over the lockfile, for everything, what is pending or what is named;
`approve-builds` allows what was ignored and rebuilds it. State: `pendingBuilds`
and `ignoredBuilds` in `.modules.yaml`, written at the end, and the side effects
in the store, which projects share. Hard: failures and kills before the file is
written; optional packages; commands that look at a part. Correct when: what is
not built stays on one of the lists, and a rebuild that ends well has built.

**Script runners** (`exec/plugin-commands-script-runners`, `exec/lifecycle`).
Chunks of projects run one after another with `p-limit`; `bail`, `resume-from`
and a status per project. Hard: a failure while other scripts run; several
scripts of one project share a status entry.

**Resolvers and the metadata cache** (`resolving/*`). State: metadata in memory,
the same on disk, a limiter per file. Hard: a read outside of the limiter, an
offline or failed request that falls back to disk, publishedBy filters. Correct
when: an answer is never older than one already given from a fresh request.

**Fetchers and network** (`fetching/*`, `network/*`). Retries around retries:
the fetcher retries downloads and integrity, `fetch` retries responses. Hard:
which errors are final, what is reported at the end.

**Store controller and prune** (`store/package-store`). Prune removes files with
one link, then indexes; it knows nothing of installs that are running.

**Store server** (`store/server`, `store/plugin-commands-server`,
`store/store-connection-manager`). State: `server.json`, a lock per key, promises
of fetched files. Hard: start, stop and crash around `server.json`; a lock that
calls its function twice.

**Indexed package importer** (`fs/indexed-pkg-importer`, `fs/hard-link-dir`).
A staging directory that is renamed into place; falls back from clone to link to
copy; keeps a nested node_modules. Hard: failures between two of these steps.

**Injected dependencies syncer** (`workspace/injected-deps-syncer`). Applies the
difference of two directories with all additions, removals and changes at once.

**Core install, headless install** (`pkg-manager/core`, `pkg-manager/headless`,
`deps/graph-builder`). The order in which virtual store, lockfiles and
`.modules.yaml` are written; a run that dies must be repaired by the next.

**Installation commands** (`plugin-commands-installation`). `recursive` decides
which projects a command installs, calls `mutateModules` once or once per
project, saves manifests, rebuilds and updates the state of the workspace, which
later commands trust. Hard: a part of the workspace is installed while the
lockfile, the current lockfile and the state speak of all of it; one of several
calls fails or the process dies between these writes. Correct when: an install
of some projects leaves the others usable, and "Already up to date" is true.

**Dependency resolution** (`pkg-manager/resolve-dependencies`). The resolution
of the tree and of peers; recursive, with promises that wait for each other.

**Modules cleaner, hoisting, bins, lockfile, state hashes, workspace** are
algorithms over maps without concurrency, apart from the files they write.

**Config, CLI, reporters, manifests, reviewing, patching, publishing,
environments, hooks, catalogs, the FUSE mounter** parse, print, or drive
external tools, and have no state that outlives a call.

`PROJECT.json` lists all of them with their source files, and under "hazards"
every place where the above goes wrong without a unit test noticing.

## 2. Plan

The order in which the modules were written: first the parts that everything
else calls and whose faults show only under concurrency (`PackageRequester`,
`CafsStore` over `PackageStore`, `GraphSequencer`, `BuildModules`), with their
proofs; then the other users of the store and of the network (`SideEffects`,
`GitHosted`, `Fetching`, `MetaCache`, `Importer`, `StorePrune`, `StoreServer`,
`StoreRequests`, `DlxCache`, `DirPatcher`); then the commands that put them
together (`RecursiveRun`, `Install`, `WorkspaceInstall`, `ResolveTree`, `ResolvePeers`); then pure
algorithms against reference definitions.

Modules that interact are composed: `BuildModules` is built over
`GraphSequencer`, `CafsStore` implements `PackageStore`, `Install` and
`RecursiveRun` take the result of the other parts as outcomes of their steps.
Components that share no state are put together in one model, `Components`,
which is proved about; `MCComponents` checks it, and with it the resolution of
peers and the algorithms, whose RECURSIVE operators TLAPS cannot take.

What is left, in the order of its use:

1. Theorems about the peers of `ResolveTree` (`PeersAreInstalled`) and about
   `ResolvePeers`.
2. The resolution with a lockfile that is there already; `Install` with optional
   dependencies and hoisting; `WorkspaceInstall` with `remove`, ignored projects
   and edits while an install runs.
3. The hoisted layout, whose algorithm is a library; licences, audit and the
   other commands that only read.

## 3. The modules and the code

### PackageRequester

A *call* is one invocation by a client, `phase` is where it is: waiting for the
queue, resolving, or `fetching` once it went through `fetchPackageToStore`, which
returns at once and hands out the promise `ref`. A *fetch* is one
`doFetchToStore`, named after the call that created it. Promises are references
to a fetch or to the manifest reader of a call; `locker` holds one of them per
package, as `fetchingLocker` does.

| action | code (`packageRequester.ts`) |
|---|---|
| `Request` | the synchronous part of `resolveAndFetch`, or a direct call of `fetchToStore` |
| `StartResolve`, `Resolved`, `ResolveFailed` | `requestsQueue.add(() => ctx.resolve(...))` and what follows: return, throw, or fetch |
| `FetchToStore` | 325-440: entry found or created, manifest reader wrapped |
| `CheckTarball`, `ReadStore`, `StartFetch`, `FetchOk`, `RecordIntegrity`, `IntegrityMismatch`, `FetchFailed` | `doFetchToStore` and `tarballIsUpToDate` |
| `ReactR1`, `ReactS`, `ReactC`, `ReactWrap`, `ReactR2`, `ReadManifest` | `removeKeyOnFail`, the `then` and `catch` of 375-408, the wrapper of 414-432 |
| `TarballEdited`, `StoreModified` | the environment: a repacked tarball, an edited store |

Reactions are actions of their own, taken one at a time in the order in which
the code registers them; no I/O completes while one is waiting (`Drained`), but
new calls arrive in between, since they are made by other reactions. The keys
are deleted by package id as in the code, so a late deletion hits whatever entry
is there.

Abstracted: the content of manifests, progress logging, queue priorities, and
the fetchers and the store themselves, which are reduced to their outcomes
(`stored` says whether the index in the store verifies). A package's integrity
is a version number; only local tarballs have more than one.

### CafsStore and PackageStore

A *job* installs one package: a worker reads and verifies its index, if that
fails a worker adds the tarball, then the files are linked. Workers belong to
processes; a job takes any free worker of its process for each of its messages
and gives it back, so verification and writing may happen on different threads.

| action | code |
|---|---|
| `StartRead`, `LoadIndex`, `VerifyFile`, `Drop`, `EndVerify` | `readPkgFromCafs` in `worker/src/worker.ts`; `store/cafs/src/checkPkgFilesIntegrity.ts` |
| `StartAdd`, `AddFile`, `Replace`, `OpenTemp`, `FillTemp`, `Rename`, `IgnoreLostTemp`, `RenameFails` | `addTarballToStore`; `writeBufferToCafs.ts`, `writeFile.ts` |
| `WriteIndex` | `writeFilesIndexFile` |
| `Import` | the importer's use of the files |
| `Crash`, `Edit` | a process dies, a file is edited through a hard link |

Each file system call is a step. An open descriptor follows its inode (`fd`), so
a file somebody renames while another process writes to it is visible half
written. `verifyFileIntegrity` reads in one step and unlinks in the next, by
path. The locker of a worker is only added to, and is lost with the process.

Abstracted: content is good, partial, edited or absent; a bad file is always
noticed when it is verified (the code skips files whose time did not change).
A verified file is read in one step. The index is written in one step and
without content: `SideEffectsIndex` of the plan refines it. One job that needs a
worker takes any free one; the order of the queue is not modelled. A descriptor
of the dead process is closed; what it wrote stays.

`PackageStore` is the promise of the whole: a package becomes available at once
(`Publish`) and for good, and a job uses it only then (`Serve`). `CafsStore`
implements it with `available` the indexed packages with all files good and
`served` the jobs that linked their files.

### GraphSequencer

The variables are those of the function: the remaining `nodes`, `outDegree`,
`chunks`, `cycles`, `safe`, and the position of the scan for cycles.
`ReleaseFree` is lines 50-62, `StartScan`, `TakeCycle`, `SkipNode` and `EndScan`
are the scan of 63-78, `Remove` is `removeNode`, and `FoundCycles` is `findCycle`
by its result: among the cycles a breadth-first search from a node closes, it
keeps the last longest one. Which of several equally long ones that is depends
on the order of edges, which is abstracted, so the model takes any of them (a
dependency listed twice is counted twice and released twice; edges are a set); a
property that holds for any holds for the one the code takes.

### BuildModules

| action | code (`exec/build-modules/src`) |
|---|---|
| `Visit`, `Leave` | `getSubgraphToBuild`: `stack` holds its calls with the entry nodes each has left (`left`) and `currentShouldBeBuilt` (`build`); `order` is `nodesToBuild` |
| `StartSort`, `Sort` | `buildSequence`: the graph of the kept packages, and the actions of `GraphSequencer`, of which the module is an instance over the same variables |
| `StartGroups`, `NextGroup`, `Reject` | `index.ts` 61-90: the chunks are filtered (`Group`) and handed to run-groups |
| `StartBuild` | 129-136, up to the first `await` |
| `ScriptsOk`, `ScriptsFail` | the `try` and `catch` of 138-205 |
| `EndBuild`, `CopyFails` | the `finally` of 206-218 |
| `EndWait` | 133: another location was built |

A *plan* is what an install hands to `buildModules`. run-groups is a library,
modelled as it is used: one group after another, each through a p-limit of
`childConcurrency`; a failure rejects the call and leaves the queued builds of
the group to run. A build is reduced to its outcomes; a failed upload of side
effects is a warning and changes nothing here. Linking of bins, ignored builds
and the report of them are left out. The order of children and the order within
a group are abstracted, so the model takes any. In the hoisted layout the nodes
are locations and a package is optional at all of its locations or at none (the
flag comes from the lockfile's entry of the package), an assumption of the
module. `files` says whether the content of a location is built.

### SideEffects and GitHosted

Both refine what `CafsStore` abstracts, the index file. In `SideEffects` it is
an inode with a content: `addFilesFromDir` of the worker reads it
(`ReadForUpload`), opens a temporary file that is named by the process id alone
(`OpenTemp`), writes (`WriteTemp`) and renames (`Rename`); two workers of one
process may write the same temporary file, and what they write may be torn.
`Diff` and `Apply` are `calculateDiff` and `applySideEffectsDiff`; `Import`,
`ImportWithoutEffects` and `Refetch` are what an install makes of the index.
In `GitHosted` an install fetches the tarball or clones, prepares the package
(its scripts run on the fetched files) and stores it under `integrity.json` or
`integrity-not-built.json`; scripts may be ignored, fail, or be cut off.

### Fetching

`AttemptFails`, `Redirected`, and the actions for answers are the callback of
`remoteTarballFetcher.ts`, `fetchFromRegistry.ts` and `fetch.ts`, one inside the
other. Kept: which errors are final, when the authorization header is dropped,
what is counted, when the integrity is compared. A body is whole, cut or other.

### MetaCache

A request goes through the stages of `pickPackage` (`offline`, `version`,
`time`, `fetch`); its operations on the mirror go through the p-limit of the
file (`limiter`, with its reference count), but for the read of `FallBack`,
which does not. The registry publishes meanwhile (`Publish`), version *n* at
time *n*; metadata is what it knew at a time.

### Importer, DirPatcher, StorePrune, DlxCache

`Importer` has the steps of `importIndexedDir`: the staging directory is filled
file by file by the chosen method, gets the nested node_modules, and is renamed;
`OperationFails` and `Crash` may strike at each. `DirPatcher` applies `Added`, `Removed`
and `Modified` of a difference in any order, each as the system calls of the
code; the tree of paths is given by the `Ancestors` of each. `StorePrune` has prunes (`prune.ts`, one file or index a step, in two
phases) and installs reduced to what they do to the store: temporary file,
rename, link, index. `DlxCache` has runs (`dlx.ts`: look at the link, prepare,
install, replace the link) and cleans (`cleanExpiredDlxCache.ts`), with a clock.

### StoreServer and StoreRequests

`StoreServer` has servers (`OpenJson`, `Listen`, `Publish`, `ExitServer`,
`CrashServer`) and clients, which either want to use a server or to stop it, by
the branches of `tryLoadServerJson` and its callers. The file is an inode at a
path: a server writes to the file it created, its exit handler removes whatever
is at the path. `StoreRequests` has the calls of one client with the two
requests of each, over a connection that may break after the server got the
request; the client sends it again.

### Rebuild

`cmd` is the command, `rb` what it does in each project: the targets, the groups
of the sequencer cut to them, what runs and has ended, and what goes into the
state file at the end (`WriteState`). `built` is the truth about node_modules,
`effects` what the store has. `forgotten` is history: what a write dropped from
both lists although it was not built, in the three ways listed under the limits
below.

`getSubgraphToBuild` is a recursive function of one argument, which holds what
the call gets and what the closure has collected (`Walks`): `Into` is the call for
the dependencies of the first package of the list, `Past` what the loop goes on
with when that call has returned. The chunks of the sequencer are those of an
acyclic graph (`ChunksOf`); that cycles are left out here is an assumption
(`RebuildAssumption`), what it does to cycles is in `GraphSequencer`.

### RecursiveRun

A task is a project and one of its scripts; the chunks come from the sequencer
and are reversed or cut as the flags say; the scripts of a chunk run under
p-limit. `result` is the entry of a project, which several scripts share,
`snapshot` what the summary file got, `outcome` the verdict of the command.

### ResolveTree and ResolvePeers

`ResolveTree` is `resolveDependencies` without a lockfile. A *call* resolves the
dependencies of one package; its requests are answered in any order and may be
refused. A package is resolved where it was found first; where it is found again
the call waits for what the first one misses, unless it lies deeper. Then the
missing peers are installed at the root and the rest is resolved again.
`ResolvePeers` is the walk of `resolvePeers.ts` over such a tree: one step is
one turn of the walk, of a path that gets known, or of the merge of compatible
copies. `stack` holds the calls of `resolvePeersOfNode`, `peersCache` and
`purePkgs` what they reuse, `calcs` the paths that wait for others.

### Install

One project and two lockfiles. `Begin` reads the context; `Skip` is the check
of `checkDepsStatus`; `PruneAndPlan`, `LinkModules`, `ImportPackage`,
`LinkDirect`, `Build` and `WriteLockfile`, `RunHooks`, `UpdateState` are the
install in the order of `link.ts` and `headless/src/index.ts`. `Break` ends it
anywhere, `ResolveAgain` is the fallback to a resolution. The rest is what
people do between installs: edit, check out, remove node_modules, build a
package in another project. Of the times of files only their order matters:
`touched` has, for each file, those that were modified before it.

### WorkspaceInstall

Several projects, each with one dependency at most, in a workspace with one
lockfile or with one per project; a package is a version here, absent from the
virtual store, there, or built. `ws` has the projects, their manifests and the
lockfiles, `mods` the current lockfiles (their importers and packages), the
virtual stores and the direct links, `state` is `.pnpm-workspace-state.json` with
the files that are newer than it, `command` and `calls` the command and its calls
of `mutateModules`, one per lockfile.

| actions | code |
|---|---|
| `Skip`, `Verify` | `checkDepsStatus` for `pnpm install` (a state of a filtered install does not count) and for `pnpm run` with `verifyDepsBeforeRun` (it does) |
| `Begin` | `recursive`: what is selected (`Selections`), which projects of it are touched (`Hit`), whether importers are dropped (`PruneLockfileImporters`) |
| `Start` | `tryFrozenInstall` and `installInContext`: a frozen install, one of all projects, or one of some, which resolves everything, writes the lockfile and installs from it headlessly |
| `WriteLockfileFirst`, `PruneModules`, `Import`, `LinkDirect`, `Build`, `WriteLockfile` | the steps of `link.ts` and of the headless install; the wanted and the current lockfile are written in any order |
| `SaveManifest` | `recursive.ts` 276-283: manifests come last |
| `StartRebuild`, `RebuildProject`, `Conclude` | with lockfiles per project scripts are left to one rebuild at the end; then failures are reported, or the state is written |
| `Fail`, `Exit`, `Kill` | a call fails, with and without bail; the process ends while other calls run |
| `EditManifest`, `RemoveProject` | the user between two commands |

`past` is history for the properties: which projects are installed and have not
been touched since (`settled`), what broke off with which lockfile (`broke`,
`harmed`), and what section 6 names (`missed`, `strays`, `torn`).

### The algorithms

Each module defines the code's algorithm as functions of the input and states
what the result should be, independently of how the code gets there:

| module | code | what should be |
|---|---|---|
| `PickVersion` | `pickPackageFromMeta.ts`, `resolveNpm`, the workspace package of a spec, the edges of `pkgs-graph`, `linkedPackagesAreUpToDate` | the version is the best of those that satisfy the spec (`PickedIsBest`, `ResolvedIsWanted`), what is linked is an edge of the graph (`LinkedIsAnEdge`) and found up to date (`FreshLinksAreUpToDate`) |
| `ProjectFilter` | `filter-workspace-packages` | the union and the exclusions that the selectors mean (`SelectionIsMeant`, `SelectionIsClosed`) |
| `LockfileGraph` | pruning, types of dependencies, filtering by engine | reachable packages and nothing else (`PrunedIsReachable`, `DepTypesAreExact`, `FilteredIsNeeded`) |
| `LockfileMerge` | `lockfile/merger` | everything of both sides is there, and what they agree on is kept (`MergeIsWhole`) |
| `DepPaths` | `dependency-path`, `depPathToRef` | what is put together is taken apart again (`PathsAreRead`), two packages never share a directory (`DirectoriesDiffer`) |
| `LockfileFile` | `lockfile/fs`, `readLockfiles` | a file holds its lockfile, whatever the format of its importers (`FileKeepsTheLockfile`), both sides of a conflict are read (`BothSidesAreRead`), lockfiles survive a row of installs on branches (`LockfilesAreKept`) |
| `Hoist` | `pkg-manager/hoist` | one package per alias, the nearest one (`HoistedOnce`, `HoistedIsNearest`) |
| `LinkBins` | the choice of `link-bins` | the command does not depend on the order of the packages (`BinsAreStable`) |
| `ImporterSnapshot` | what is written of a project and whether it still fits | a fresh lockfile satisfies, an edit is noticed (`WrittenSatisfies`, `EditsAreNoticed`) |
| `ListTree` | the trees of `pnpm list` and `pnpm why` with their cache | the tree is that of an uncached walk (`TreeIsExact`, `SearchedIsThere`) |

Their properties have preconditions where the code is known to differ; each is
named in the comment of the property and in section 6.

### Components and MCComponents

A behaviour of `Components` is a behaviour of one component, the one that
`subject` names; the variables of the others are parked. Its properties are
grouped so that each asks one question: `ServerIsSound` is the conjunction of the
invariants of `StoreServer` and `StoreRequests`, and so on. `MCComponents` gives
the values for TLC and adds two subjects that no theorem is about: the
resolution of peers, and the algorithms. An algorithm is a subject
since the initial state chooses a problem of `MCAlgorithms`, one step answers it,
and the property looks at the answer.

## 4. What is checked

| run | question | result |
|---|---|---|
| `RequesterRegistry` | four concurrent calls for one package, some forced, with two failures | errors are not cached (`NoDoomedEntry`), one fetch (`FetchedOnce`), late callers see "store" (`LateJoinersReuse`) |
| `RequesterPaths` | two calls over every kind of package and request, a single slot, a repacked tarball, an edited store, a failure | manifests arrive (`RawCallsGetManifest`), no fetch serves a tarball replaced before it began (`FetchReadsTheTarball`), every call ends (`CallsSettle`) |
| `RequesterForced` | does a forced call get its tarball? | violated, see findings |
| `CafsClean` | three jobs, three workers, two processes, a crash, nobody edits | index after files, no partial file, imports never miss, implements `PackageStore` |
| `CafsHeals` | any initial store with edited and missing files, one more edit, a crash | every job ends imported unless a file was edited meanwhile (`StoreHeals`), and no good file is removed by the single worker |
| `CafsContainers` | two containers whose processes have equal ids | where the temporary file is gone, the target is right (`AssumedTargetIsCorrect`) |
| `CafsRemoves` | two workers and an edited file: is only broken data removed? | violated, see findings |
| `SequencerAll` | all graphs of four nodes, all or three included | degrees, order, partition, verdict, progress |
| `SequencerTopological` | two cycles and a fifth package | a dependency after its dependent, see findings |
| `Build` | every graph of four packages, eight kinds of installs, a failure | no build is forgotten (`EveryBuildIsScheduled`), dependencies are built first at every location (`DependenciesAreBuilt`), success means all is built (`ResolvedMeansBuilt`), the call ends (`BuildEnds`) |
| `BuildOrder` | are scripts run after those of all dependencies, direct or not? | violated, see findings |
| `Components` | one component after the other, see below | all hold |

The properties of `Components` have the conjuncts of the components as their
parts:

| property | parts |
|---|---|
| `RunIsSound` | no script starts before those of dependencies have ended (`DependenciesFirst`), success is true (`SuccessMeansAllPassed`), a failure is in the summary (`FailureIsInTheSummary`) |
| `RebuildIsSound` | a rebuild builds dependencies first (`DependenciesRebuiltFirst`), what it should when it ends well (`RebuiltIsBuilt`), and what is not built stays on a list (`NothingIsForgotten`, `ProjectIsPending`) |
| `ServerIsSound` | one server (`OneServer`), nobody is sent to one that does not listen (`ConnectedAfterListening`), a stopped one is gone (`StoppedForGood`); files are answered for when they are there, promises that were delivered are dropped |
| `FetchedIsSound` | credentials stay at the registry (`AuthStaysAtTheRegistry`), requests are bounded, passing errors are survived, what is stored was verified; indexes of git-hosted packages are true and an install gets the kind it asked for; what was published is found (`PublishedIsFound`), the mirror follows the memory, a limiter outlives its queue |
| `ImportedIsSound` | a package directory is whole or as before (`PlaceIsWhole`), the wanted one, and keeps its node_modules; entries of side effects are true, imports are no mixture, an entry is lost only to an overlapping upload; a patch that ends well makes the copy what the package is (`SyncedIsSource`), it ends well where no file becomes a directory or the other way round (`SameKindsSucceed`), and the next one does in any case (`NextOneSucceeds`) |
| `InstallIsSound` | an install that ends well leaves what its lockfile says (`InstalledIsWanted`), "Already up to date" is true (`UpToDateIsTrue`); the tree of a resolution that ends well is whole (`TreeIsWhole`) |
| `WorkspaceIsSound` | a command in a workspace that ends well has installed what it was asked for (`WorkspaceIsInstalled`), with `--no-bail` beside projects that fail (`OthersAreInstalled`), and leaves other projects whole at every moment (`SettledStay`); what was resolved is not taken for installed: the checks before the next command and before scripts are true (`WorkspaceIsUpToDate`, `VerifiedIsUsable`) |
| `ResolutionIsSound` | peers are installed (`PeersAreInstalled`); the graph of copies is whole (`GraphIsWhole`), peers are those of the nearest provider (`PeersAreNearest`), equal surroundings share a copy (`PeersAreShared`), and the paths of `test/resolvePeers.ts:115-122` come out |
| `PruneIsSound` | linked files are kept, no index is left without its package.json, an install beside which no prune runs ends well whatever earlier prunes left, and so does a prune beside which no install runs; `dlx` runs whole installations (`RunsAreWhole`) and cleaning is exact (`CleanedIsExact`) |
| `AlgorithmsAreRight` | the best version is picked, at the registry or in the workspace; the projects that filters select are those they mean; lockfiles are pruned, filtered, merged and written as they should be; what is hoisted, linked and listed is what is there |
| `PrunedIsClean` | an action property: after an install that prunes, nothing is in the virtual store that its lockfile does not have |
| `EverybodyEnds` | liveness: recursive runs, clients of the server, calls through it, the resolution of the tree and that of peers come to an end, whatever fails (for peers: where no alias is involved) |

With equal process ids and thread ids `NoBrokenFileAdded` does not hold: one
process renames the file the other one is writing. The comment in
`writeBufferToCafs.ts` speaks of crashes only, so this is a limit of the theorem
(its assumption `UniqueTemps`) and not listed as a finding; in `CafsContainers`
the reader who reaches the lost-name path always finds a complete target. That
is proved for one such pair of workers (`AssumedTargets`). With two pairs TLC
finds a behaviour of 26 steps where it fails: a worker of the second pair renames
a file that its namesake has just truncated, and the target that a worker of the
first pair then relies on (`writeBufferToCafs.ts:73-74`) is not whole.

Every property of a passing run has a mutant: a plausible bug in a mapped
definition (a dropped guard, a missing reset, a thread id left out) under which
the same run reports the property violated. Mutants stand before the definition
they replace.

### Bounds

* `RequesterRegistry`: four calls are enough for one to create an entry, one to
  wrap a reader over it, one to create the next entry after a failure and one to
  arrive between two reactions of the first; two failures let a fetch and a
  reader fail, or two fetches one after another. Two slots.
* `RequesterPaths`: two calls, one slot (so that a slot that leaks stops the
  other call), two integrities, one failure; the menu contains a request for
  each branch of `resolveAndFetch` and of `doFetchToStore`.
* `Cafs*`: two packages that share a file: the shared file is what jobs race
  for, the others make a package incomplete. Three workers in two processes give
  both a pair of threads of one process and a pair of processes. One crash at
  any step; the store may start in any state an earlier run can leave.
* `SequencerAll`: four nodes hold two disjoint cycles, a cycle with a tail in
  either direction and nested cycles; leaving one node out exercises the filter.
  `SequencerTopological`: the smallest case needs five nodes, so it fixes the
  two pairs and varies the edges around the fifth.
* `Build`: two direct dependencies and two packages below them, which in the
  hoisted plans are two locations of one package; all graphs among them but for
  self-edges, edges from the second location to the direct dependencies and one
  from the first, so cycles, diamonds and shared children occur, and the walk
  meets a package by several ways in any order. Two builds at a time, so that
  one location waits while the other is built; one failure of scripts or of the
  copy. The plans: as given; with an optional package; with packages built
  before; without an index; hoisted with scripts at both locations (optional or
  not), or with one location that was there before; nothing to build.
* `Components`: every component has the smallest instance in which its hazards
  occur.
  `RecursiveRun`: a chain of three projects and one beside it, which has two
  scripts; two scripts at a time; all flags. `StoreServer`: two servers and two
  clients, one that uses and one that stops, one SIGKILL. `StoreRequests`: two
  calls, one with `skipFetch`, one broken connection. `Fetching`: two retries,
  two redirects, one other host. `Importer`: two files, an older package with
  another one, two faults, so that one strikes the fallback of the other.
  `SideEffects`: two uploads of one process and an install of another one.
  `GitHosted`: two installs, all packages, one fault. `MetaCache`: two requests,
  three versions, one failure. `Install`: two lockfiles that differ in a direct
  dependency and below a package both have, one edit, one break; it starts in a
  checkout whose manifest and lockfile agree, since the other starts are reached
  by the edits. `WorkspaceInstall`: a workspace of three projects with one lockfile
  and one of two projects with two, new or installed; two versions, one of which
  has scripts; two commands, one edit, one failure or kill; a filter of one
  project. (Three commands hold as well, in 1.35 million states, and so do four
  with two breaks, in seven million. `WorkspaceIsUpToDate` and `VerifiedIsUsable` were
  checked apart with every edit: two projects with one lockfile, two edits, two
  commands and two breaks, 3.3 million states; two projects with a lockfile each,
  636,000 states; simulations of three projects, four edits, four commands and
  three breaks, 30 million states.)
  `ResolveTree`: seven trees and one refusal; `ResolvePeers`: seven trees, the
  first that of the test. `DirPatcher`: every pair of directories over
  four paths, one inside the other, two contents, two patches. `StorePrune`: two
  prunes and three installs, of which two run beside each other, one is killed;
  two packages that share a file, one without package.json. `Rebuild`: two
  projects in a row that share an optional package, below a diamond of packages
  without scripts; two commands of any kind, one failure or kill. (Two failures or
  kills hold as well, in 70,000 states more.) `DlxCache`: two runs,
  a clean, a kill, and a clock that reaches the first moment at which a link is
  outdated. (Three runs, or two cleans, hold as well, in half an hour.)
* `MCAlgorithms`: some 48,000 problems. Their comments say which cases the
  inputs contain; among them versions that were not published in order, a
  workspace with a cycle and with an edge for development only, every lockfile of
  three packages over four edges, aliases that differ in case, and dependency
  trees with cycles cut at every depth.
* `MaxVer`, `MaxFaults`, `MaxEdits`, `MaxCrashes`, `MaxBreaks`, `MaxLost`,
  `MaxKills`, `MaxCommands`, `MaxBroken`, `MaxRefusals`, `MaxFailures`, `MaxTries`, `MaxBeside` and
  `MaxBegun` bound the environment, not the
  program. Calls, jobs and workers are sets given by the instance. In
  `RequesterRegistry` and `RequesterForced`, which check invariants only, calls
  are interchangeable and symmetric.

### Fairness

* `PackageRequester!FairSpec`: weak fairness of every reaction, of every
  operation under way and of the start of queued jobs. The event loop runs all
  microtasks and delivers each completed operation, and p-queue starts the next
  job when a slot frees. An operation completes because requests have timeouts.
  Callers do not have to call, and the environment owes nothing.
* `CafsStore!FairSpec`: weak fairness of each job's next step. Workers answer
  every message and the pool hands a free worker to the next in the queue.
  Crashes and edits are not owed.
* `BuildModules!FairSpec`: weak fairness of the walk, of the sort, of the groups
  and of each package's build. Walk and sort are synchronous, p-limit starts the
  next job when a slot frees, and lifecycle scripts are assumed to end.

* `Components`: weak fairness of a step of the component. It is sequential, or
  its steps are those of event loops and timers that do not starve each other:
  scripts end and requests have timeouts, as above. `Rebuild` has no fairness: it
  cannot run for ever, and that it does not get stuck is the absence of deadlocks.
  Faults, kills, edits and the
  arrival of clients are not part of the fair steps.

## 5. What is proved

Eight modules hold proofs. The theorems are about the modules TLC checks, for
every value of their constants that the named assumption of the module allows
(`TLC` evaluates each assumption on the instances); nothing is assumed that is
not such an assumption or named below. Every proof has the same plan: an
inductive invariant, a conjunction of named parts which TLC was asked about
before; one lemma per action, with one step per part that the action can
disturb; and theorems that read their property off the invariant.

`PackageRequesterProofs`: for any calls, packages, kinds, menus of requests,
slots and faults. `TypeCorrect`; `ErrorsAreNotCached` (`NoDoomedEntry`);
`PackagesAreFetchedOnce` (`FetchedOnce`). None of them is inductive: whether an
entry is doomed depends on the promise a reader was wrapped over, and whether a
second fetch can start on why an entry disappeared. `LockerSafe` adds that calls
go through their stages in order, that wrapped promises and entries are over
fetches of the same package, a wrapped one only for a raw entry, and that without
a failure the entry of a fetched package stays (`EntryStays`). Steps outside
`FetchToStore` are treated together: they satisfy `GoesOn`, `LockerGoesOn` and
`DropsOnRejection`, and three lemmas show that this is enough; creating an entry
and joining one have lemmas of their own.

A second invariant, `ResultInv`, is about what callers get: what a call holds was
made for its package (`CallsHold`) and what the locker holds is as complete as its
flag says (`LockerHolds`); who reads a manifest reads it over a fetch that yields
one (`ReadersRead`, `ManifestsRead`); and a fetch has seen the tarball that was
there when it began (`TarballsSeen`). From it: `ManifestsArrive`
(`RawCallsGetManifest`), `LateOnesReuse` (`LateJoinersReuse`) and
`TarballsAreRead` (`FetchReadsTheTarball`).

`CafsStoreProofs`: `StoreTypeCorrect` holds in every store. Most others assume a
store nobody edits (`~DirtyStore`, `MaxEdits = 0`) and temporary names that are
unique among live workers (`UniqueTemps`), and allow any number of processes,
workers, jobs, packages and crashes. The inductive invariant is `SoundStore`:
files are good or absent, what a worker remembers is true, each stage of a job
has established what it needs (`StageOf`), and an index is complete; with
`Placed` and `OneJobPerWorker`, since the invariant of a write needs that the
temporary name belongs to one job. From it: `IndexedPackagesComplete`,
`ImportsNeverMiss`, `WritesAreAtomic`, and `StoreIsAtomic`: the step of every
action maps to a step of `PackageStore` or to a stutter.

Two theorems are about stores outside of these assumptions.
`OneWorkerRemovesBroken` (`OnlyBrokenFilesAreRemoved`): in a store with a single
worker, edited or not, a file that was read as bad is still bad when it is removed
(`BadOnesGo`; `CafsRemoves` shows that two workers are enough to break it).
`AssumedTargets` (`AssumedTargetIsCorrect`): with one pair of workers that share
their temporary names (`OnePair`). Here a file may be partial, so `PairInv` says
who is responsible for it: who writes alone writes the file that is at the name
(`AloneWrites`), a partial file has its writer (`PartialHasWriter`), and a name
that is lost was renamed to the target by the other one (`LostIsReplaced`).

`GraphSequencerProofs`: for every finite graph, order and inclusion.
`SequencerTypeCorrect`, `DegreesAreRight`, `DependenciesComeFirst`
(`NodesOffCyclesWait`) and `ChunksArePartition`. The invariant `IInv` counts the
degrees of removed nodes as well, places every node in exactly one of the
remaining nodes, the current group and the chunks, and says that the group of a
scan consists of nodes on cycles; the lemma about a closed walk turns what the
search found into a cycle through each of its nodes. That a released node has no
dependency left follows from the degree being a cardinality.

`SafeMeansAcyclic` (`SafeIsAcyclic`) and `ScansFindCycles`
(`EveryScanFindsACycle`) need graph theory, which is proved first: where every
node of a finite set has a successor in it, there is a cycle, since a walk repeats
a node (a pigeonhole on cardinalities); a shortest path repeats none, so what
the breadth-first search may return is not empty when there is a cycle
(existence by well-founded induction on lengths, in the form of least numbers,
which the provers can use). `CycleInv` then says that the nodes of cycles wait
until a scan (`CyclesWait`), that the verdict is unsafe only for a cycle
(`UnsafeIsCyclic`), and what a scan has seen so far (`ScanSoFar`).

`BuildModulesProofs`, for every finite graph and every plan. `BuildsAreScheduled`
(`EveryBuildIsScheduled`): the walk passes over packages it has walked and does
not count them, so the argument is that of a depth-first search: in `WalkInv`
every call has walked what it took out of its list (`CallsInOrder`), and a
package that was walked is finished, which means kept if it needs a build and
with all its children walked, unless its call is still on the stack. When the
walk ends the stack is empty, so the walked packages contain the roots and are
closed under children, hence all that can be reached. `BuildTypeCorrect`,
`DependenciesComeBuilt` (`DependenciesAreBuilt`) and `ResolvedIsBuilt`
(`ResolvedMeansBuilt`) join this with `SortInv`, the invariant of the sequencer
used through the instance (its lemmas and theorems are cited, not repeated), and
`RunInv`: chunks that have ended are built, queued builds are of the current
group, and whoever waits for a location waits for one that runs.

`RecursiveRunProofs`: for any projects, scripts, flags, concurrency, and any
chunks that are the order of an acyclic graph: `RunsDependenciesFirst`
(`DependenciesFirst`), `SuccessIsTrue` (`SuccessMeansAllPassed`) and
`FailuresAreReported` (`FailureIsInTheSummary`). The invariant `RunInv` says that
tasks follow the chunks (those of earlier ones have ended, those of later ones have
not begun), that with bail a failure and an outcome come together, that the entry
of a project with a single script follows its task, and what the verdict and the
summary know.

Its second part is about `Rebuild`, for any projects, packages without cycles,
targets and commands. What is rebuilt and in which order is computed by a walk
over the lockfile and by the sequencer; that the result is right for every graph
is `RebuildsComeInOrder` (`GroupsAreRight`): the groups hold exactly the packages
that were asked for, a dependency before its dependent if it is direct or if no
other way leads to it. Its steps: the recursive walk is defined, since every
call has fewer packages left to walk, or as many and a shorter list
(`WalkIsDefined`; the induction is done by hand, with a call nearest to the end
at which it would fail, as the library's induction theorems cannot be used); it
walks what can be reached, keeps the targets among it, and whatever else it
keeps is a direct dependency or below a package it keeps (`WalkIsRight`); and the
chunks of an acyclic graph hold each package once, after its dependencies
(`ChunksAreRight`, again with a least number). Over that, `RebuildInv` follows the groups of a project and the
scripts that run: `RebuildTypeCorrect`, `RebuildsDependenciesFirst`
(`DependenciesRebuiltFirst`), `RebuiltOnesAreBuilt` (`RebuiltIsBuilt`),
`NothingGetsForgotten` (`NothingIsForgotten`) and `ProjectsStayPending`
(`ProjectIsPending`).

`InstallProofs` is about what a single install does: how files get there, and the
way from manifests to node_modules.

* `Fetching`, for any number of retries, redirects and hosts: `FetchingTypeCorrect`,
  `AuthStays`, `RequestsBounded`, `TransientErrorsSurvived`, `StoredVerified`; the
  invariant counts requests by attempts and redirects, and errors by attempts.
* `Importer`, for any files and any number of faults: `PlacesAreWhole`,
  `ImportsAreWanted`, `ModulesSurvive`; the invariant ties the staging directory and
  the place of the nested modules to the step.
* `DirPatcher`, for any tree of paths: `PatchTypeCorrect`, `SyncsToSource`
  (`SyncedIsSource`), `SameKindsPatch` (`SameKindsSucceed`), `NextOnesPatch`
  (`NextOneSucceeds`). The invariant `PatchInv` says that what is not yet patched is
  as the source but for the operations that are left (`OpsAreNeeded`,
  `RestIsSynced`), that the first patch is about to replace every path whose kind
  differs (`FirstReplaces`), and that for the next one nothing stands in the way
  (`NothingInTheWay`).
* `GitHosted`: `IndexesStayTrue`, `InstallsGetWhatTheyAsk`. An index is as true
  as the tree it was made of.
* `MetaCache`: `PublishedVersionsAreFound`, `MirrorIsMemory`, `LimiterOutlives`.
  Users of a limiter are counted; saves go to the mirror in the order of its
  queue, so that the last save decides; memory and queue do not get older.
* `SideEffects`: `EntriesStayTrue`, `ImportsAreWhole`, `OverlapsAloneLose`.
  There are as many inodes as open files may need (a pigeonhole), without overlap
  one upload writes at a time, and what it read is still the index when it renames.
* `ResolveTree`, for any packages and versions, any order of answers and any
  refusals: `TreeTypeCorrect` and `TreesAreWhole` (`TreeIsWhole`). What makes it
  hard is that a package is resolved by the call that found it first while others
  go on with its id. `TreeInv` says that only one call finds a package new
  (`NewOnce`), that the call for its children is there when its parent has them
  (`NewOnesAreThere`), that whoever is not resolved yet is awaited by a call that
  is not done either (`OpenOnesAreAwaited`), and that each dependency of a package
  is among what was found or is still asked for (`Complete`). When the projects are
  done nothing is open any more, so everything that was found has its children.
* `Install`, for any lockfiles and manifests, any number of edits, failures and
  crashes: `InstallTypeCorrect`, `InstallsAsWanted` (`InstalledIsWanted`),
  `UpToDateIsRight` (`UpToDateIsTrue`) and the action property
  `PrunedIsCleanHolds` (`PrunedIsClean`). The invariant has two halves. One is about
  node_modules: it is what the *current* lockfile says but for what the install that
  is at it, or one that broke off, has changed (`CurrentIsThere`, with `Half` the
  lockfile of that install), and what the running install has not done yet is on
  its lists (`RestIsPlanned`). The other is about files and their times:
  `FilesFollow`, and `TimesTell`, what the check may conclude from the order in
  which manifest, lockfiles and state were modified. "Up to date" joins them: times
  say that the current lockfile is the wanted one, and node_modules is what it says.

`WorkspaceProofs` is about `WorkspaceInstall`, for any workspaces, filters,
commands, edits, failures and kills: `WorkspaceTypeCorrect`,
`WorkspacesAreInstalled` (`WorkspaceIsInstalled`), `SettledOnesStay` (`SettledStay`)
and `OthersGetInstalled` (`OthersAreInstalled`). `WorkspaceInv` says that a call
knows what the manifests will say (`Planned`); what each step has brought about or
is still on the list of its call (`Carried`: packages, links that go, links that
come, what the current lockfile says); that a link is the one of the current
lockfile, of the call under way or of the one that broke off, unless it is a stray
(`LinkFits`); that with one lockfile what the current lockfile has is built
(`StoreFits`), unless harm was done; and that a settled project has its dependency,
no call under way being about it (`Settled`). That a call prunes nothing another
project uses follows from its target having the importers of all projects.

That a check which finds a workspace up to date is right, `WorkspaceIsRightUpToDate`
(`WorkspaceIsUpToDate`) and `VerifiedOnesAreUsable` (`VerifiedIsUsable`), needs a
second invariant, since the check reads neither lockfile nor node_modules of most
projects: it goes by the times of files and by the state that some earlier command
wrote. `UpToDateInv` has a part for each thing that the check concludes from.
`ManifestIsLocked`: a manifest that is older than the state says what the lockfile
does, unless a call has yet to save it. `LockIsInstalled`: a wanted lockfile that is
older than the state is also the current one. `CurrentIsLinked`, `LockIsPackaged`,
`LinkIsStored` and `UnbuiltIsToBuild`: what the current lockfile says is linked, its
packages are there and built or on the list of a call. Each of them names who may
break it: the call under way (`Unsaved`, `Relinks`), a filtered install that left the
project out (`Overlooked`, `Passed`), the project that came back (`Returned`), a
command that ended between the files it writes (`past.torn`). None of this is
inductive without what a call has done so far: the order in which it writes
(`CallWrites`), what it has to build (`CallBuilds`), and that a call that is about to
finish has recorded its lockfile for all projects, those that it does not install
included (`CallRecords`); nor without what the state knows of projects that are gone
(`StateIs`, `RestIsEmpty`). `CheckedIs` then joins the check with the state: there is
no project the state does not know and no manifest newer than it. The steps that are
hard are those that write for others: the current lockfile of a call
(`WriteCurrentUpToDate`) and the end of a command, which makes the state say that all
is installed (`ConcludeUpToDate`, by whether the projects were among those it
installed, `InstalledFits`, or not, `OthersFitOne`, `OthersFitSeparate`).

`ComponentsProofs` has one part for each of four components:

* `StoreServer`: `OneServerAtATime`, `ConnectsAfterListening`, `StopsForGood`.
  Whose file is at the path decides who may start; a file that was displaced
  belongs to a server that ends, and each is displaced once, which is counted.
* `StoreRequests`: `AnswersAreTrue`, `PromisesAreDropped`. Of the two requests of
  a call, however often they are sent, the second is made when the first was
  answered.
* `StorePrune`: `PruneTypeCorrect`, `InstallsSucceed`, `LinkedFilesStay`,
  `ManifestsAreThere`, `PrunesSucceed`. `PruneInv` knows who runs beside whom
  (`WhoIsBeside`), what an install may rely on when no prune is beside it
  (`InstallsGoOn`) and the reverse (`PrunesGoOn`), which links keep a file
  (`LinksStay`), and which indexes have their package.json (`ManifestsStay`).
* `DlxCache`: `DlxTypeCorrect`, `DlxRunsAreWhole`, `DlxCleansExactly`. A clean
  that nobody crossed is alone, so what it read still holds; a linked directory
  is partial only while it is removed or when its link is outdated.

The properties that the run `Components` checks are conjunctions over these parts,
and ten of them are theorems about `Components!Spec` as a whole: `RunsAreSound`
(`RunIsSound`) and `RebuildsAreSound` (`RebuildIsSound`) in `RecursiveRunProofs`;
`InstallsAreSound` (`InstallIsSound`) and `PrunesLeaveNothing` (`PrunedIsClean`)
in `InstallProofs`; `TypesAreRight` (`TypeOK`, all fifteen components),
`WorkspacesAreSound` (`WorkspaceIsSound`), `ServersAreSound`, `FetchesAreSound`,
`ImportsAreSound` and `PrunesAreSound` in `ComponentsProofs`. Each needs one lemma
per component, such as `ServerAlone`: the subject does not change, so a behaviour
of `Components` is one of the component's `SafetySpec` or never about it. The
theorems about the components are stated for that `SafetySpec`, which is their
`Spec` without the fairness. `MCSpec`, which TLC runs, has further subjects; a
behaviour of it about one of the components is one of `Components!Spec` with the
other variables added.

Proofs corrected the models in some places. Assumptions on constants that the
instances satisfied silently are now stated (`ServerAssumption`, `MetaAssumption`,
`SideEffectsAssumption`, `PruneAssumption`, `DlxAssumption`,
`DirPatcherAssumption`, `InstallAssumption`, `GitAssumption`,
`WorkspaceAssumption`, `RebuildAssumption`, and in `TreeAssumption` that of any packages one has the
highest version); the bound of removals in
`StoreServer` is the number of servers; `InstallAloneSucceeds` of `StorePrune` says
more than before; `Install` now has the case described under the limits below,
and remembers that a second resolution runs over a half-changed node_modules
(`inst.again`); and four cases of `WorkspaceInstall` came up, of which the limits tell: the
filtered `--lockfile-only` install and the package that counts as built, a project
that comes back after a filtered install, and an install that dies between its two
lockfiles.

Only model-checked:

* liveness (`CallsSettle`, `StoreHeals`, `BuildEnds`, `EverybodyEnds`) and the
  absence of deadlocks, which are beyond the prover;
* the algorithms: their RECURSIVE operators are beyond the prover, and where a
  recursive function would do, each needs a proof like that of the walk of
  `Rebuild`;
* `ResolvePeers` as a whole, whose operators are recursive, and `PeersAreInstalled`
  of `ResolveTree`, which is not proved yet;
* of the properties of the run `Components` therefore `ResolutionIsSound`,
  `AlgorithmsAreRight` and `EverybodyEnds`. Its `TypeOK` is proved for the fifteen
  components of `Components`.

## 6. Findings

1. `RequesterForced`: the comment at `packageRequester.ts:199` says that a
   changed local tarball should be unpacked again, so its fetch is forced. The
   locker is keyed by the id alone: when another call fetches the older
   integrity of the tarball at that moment, the forced call shares its files.
2. `CafsRemoves`: "Broken files are removed from the store"
   (`checkPkgFilesIntegrity.ts:148`). A worker that read a broken file unlinks
   the path later; if another worker replaced the file in between, the good one
   is removed. The worker that wrote it keeps it in its locker and does not
   write it again, while an index names it. A later install finds it missing and
   fetches the package again.
3. `SequencerTopological`: "Sort packages topologically (dependencies before
   dependents)" (`pnpm/src/cmd/recursive.ts:97`). One scan takes out all cycles
   it finds and puts them in one chunk. If one of them depends on another
   through a node that is on none, that node is released after both, hence after
   its dependent. Nodes on no cycle are always after their dependencies, which
   is proved.
4. `BuildOrder`: "run lifecycle scripts of dependent packages after running
   scripts of their deps" (`pkg-manager/core/test/install/lifecycleScripts.ts:300`).
   `buildSequence` keeps packages without scripts when something below them is
   built, so that the order passes through them; but a child that was walked
   before does not count (`buildSequence.ts:54`). With 2 -> 4 and 1 -> 3 -> 4,
   scripts in 1 and 4, and 2 walked first, 3 is left out, nothing orders 1 and 4
   any more, and they are built in one chunk. Whether it happens depends on the
   order of the direct dependencies. What holds is that every package is built
   after its own direct dependencies (`DependenciesAreBuilt`).

### Limits of the properties

Behaviour of the code that was met while modelling and that the properties name
in their preconditions, or that the models leave out. None of it contradicts a
run; each is where a property would fail if it were stated without its
precondition, or what a reader of the code should know.

Installs (`Install`):

* The current lockfile is not invalidated before node_modules changes. An install
  that breaks off, followed by one of another lockfile, leaves wrong links or
  packages that are not built, and the status check may call that up to date.
* A forced reinstall that is interrupted between import and build leaves packages
  that later installs take for built.
* An absent current lockfile counts as an empty one when node_modules is pruned, so
  stray direct links of an install that broke off stay.
* `importPackage` reports a package of the side-effects cache as built also when
  a clone or copy left the existing directory alone.
* Project scripts that fail after the lockfiles were written are not run again
  when the check says up to date.
* Both lockfiles are written at once (`lockfile/fs/src/write.ts:83-137`). If the
  install dies when the current one is written and the wanted one is not, and the
  manifest is then changed back, the check finds a wanted lockfile that satisfies
  the manifest and is older than the current one, does not compare them, and calls
  the modules of the other manifest up to date (`checkDepsStatus.ts:343-420`). The
  history `stale` says so; the case was met when the theorem was proved.
* In a workspace the check misses lockfiles that changed alone, patches and the
  pnpmfile when no manifest is newer; a manifest edited during an install is
  missed; `updateWorkspaceState` in `checkDepsStatus` drops `configDependencies`.

Installs in a workspace (`WorkspaceInstall`):

* A filtered install resolves for all projects and its headless part writes all
  importers into the current lockfile (`core/src/install/index.ts:1468`,
  `headless/src/index.ts:637`). A project that was edited and not selected keeps its
  old link; if it dropped the dependency, the next install finds nothing to remove
  and the link stays for good (`strays`).
* The same install, when it prunes the virtual store, removes what such a project
  still links to, though orphans are computed so as not to "break the node_modules"
  (`modules-cleaner/src/prune.ts:127-130`): the second pass over the directory
  (`prune.ts:177-190`) keeps what the new lockfile has.
* `verifyDepsBeforeRun` after a filtered install takes projects that were edited or
  never installed for up to date, and those that were removed and came back: whether
  a project has modules is looked at only when the last install was not filtered
  (`checkDepsStatus.ts:188`; `missed`).
* A command that dies after it wrote the lockfiles and before the manifest, the
  rebuild or the state leaves a workspace that the check calls up to date (`torn`:
  `add`, `update` and filtered commands, and installs with a lockfile per project).
  So does any install that dies between the current and the wanted lockfile
  (`lockfile/fs/src/write.ts:83-137`) when the manifest is edited back.
* `update` with a lockfile per project leaves out the projects that do not have the
  dependency, and then marks the whole workspace as installed.
* A filtered `--lockfile-only` install goes on to the headless install
  (`core/src/install/index.ts:1437-1482` does not ask for `lockfileOnly`).
* A package that a filtered install pruned from the virtual store is still in the
  current lockfile. An install that puts it back and breaks off before its scripts
  ran leaves it there, and the next one takes it for built: it is in the current
  lockfile and its directory exists (`headless/src/index.ts:473-474`,
  `lockfileToDepGraph.ts:136-147`, `prune.ts:172-190`; `harmed`).
* After a filtered `--lockfile-only` install, "Already up to date" is also said of
  an edited project whose old link stayed (`missed` and `strays`).
* Left out: `remove`, `ignoredPackages`, `--frozen-lockfile`, edits while an install
  runs, hooks, catalogs, linked projects, `strictDepBuilds`.

Scripts: with `--no-bail` and several matched scripts a later one overwrites the
failure of an earlier one in the summary (`runRecursive.ts:130`, `158`); the
model leaves out that a script does not run itself (`runRecursive.ts:106`).

Store and server:

* A whole `server.json` of a server that was killed by SIGKILL is never removed;
  the removal after the timeout of a client may hit the file of another server;
  `lock.ts` calls its function twice.
* A repeated `/packageFilesResponse` after the promise was deleted is a 503, a
  repeated `/requestPackage` leaves a promise behind.
* Prune: a crash between the removal of a package.json and its index leaves the
  index until an install heals it; a prune beside an install may remove its
  temporary file or fail with ENOENT; two prunes make each other fail; a stored
  package without package.json makes prune throw (`prune.ts:78`) after files were
  removed. (Through a server prune is refused, `createServer.ts:123`.)
* Uploads of side effects to one package that overlap lose entries and may tear
  the index, whose temporary file is named by the process (`worker.ts:353`).
* Ignored builds of git-hosted tarballs never rename the temporary index; the
  directory in which their scripts run may be hard-linked to the store.
* The importer loses a nested node_modules when a fault strikes while it is in
  the staging directory.
* `fetch.ts:58` throws inside an attempt callback. Metadata is dated by the time
  it was received.

Rebuild:

* `ignoredBuilds` is overwritten with what this rebuild ignored: after a rebuild
  of what is pending or named, earlier ignored builds are on no list any more,
  and `approve-builds` does not offer them. Builds of packages without scripts are
  listed, since `allowBuild` is asked first (`index.ts:354`).
* `splice(indexOf(id), 1)` for a project that is not pending removes the last
  pending entry (`index.ts:202`). Packages rebuilt by name stay pending.
* At the end of an install in a workspace without a shared lockfile, a package
  another project has just uploaded is skipped, though this project's copy is
  not built (`index.ts:342`).
* A package without scripts between two others that is reached first by another
  way is left out of the graph, and the two may run in any order
  (`DependenciesRebuiltFirst` excludes it).

Injected packages: where a file becomes a directory the patch always fails
(`mkdir` comes before the removal), the next one succeeds; where a directory
becomes a file it depends on the order.

`pnpm dlx`: cleaning removes the directory a run is preparing (`cleanOrphans`);
an install that goes on after that, or a killed one that crosses a cleaning, can
leave a broken directory linked for the whole maximal age.

Resolution:

* `ResolveTree`: whether a required peer gets installed may depend on the order
  of answers in a workspace of two projects, although "All the missing peers
  should get installed in the root" (`resolveDependencies.ts:328`); the
  precondition `~ignored` of `PeersAreInstalled` excludes it. Calls below the
  root filter the missing peers of a package found again by the aliases of their
  parent only; its children are resolved with the preferred versions of the first
  occurrence; `skipped` is set by the first occurrence and `optional` keeps the
  flag of that time.
* `ResolvePeers`: a cycle of peers under aliases waits for itself; `purePkgs`
  keeps what a cycle cut off; on a cycle of peers two copies may get the same
  path; without auto-install-peers the parents of the first occurrence decide
  which dependencies are left out.

Algorithms:

* Workspace packages: a tag that is linked from the workspace has no edge in the
  graph of projects; of two projects of one name the edge may go to another one
  than the link; a project without a version is 0.0.0 for the resolver only, and
  links by tag are never found up to date (`linkedPackagesAreUpToDate.ts:90`).
  Preferred versions ignore `publishedBy`.
* Filters: `...x...` takes dependencies of the dependents of earlier selectors
  (`index.ts:268`); `--filter-prod=a... --filter=!b` selects everything but b; the
  root is excluded with the flags of production only (`main.ts:203`); a
  selector by diff and name selects projects of any name whose tests changed; on
  a cycle `^` has no effect.
* Filtering a lockfile by engine depends on the order: a package first reached
  below one that cannot be installed stays skipped
  (`filterLockfileByImportersAndEngine.ts:140`). Links of projects other than the
  first are not followed.
* The merger throws for links and aliases, and a merged specifier may not match
  the merged version.
* Lockfile files: `pruneTimeInLockfile` keeps keys that begin with `/`
  (`lockfileFormatConverters.ts:115`) while `time` is keyed by package ids, so the
  times of registry packages are not written; the test of it uses old keys.
  Conflicts are always merged on reading (`read.ts:183`), also by a frozen install,
  which does not notice; markers inside the parent of a conflict are not handled.
  With `mergeGitBranchLockfiles` and no readable main lockfile the lockfiles of
  branches are not merged, yet cleaned afterwards. `writeLockfiles` removes the
  current lockfile when the wanted one is empty (`write.ts:142`).
* Directories: how peers nest does not show in the name: `a@1(b@1)(c@1(d@1))` and
  `a@1(b@1(c@1)(d@1))` share one (`dependency-path/src/index.ts:169`).
* Hoisting takes depth 2 and more for the same; root specifiers are compared with
  their case; a linked dependency takes its alias though nothing is linked.
* Trees: with a search a cycle that does not match is not marked as circular, so
  the cut tree is cached, although "Circular dependencies are not stored in the
  cache" (`DependenciesCache.ts`), and `pnpm why` misses paths.
* With `excludeLinksFromLockfile` the entry of an alias that became a link stays
  and the lockfile never satisfies the manifest.

## 7. Not modelled

Components with status `not_modelled` in `PROJECT.json` carry their reason: they
are in the plan, they are a thin layer over a modelled part, or they have no
state beyond a call. Not planned: version ranges (the semver library), the
command line, printing, the text of files, external programs (git, node-gyp, user
scripts), and the FUSE mounter. Also outside: undocumented behaviour of network
file systems, where a rename need not be atomic.

------------------------------ MODULE Rebuild ------------------------------
\* `pnpm rebuild` and the rebuild that ends an install of a workspace without a
\* shared lockfile (exec/plugin-commands-rebuild/src/{rebuild,recursive}.ts,
\* implementation/index.ts), and `pnpm approve-builds`
\* (exec/build-commands/src/approveBuilds.ts).  Every project has a
\* node_modules of its own, whose state file lists the builds that are pending
\* and those that were ignored; all share the side effects in the store.
\* Hoisted layouts, --prod and bins are left out.
EXTENDS Integers, FiniteSets, Sequences, SequencesExt

CONSTANTS
  ProjectChunks,      \* sortPackages: sets of projects, one after the other
  Direct,             \* project -> dependencies in order
  DepsOf,             \* package -> dependencies in order, without cycles
  HasScripts,         \* packages that have to be built
  Optional,           \* packages that may fail
  ProjectScripts,     \* projects with scripts of their own
  Allowed,            \* onlyBuiltDependencies at first: sets of packages
  Selections,         \* what may be named to rebuild: sets of packages
  BuildConcurrency,   \* childConcurrency
  MaxCommands,        \* bound of the commands that are begun
  MaxBroken           \* bound of the scripts that fail and the commands that are killed

VARIABLES
  pendingBuilds,  \* of .modules.yaml, by project
  ignoredBuilds,  \* of .modules.yaml, by project
  built,          \* project -> the packages in it that are built
  effects,        \* packages of which the store has side effects
  allowed,        \* onlyBuiltDependencies
  cmd,            \* the command that runs, or ran last
  rb,             \* project -> its part of the command
  forgotten,      \* project -> what its state file no longer mentions
  begun, broken

rebuildVars == <<pendingBuilds, ignoredBuilds, built, effects, allowed, cmd, rb, forgotten,
  begun, broken>>

Projects == UNION Range(ProjectChunks)
Packages == DOMAIN DepsOf
Self == "."    \* the id of the project itself in pendingBuilds

\* What can be reached from a set, by ways around some packages.
Reached(from, around) ==
  {k \in Packages : \A S \in SUBSET Packages :
     from \subseteq S /\ (\A j \in S : Range(DepsOf[j]) \ around \subseteq S) => k \in S}
InLockfile == [p \in Projects |-> Reached(Range(Direct[p]), {})]
Below == [k \in Packages |-> Reached(Range(DepsOf[k]), {})]

AtRest == [phase |-> "idle", targets |-> {}, group |-> 0, groups |-> <<>>, running |-> {},
           ended |-> {}, rebuilt |-> {}, ignoredNow |-> {}, pendingNow |-> <<>>]
NoCommand == [phase |-> "idle", kind |-> "all", sel |-> {}, skip |-> FALSE, bail |-> TRUE,
              chunk |-> 0, projects |-> {}]

ToBuild(p) == InLockfile[p] \cap HasScripts
OwnScripts(p) == IF p \in ProjectScripts THEN <<Self>> ELSE <<>>

Orders(set) == {list \in [1..Cardinality(set) -> set] : Range(list) = set}

\* After installs with and without --ignore-scripts.
Init ==
  /\ allowed \in Allowed
  /\ \E ran \in SUBSET Projects, order \in [Projects -> UNION {Orders(ToBuild(p)) : p \in Projects}] :
       /\ \A p \in Projects : order[p] \in Orders(ToBuild(p))
       /\ pendingBuilds = [p \in Projects |->
            IF p \in ran THEN <<>> ELSE OwnScripts(p) \o order[p]]
       /\ ignoredBuilds = [p \in Projects |-> IF p \in ran THEN ToBuild(p) \ allowed ELSE {}]
       /\ built = [p \in Projects |->
            IF p \in ran THEN (ToBuild(p) \cap allowed) \cup Range(OwnScripts(p)) ELSE {}]
  /\ effects = {}
  /\ cmd = NoCommand /\ rb = [p \in Projects |-> AtRest] /\ forgotten = [p \in Projects |-> {}]
  /\ begun = 0 /\ broken = 0

-----------------------------------------------------------------------------
\* What of a list is in no set, in its order.
Without(list, set) ==
  LET upTo[i \in 0..Len(list)] ==
        IF i = 0 THEN <<>> ELSE IF list[i] \in set THEN upTo[i - 1] ELSE Append(upTo[i - 1], list[i])
  IN  upTo[Len(list)]

\* lockfileWalker: a step gives what was not walked before and marks it.
StepOf(entries, walked) ==
  [dependencies |-> Without(entries, walked), walked |-> walked \cup Range(entries)]

ChildShouldBeBuilt(below, k, targets) == below \/ k \in targets

\* getSubgraphToBuild: the packages to build and those above them.  A call is
\* about a list of packages; what it adds up are those it has walked, the nodes
\* and whether the package above should be built.
Walks == [list : Seq(Packages), walked : SUBSET Packages, nodes : SUBSET Packages, should : BOOLEAN]

\* The call for the dependencies of the first package of the list.
Into(w) ==
  LET step == StepOf(DepsOf[Head(w.list)], w.walked)
  IN  [list |-> step.dependencies, walked |-> step.walked, nodes |-> w.nodes, should |-> FALSE]

\* What is left of the list after that one returned.
Past(w, below, targets) ==
  LET child == ChildShouldBeBuilt(below.should, Head(w.list), targets)
  IN  [list |-> Tail(w.list), walked |-> below.walked,
       nodes |-> IF child THEN below.nodes \cup {Head(w.list)} ELSE below.nodes,
       should |-> w.should \/ child]

GetSubgraphToBuild(start, targets) ==
  LET walk[w \in Walks] == IF w.list = <<>> THEN w ELSE walk[Past(w, walk[Into(w)], targets)]
  IN  walk[start]

\* graphSequencer of an acyclic graph: what has no dependency left comes next.
ChunksOf(nodes) ==
  LET rest[done \in SUBSET nodes] ==
        LET next == {k \in nodes \ done : Range(DepsOf[k]) \cap nodes \subseteq done}
        IN  IF next = {} THEN <<>> ELSE <<next>> \o rest[done \cup next]
  IN  rest[{}]

\* The chunks, filtered by what was asked for.
Groups(p, targets) ==
  LET step == StepOf(Direct[p], {})
      start == [list |-> step.dependencies, walked |-> step.walked, nodes |-> {}, should |-> FALSE]
      nodes == GetSubgraphToBuild(start, targets).nodes
      chunks == ChunksOf(nodes)
  IN  [i \in DOMAIN chunks |-> chunks[i] \cap targets]

\* Every way from a project to a package leads through another.
OnlyBelow(p, d, k) == d \notin Reached(Range(Direct[p]) \ {k}, {k})

\* The groups are a way to build all that is asked for, dependencies first; those
\* below packages that are not rebuilt only where no other way leads to them.
GroupsAreRight ==
  \A p \in Projects : \A targets \in SUBSET Packages :
    LET groups == Groups(p, targets)
    IN  /\ groups \in Seq(SUBSET Packages)
        /\ UNION Range(groups) = targets \cap InLockfile[p]
        /\ \A i \in DOMAIN groups : \A k \in groups[i] : \A d \in Below[k] \cap targets :
             d \in Range(DepsOf[k]) \/ OnlyBelow(p, d, k) => \E j \in 1..(i - 1) : d \in groups[j]

\* Packages have no cycles.
RebuildAssumption ==
  /\ IsFiniteSet(Packages) /\ DepsOf \in [Packages -> Seq(Packages)]
  /\ \A k \in Packages : k \notin Below[k]
  /\ HasScripts \cup Optional \subseteq Packages /\ Self \notin Packages
  /\ ProjectChunks \in Seq(SUBSET Projects) /\ ProjectScripts \subseteq Projects
  /\ Direct \in [Projects -> Seq(Packages) \ {<<>>}]
  /\ Allowed \cup Selections \subseteq SUBSET Packages
  /\ BuildConcurrency \in Nat \ {0}
  /\ MaxCommands \in Nat /\ MaxBroken \in Nat

\* idsToRebuild, or what findPackages finds
Targets(p) ==
  CASE cmd.kind = "pending" -> Range(pendingBuilds[p]) \ {Self}
    [] cmd.kind = "selected" -> cmd.sel \cap InLockfile[p]
    [] OTHER -> InLockfile[p]

-----------------------------------------------------------------------------
\* The commands

Over == {"idle", "resolved", "rejected", "killed"}

Start(kind, sel, skip, bail, projects) ==
  /\ cmd.phase \in Over /\ begun < MaxCommands /\ begun' = begun + 1
  /\ cmd' = [phase |-> "running", kind |-> kind, sel |-> sel, skip |-> skip, bail |-> bail,
             chunk |-> 1, projects |-> projects]
  /\ rb' = [p \in Projects |-> [AtRest EXCEPT !.phase = IF p \in projects THEN "queued" ELSE "idle"]]
  /\ UNCHANGED <<pendingBuilds, ignoredBuilds, built, effects, forgotten, broken>>

\* pnpm -r rebuild, with --pending or with names; or the end of an install,
\* which skips packages the store has side effects of.
RebuildCommand(kind, sel, skip, bail) ==
  /\ kind = "selected" <=> sel # {}
  /\ skip => kind # "selected"
  /\ Start(kind, sel, skip, bail, Projects) /\ UNCHANGED allowed

\* approve-builds in a project: some of what was ignored is allowed and built.
\* What is declined is no longer reported, no more.
ApproveBuilds(p, approved) ==
  /\ approved # {} /\ approved \subseteq ignoredBuilds[p]
  /\ allowed' = allowed \cup approved
  /\ Start("selected", approved, FALSE, TRUE, {p})

-----------------------------------------------------------------------------
\* The projects of a chunk

Phase(p, phases) == cmd.phase \in {"running", "rejected"} /\ rb[p].phase \in phases
Set(p, record) == rb' = [rb EXCEPT ![p] = record]
Keep == UNCHANGED <<allowed, begun>>

InChunk == ProjectChunks[cmd.chunk] \cap cmd.projects

\* getContext and what _rebuild computes before it builds.
StartProject(p) ==
  /\ cmd.phase = "running" /\ p \in InChunk /\ rb[p].phase = "queued"
  /\ Set(p, [AtRest EXCEPT !.phase = "building", !.targets = Targets(p), !.group = 1,
                           !.groups = Groups(p, Targets(p)), !.pendingNow = pendingBuilds[p]])
  /\ UNCHANGED <<pendingBuilds, ignoredBuilds, built, effects, cmd, forgotten, broken>> /\ Keep

Group(p) == IF rb[p].group \in DOMAIN rb[p].groups THEN rb[p].groups[rb[p].group] ELSE {}
Waiting(p) == Group(p) \ (rb[p].running \cup rb[p].ended)

\* Mutant of SkipsBuild: what the store has is not looked at, but taken.
SkipsAlways(k) == cmd.skip

\* skipIfHasSideEffectsCache
SkipsBuild(k) == cmd.skip /\ k \in effects

\* A slot is free: the package is skipped, ignored or has nothing to run, or its
\* scripts start.  What has begun in a project that failed goes on.
StartBuild(p, k) ==
  /\ Phase(p, {"building", "failed"}) /\ k \in Waiting(p)
  /\ Cardinality(rb[p].running) < BuildConcurrency
  /\ IF ~SkipsBuild(k) /\ k \in allowed /\ k \in HasScripts
     THEN Set(p, [rb[p] EXCEPT !.running = @ \cup {k}])
     ELSE Set(p, [rb[p] EXCEPT !.ended = @ \cup {k}, !.rebuilt = @ \cup {k},
            !.ignoredNow = IF ~SkipsBuild(k) /\ k \notin allowed THEN @ \cup {k} ELSE @])
  /\ UNCHANGED <<pendingBuilds, ignoredBuilds, built, effects, cmd, forgotten, broken>> /\ Keep

\* The side effects are uploaded, unless that is off or fails.
ScriptsOk(p, k, upload) ==
  /\ Phase(p, {"building", "failed"}) /\ k \in rb[p].running
  /\ built' = [built EXCEPT ![p] = @ \cup {k}]
  /\ effects' = IF upload THEN effects \cup {k} ELSE effects
  /\ Set(p, [rb[p] EXCEPT !.running = @ \ {k}, !.ended = @ \cup {k}, !.rebuilt = @ \cup {k}])
  /\ UNCHANGED <<pendingBuilds, ignoredBuilds, cmd, forgotten, broken>> /\ Keep

\* Mutant of Rebuilt: an optional package that failed counts.
RebuiltAnyway(p, k) == rb[p].rebuilt \cup {k}

\* pkgsThatWereRebuilt after a failure
Rebuilt(p, k) == rb[p].rebuilt

\* With bail the failure rejects the command; without it the project is done.
ScriptsFail(p, k) ==
  /\ Phase(p, {"building", "failed"}) /\ k \in rb[p].running /\ broken < MaxBroken
  /\ broken' = broken + 1
  /\ Set(p, [rb[p] EXCEPT !.running = @ \ {k}, !.ended = @ \cup {k}, !.rebuilt = Rebuilt(p, k),
                          !.phase = IF k \in Optional THEN @ ELSE "failed"])
  /\ cmd' = IF k \notin Optional /\ cmd.bail THEN [cmd EXCEPT !.phase = "rejected"] ELSE cmd
  /\ UNCHANGED <<pendingBuilds, ignoredBuilds, built, effects, forgotten>> /\ Keep

\* runGroups
NextGroup(p) ==
  /\ Phase(p, {"building"}) /\ Group(p) \subseteq rb[p].ended
  /\ IF rb[p].group < Len(rb[p].groups)
     THEN Set(p, [rb[p] EXCEPT !.group = @ + 1])
     ELSE Set(p, [rb[p] EXCEPT !.phase = IF cmd.kind = "selected" THEN "writing" ELSE "hooks"])
  /\ UNCHANGED <<pendingBuilds, ignoredBuilds, built, effects, cmd, forgotten, broken>> /\ Keep

\* The scripts of the project itself, pending or not.
RunHooks(p) ==
  /\ Phase(p, {"hooks"})
  /\ built' = [built EXCEPT ![p] = IF p \in ProjectScripts THEN @ \cup {Self} ELSE @]
  /\ Set(p, [rb[p] EXCEPT !.phase = "writing"])
  /\ UNCHANGED <<pendingBuilds, ignoredBuilds, effects, cmd, forgotten, broken>> /\ Keep

HooksFail(p) ==
  /\ Phase(p, {"hooks"}) /\ p \in ProjectScripts /\ broken < MaxBroken
  /\ broken' = broken + 1
  /\ Set(p, [rb[p] EXCEPT !.phase = "failed"])
  /\ cmd' = IF cmd.bail THEN [cmd EXCEPT !.phase = "rejected"] ELSE cmd
  /\ UNCHANGED <<pendingBuilds, ignoredBuilds, built, effects, forgotten>> /\ Keep

\* splice(indexOf(id), 1): without the id the last one goes.
SpliceSelf(list) ==
  IF Self \in Range(list) THEN Without(list, {Self})
  ELSE IF list = <<>> THEN <<>> ELSE Front(list)

\* Mutant of PendingAfter: what was asked for was done.
PendingMinusTargets(p) ==
  LET left == Without(rb[p].pendingNow, rb[p].targets)
  IN  IF p \in ProjectScripts THEN SpliceSelf(left) ELSE left

\* What remains pending: selected packages are not taken off.
PendingAfter(p) ==
  LET left == Without(rb[p].pendingNow, rb[p].rebuilt)
  IN  IF cmd.kind = "selected" THEN rb[p].pendingNow
      ELSE IF p \in ProjectScripts /\ (cmd.kind # "pending" \/ Self \in Range(left))
           THEN SpliceSelf(left) ELSE left

\* writeModulesManifest: ignoredBuilds are those of this command.  What was
\* ignored before, cut off by splice, or skipped because another project has
\* uploaded it, is not mentioned any more.
WriteState(p) ==
  /\ Phase(p, {"writing"})
  /\ pendingBuilds' = [pendingBuilds EXCEPT ![p] = PendingAfter(p)]
  /\ ignoredBuilds' = [ignoredBuilds EXCEPT ![p] = rb[p].ignoredNow]
  /\ forgotten' = [forgotten EXCEPT ![p] = @ \cup (ignoredBuilds[p] \ rb[p].ignoredNow)
       \cup (IF cmd.skip THEN effects \ built[p] ELSE {})
       \cup (IF cmd.kind = "selected" THEN {}
             ELSE Range(rb[p].pendingNow) \ (rb[p].rebuilt \cup {Self} \cup Range(pendingBuilds'[p])))]
  /\ Set(p, [rb[p] EXCEPT !.phase = "passed"])
  /\ UNCHANGED <<built, effects, cmd, broken>> /\ Keep

\* All projects of the chunk are done; after the last, throwOnCommandFail.
NextChunk ==
  /\ cmd.phase = "running" /\ \A p \in InChunk : rb[p].phase \in {"passed", "failed"}
  /\ cmd' = IF cmd.chunk < Len(ProjectChunks) THEN [cmd EXCEPT !.chunk = @ + 1]
            ELSE [cmd EXCEPT !.phase =
                    IF \E p \in cmd.projects : rb[p].phase = "failed" THEN "rejected" ELSE "resolved"]
  /\ UNCHANGED <<pendingBuilds, ignoredBuilds, built, effects, rb, forgotten, broken>> /\ Keep

\* A rejected command exits at some time, a killed one at any.
Exit ==
  /\ cmd.phase = "rejected" /\ rb # [p \in Projects |-> AtRest]
  /\ rb' = [p \in Projects |-> AtRest]
  /\ UNCHANGED <<pendingBuilds, ignoredBuilds, built, effects, allowed, cmd, forgotten, begun,
                 broken>>

Kill ==
  /\ cmd.phase = "running" /\ broken < MaxBroken /\ broken' = broken + 1
  /\ cmd' = [cmd EXCEPT !.phase = "killed"] /\ rb' = [p \in Projects |-> AtRest]
  /\ UNCHANGED <<pendingBuilds, ignoredBuilds, built, effects, allowed, forgotten, begun>>

\* Nothing runs, and nobody has to begin: a command that cannot go on is a
\* deadlock, and every step of one brings it nearer to its end.
Quiet == cmd.phase \in Over /\ UNCHANGED rebuildVars

ProjectStep(p) ==
  \/ StartProject(p) \/ NextGroup(p) \/ RunHooks(p) \/ WriteState(p)
  \/ \E k \in Packages : \/ StartBuild(p, k) \/ ScriptsFail(p, k)
                        \/ \E upload \in BOOLEAN : ScriptsOk(p, k, upload)
  \/ HooksFail(p)

RebuildStep == NextChunk \/ Exit \/ \E p \in Projects : ProjectStep(p)

Next ==
  \/ RebuildStep \/ Kill \/ Quiet
  \/ \E kind \in {"all", "pending"}, skip, bail \in BOOLEAN : RebuildCommand(kind, {}, skip, bail)
  \/ \E sel \in Selections, bail \in BOOLEAN : RebuildCommand("selected", sel, FALSE, bail)
  \/ \E p \in Projects : \E approved \in SUBSET ignoredBuilds[p] : ApproveBuilds(p, approved)

Spec == Init /\ [][Next]_rebuildVars

-----------------------------------------------------------------------------
\* Properties

RebuildTypeOK ==
  /\ DOMAIN pendingBuilds = Projects
  /\ \A p \in Projects : Range(pendingBuilds[p]) \subseteq Packages \cup {Self}
  /\ ignoredBuilds \in [Projects -> SUBSET Packages]
  /\ built \in [Projects -> SUBSET (Packages \cup {Self})]
  /\ effects \subseteq HasScripts /\ allowed \subseteq Packages
  /\ forgotten \in [Projects -> SUBSET Packages]
  /\ \A p \in Projects : rb[p].running \subseteq Packages /\ rb[p].rebuilt \subseteq rb[p].ended

\* The scripts of a package run when those of its dependencies that are rebuilt
\* too have ended, and those below packages that are not rebuilt; the walk passes
\* by what it has walked, so the latter only where no other way leads to them.
DependenciesRebuiltFirst ==
  \A p \in Projects : \A k \in rb[p].running :
    \A d \in Below[k] \cap rb[p].targets :
      d \in Range(DepsOf[k]) \/ OnlyBelow(p, d, k) => d \in rb[p].ended

OfAnother(p, k) == \E q \in Projects \ {p} : k \in InLockfile[q]

\* A rebuild that ends well has built what it was asked to, of what may be
\* built and must not fail.  At the end of an install a package that another
\* project has, too, may be passed by: that one has just uploaded it.
RebuiltIsBuilt ==
  cmd.phase = "resolved" =>
    \A p \in cmd.projects : \A k \in (rb[p].targets \cap HasScripts \cap allowed) \ Optional :
      k \in built[p] \/ (cmd.skip /\ OfAnother(p, k))

\* What is not built is pending or among the ignored builds, in whatever order
\* commands fail, are killed and follow each other.  The exceptions: builds that
\* an earlier command ignored and this one did not look at, the entry that
\* splice takes off for a project that was not pending, and packages of several
\* projects at the end of an install.
NothingIsForgotten ==
  \A p \in Projects : \A k \in InLockfile[p] \cap HasScripts :
    k \in built[p] \cup Range(pendingBuilds[p]) \cup ignoredBuilds[p] \cup forgotten[p]

\* The project's own scripts are pending until they have run.
ProjectIsPending ==
  \A p \in ProjectScripts : Self \in built[p] \cup Range(pendingBuilds[p])
=============================================================================

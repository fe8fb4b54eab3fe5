------------------------------ MODULE BuildModules ------------------------------
(***************************************************************************)
(* buildModules() of exec/build-modules/src: after an install the packages *)
(* with lifecycle scripts (or patches) are built.                          *)
(*                                                                         *)
(* buildSequence() walks the dependency graph depth-first from the direct  *)
(* dependencies and keeps the packages that need a build and those with a  *)
(* walked child that does; GraphSequencer sorts what was kept; the chunks  *)
(* are run one after another by run-groups, childConcurrency builds at a   *)
(* time.  In the hoisted layout a package may be in several locations: the *)
(* first one is built, the others wait for it and get a copy.              *)
(*                                                                         *)
(* The order of a node's children and of the builds of a chunk is          *)
(* abstracted: the model takes any.  Children outside of the graph, which  *)
(* the walk skips, are left out of it.  The content of a package is built, *)
(* not built yet, or what a failed script left.                            *)
(***************************************************************************)
EXTENDS Naturals, FiniteSets, Sequences

CONSTANTS
  Nodes,             \* the keys of depGraph: locations in the hoisted layout
  DepPaths, DepPathOf,   \* [Nodes -> DepPaths]
  Plans,             \* the installs to build for
  ChildConcurrency,
  MaxFaults,         \* bound: scripts that fail, directories that cannot be copied
  NoNode

\* What an install hands to buildModules.
AllPlans ==
  [deps : [Nodes -> SUBSET Nodes],   \* children
   roots : SUBSET Nodes,             \* rootDepPaths
   needs : SUBSET Nodes,             \* requiresBuild or patch
   skip : SUBSET Nodes,              \* isBuilt, or not in depsToBuild
   unindexed : SUBSET Nodes,         \* without filesIndexFile
   optional : SUBSET Nodes,
   hoisted : BOOLEAN]                \* hoistedLocations are given

ASSUME BuildConstants ==
  /\ IsFiniteSet(Nodes) /\ NoNode \notin Nodes
  /\ DepPathOf \in [Nodes -> DepPaths]
  /\ Plans \subseteq AllPlans
  \* a package is optional at all its locations or at none
  /\ \A p \in Plans : p.hoisted =>
       \A n, m \in Nodes : DepPathOf[n] = DepPathOf[m] /\ n \in p.optional => m \in p.optional
  /\ ChildConcurrency \in Nat \ {0} /\ MaxFaults \in Nat

VARIABLES
  pc,       \* "walk", "sort", "run", and how the call ended
  plan,
  stack,    \* the calls of getSubgraphToBuild, the innermost last
  walked,
  order,    \* nodesToBuild, in the order of insertion
  graph, nodes, outDegree, scan, group, chunks, cycles, safe,  \* graphSequencer
  current,  \* the group that runs
  job,      \* where the build of each package is
  result,   \* how its scripts ended
  builder,  \* builtHoistedDeps: the location that builds the package
  settled,  \* the packages whose promise in builtHoistedDeps resolved
  files,    \* the content of each location
  faults

walkVars == <<stack, walked, order>>
sequencerVars == <<graph, nodes, outDegree, scan, group, chunks, cycles, safe>>
runVars == <<current, job, result, builder, settled, files, faults>>
vars == <<pc, plan, walkVars, sequencerVars, runVars>>

Sequencer == INSTANCE GraphSequencer WITH
               Graphs <- [Nodes -> SUBSET Nodes], Orders <- Seq(Nodes)

nodesToBuild == Sequencer!included

Frames == [node : Nodes \cup {NoNode}, left : SUBSET Nodes, build : BOOLEAN]

TypeOK ==
  /\ pc \in {"walk", "sort", "run", "resolved", "rejected"}
  /\ plan \in AllPlans
  /\ stack \in Seq(Frames) /\ Len(stack) > 0
  /\ walked \subseteq Nodes
  /\ Sequencer!TypeOK
  /\ current \in Nat
  /\ job \in [Nodes -> {"none", "queued", "waiting", "building", "copying", "done", "failed"}]
  /\ result \in [Nodes -> {"none", "ok", "skipped", "failed"}]
  /\ builder \in [DepPaths -> Nodes \cup {NoNode}]
  /\ settled \subseteq DepPaths
  /\ files \in [Nodes -> {"fresh", "built", "broken"}]
  /\ faults \in 0..MaxFaults

Init ==
  /\ pc = "walk" /\ plan \in Plans
  /\ stack = <<[node |-> NoNode, left |-> plan.roots, build |-> FALSE]>>
  /\ walked = {} /\ order = <<>>
  /\ graph = [n \in Nodes |-> {}] /\ nodes = {} /\ outDegree = [n \in Nodes |-> 0]
  /\ scan = 0 /\ group = {} /\ chunks = <<>> /\ cycles = <<>> /\ safe = TRUE
  /\ current = 0
  /\ job = [n \in Nodes |-> "none"] /\ result = [n \in Nodes |-> "none"]
  /\ builder = [d \in DepPaths |-> NoNode] /\ settled = {}
  /\ files = [n \in Nodes |->
       IF n \in plan.needs \ (plan.skip \cup plan.unindexed) THEN "fresh" ELSE "built"]
  /\ faults = 0

-----------------------------------------------------------------------------
\* buildSequence

Depth == Len(stack)
Top == stack[Depth]

\* The loop over entryNodes: a package that was walked is passed over, and
\* does not count as one to build; another one is entered.
Visit(n) ==
  LET rest == [stack EXCEPT ![Depth] = [Top EXCEPT !.left = @ \ {n}]]
      call == [node |-> n, left |-> plan.deps[n], build |-> FALSE]
  IN
  /\ pc = "walk" /\ n \in Top.left
  /\ \/ /\ n \in walked
        /\ stack' = rest
        /\ UNCHANGED walked
     \/ /\ n \notin walked
        /\ walked' = walked \cup {n}
        /\ stack' = Append(rest, call)
  /\ UNCHANGED <<pc, plan, order, sequencerVars, runVars>>

\* Mutant of ShouldBeBuilt: ?? in the place of ||.
ShouldBeBuiltNullish(frame) == frame.build

\* childShouldBeBuilt
ShouldBeBuilt(frame) == frame.build \/ frame.node \in plan.needs

\* The innermost call returns to the one before it.
Leave ==
  /\ pc = "walk" /\ Depth > 1 /\ Top.left = {}
  /\ order' = IF ShouldBeBuilt(Top) THEN Append(order, Top.node) ELSE order
  /\ stack' = [i \in 1..(Depth - 1) |->
       IF i = Depth - 1 THEN [stack[i] EXCEPT !.build = @ \/ ShouldBeBuilt(Top)] ELSE stack[i]]
  /\ UNCHANGED <<pc, plan, walked, sequencerVars, runVars>>

\* Mutant of StartSort: the degrees are not counted.
StartSortUncounted ==
  /\ pc = "walk" /\ Depth = 1 /\ Top.left = {}
  /\ pc' = "sort"
  /\ graph' = [n \in Nodes |-> IF n \in nodesToBuild THEN plan.deps[n] \cap nodesToBuild ELSE {}]
  /\ nodes' = nodesToBuild
  /\ UNCHANGED <<plan, walkVars, outDegree, scan, group, chunks, cycles, safe, runVars>>

\* The graph of the packages to build, and graphSequencer's initialisation.
StartSort ==
  /\ pc = "walk" /\ Depth = 1 /\ Top.left = {}
  /\ pc' = "sort"
  /\ graph' = [n \in Nodes |-> IF n \in nodesToBuild THEN plan.deps[n] \cap nodesToBuild ELSE {}]
  /\ nodes' = nodesToBuild
  /\ outDegree' = [n \in Nodes |-> Cardinality(graph'[n])]
  /\ UNCHANGED <<plan, walkVars, scan, group, chunks, cycles, safe, runVars>>

Sort ==
  /\ pc = "sort"
  /\ \/ Sequencer!ReleaseFree \/ Sequencer!StartScan \/ Sequencer!TakeCycle
     \/ Sequencer!SkipNode \/ Sequencer!EndScan
  /\ UNCHANGED <<pc, plan, stack, walked, runVars>>

-----------------------------------------------------------------------------
\* run-groups: the groups one after another, ChildConcurrency jobs at a time

\* The packages of a chunk that are built.
Group(i) == {n \in chunks[i] : n \in plan.needs \ plan.skip}

Enqueue(i) ==
  /\ current' = i
  /\ job' = [n \in Nodes |-> IF n \in Group(i) THEN "queued" ELSE job[n]]

StartGroups ==
  /\ pc = "sort" /\ Sequencer!Returned
  /\ \/ /\ chunks = <<>> /\ pc' = "resolved"
        /\ UNCHANGED <<current, job>>
     \/ /\ chunks # <<>> /\ pc' = "run"
        /\ Enqueue(1)
  /\ UNCHANGED <<plan, walkVars, sequencerVars, result, builder, settled, files, faults>>

\* Mutant of GroupEnded: one build of the group may be left.
AlmostEnded == Cardinality({n \in Group(current) : job[n] # "done"}) <= 1

\* Promise.all of the group resolved.
GroupEnded == \A n \in Group(current) : job[n] = "done"

NextGroup ==
  /\ pc = "run" /\ GroupEnded
  /\ \/ /\ current < Len(chunks)
        /\ Enqueue(current + 1)
        /\ UNCHANGED pc
     \/ /\ current = Len(chunks) /\ pc' = "resolved"
        /\ UNCHANGED <<current, job>>
  /\ UNCHANGED <<plan, walkVars, sequencerVars, result, builder, settled, files, faults>>

\* It rejected.  The builds that are queued still run.
Reject ==
  /\ pc = "run" /\ \E n \in Nodes : job[n] = "failed"
  /\ pc' = "rejected"
  /\ UNCHANGED <<plan, walkVars, sequencerVars, runVars>>

-----------------------------------------------------------------------------
\* buildDependency

Running == {n \in Nodes : job[n] \in {"waiting", "building", "copying"}}

\* Mutant of Locations: the location itself is the only one.
OwnLocation(n) == {n}

\* hoistedLocations: where the package of n is.
Locations(n) ==
  IF plan.hoisted THEN {m \in Nodes : DepPathOf[m] = DepPathOf[n]} ELSE {n}

\* Up to the first await: nothing to do without an index; another location
\* builds the package already; or this one does.
StartBuild(n) ==
  LET d == DepPathOf[n] IN
  /\ job[n] = "queued" /\ Cardinality(Running) < ChildConcurrency
  /\ \/ /\ n \in plan.unindexed
        /\ job' = [job EXCEPT ![n] = "done"]
        /\ UNCHANGED builder
     \/ /\ n \notin plan.unindexed /\ plan.hoisted /\ builder[d] # NoNode
        /\ job' = [job EXCEPT ![n] = "waiting"]
        /\ UNCHANGED builder
     \/ /\ n \notin plan.unindexed /\ (~plan.hoisted \/ builder[d] = NoNode)
        /\ job' = [job EXCEPT ![n] = "building"]
        /\ builder' = IF plan.hoisted THEN [builder EXCEPT ![d] = n] ELSE builder
  /\ UNCHANGED <<pc, plan, walkVars, sequencerVars, current, result, settled, files, faults>>

EndWait(n) ==
  /\ job[n] = "waiting" /\ DepPathOf[n] \in settled
  /\ job' = [job EXCEPT ![n] = "done"]
  /\ UNCHANGED <<pc, plan, walkVars, sequencerVars, current, result, builder, settled, files, faults>>

\* Bins are linked, the patch is applied, the scripts ran, and the side effects
\* were uploaded (or not: that is a warning).
ScriptsOk(n) ==
  /\ job[n] = "building"
  /\ job' = [job EXCEPT ![n] = "copying"]
  /\ result' = [result EXCEPT ![n] = "ok"]
  /\ files' = [files EXCEPT ![n] = "built"]
  /\ UNCHANGED <<pc, plan, walkVars, sequencerVars, current, builder, settled, faults>>

\* A failure of an optional package is passed over.
ScriptsFail(n) ==
  /\ job[n] = "building" /\ faults < MaxFaults
  /\ faults' = faults + 1
  /\ job' = [job EXCEPT ![n] = "copying"]
  /\ result' = [result EXCEPT ![n] = IF n \in plan.optional THEN "skipped" ELSE "failed"]
  /\ files' = [files EXCEPT ![n] = "broken"]
  /\ UNCHANGED <<pc, plan, walkVars, sequencerVars, current, builder, settled>>

\* Mutant of EndBuild: those that wait go on after a success only.
EndBuildOnSuccess(n) ==
  /\ job[n] = "copying"
  /\ files' = [m \in Nodes |-> IF m \in Locations(n) THEN files[n] ELSE files[m]]
  /\ settled' = IF plan.hoisted /\ result[n] = "ok" THEN settled \cup {DepPathOf[n]} ELSE settled
  /\ job' = [job EXCEPT ![n] = IF result[n] = "failed" THEN "failed" ELSE "done"]
  /\ UNCHANGED <<pc, plan, walkVars, sequencerVars, current, result, builder, faults>>

\* The finally block: the directory, whatever is in it, is linked over the
\* other locations, and those that wait may go on.
EndBuild(n) ==
  /\ job[n] = "copying"
  /\ files' = [m \in Nodes |-> IF m \in Locations(n) THEN files[n] ELSE files[m]]
  /\ settled' = IF plan.hoisted THEN settled \cup {DepPathOf[n]} ELSE settled
  /\ job' = [job EXCEPT ![n] = IF result[n] = "failed" THEN "failed" ELSE "done"]
  /\ UNCHANGED <<pc, plan, walkVars, sequencerVars, current, result, builder, faults>>

\* The copy fails: so does the build, and the promise is not settled.
CopyFails(n) ==
  /\ job[n] = "copying" /\ plan.hoisted /\ faults < MaxFaults
  /\ faults' = faults + 1
  /\ job' = [job EXCEPT ![n] = "failed"]
  /\ UNCHANGED <<pc, plan, walkVars, sequencerVars, current, result, builder, settled, files>>

Ended == pc \in {"resolved", "rejected"}

\* buildModules returned and nothing can go on.
Stop ==
  /\ Ended
  /\ \A n \in Nodes : job[n] \in {"none", "done", "failed"}
                      \/ (job[n] = "waiting" /\ DepPathOf[n] \notin settled)
                      \/ (job[n] = "queued" /\ Cardinality(Running) = ChildConcurrency)
  /\ UNCHANGED vars

Walk == (\E n \in Nodes : Visit(n)) \/ Leave \/ StartSort
Groups == StartGroups \/ NextGroup \/ Reject
Build(n) == StartBuild(n) \/ EndWait(n) \/ ScriptsOk(n) \/ ScriptsFail(n) \/ EndBuild(n) \/ CopyFails(n)

Next == Walk \/ Sort \/ Groups \/ (\E n \in Nodes : Build(n)) \/ Stop

\* The code up to the first build is synchronous, a slot that is free goes to
\* the next job, and scripts end.
Fairness ==
  /\ WF_vars(Walk) /\ WF_vars(Sort) /\ WF_vars(Groups)
  /\ \A n \in Nodes : WF_vars(Build(n))

Spec == Init /\ [][Next]_vars
FairSpec == Spec /\ Fairness

-----------------------------------------------------------------------------
\* Properties

\* The packages that can be reached from the roots: what every set with the
\* roots and the children of its members contains.
Reachable ==
  {n \in Nodes : \A S \in SUBSET Nodes :
     plan.roots \subseteq S /\ (\A m \in S : plan.deps[m] \subseteq S) => n \in S}

\* The walk forgets no package that needs a build, although it passes over
\* what it has walked and a child that was passed over does not count.
EveryBuildIsScheduled ==
  pc # "walk" => Reachable \cap plan.needs \subseteq nodesToBuild

Failed == \E n \in Nodes : job[n] = "failed"

\* A package on no cycle is built after all its dependencies, at every
\* location they have, unless scripts failed (as those of optional packages
\* may).
DependenciesAreBuilt ==
  \A n \in Nodes : job[n] = "building" /\ ~Sequencer!OnCycle(n) =>
    \A m \in plan.deps[n] : files[m] = "built" \/ m \in plan.optional \/ Failed

\* When buildModules succeeds, every package that can be reached has been
\* built, or is optional and failed.
ResolvedMeansBuilt ==
  pc = "resolved" => \A n \in Reachable \ plan.optional : files[n] = "built"

\* buildModules ends, whatever scripts fail: no build waits for a location
\* that is not being built, or for a slot that is never given back.
BuildEnds == <>Ended

\* "run lifecycle scripts of dependent packages after running scripts of their
\* deps" (pkg-manager/core/test/install/lifecycleScripts.ts, line 300), also
\* of the dependencies of a package that has no scripts.  The walk loses the
\* way through such a package when its dependencies were walked before.
Below(n) ==
  {m \in Nodes : \A S \in SUBSET Nodes :
     plan.deps[n] \subseteq S /\ (\A k \in S : plan.deps[k] \subseteq S) => m \in S}
ScriptsRunAfterThoseOfDeps ==
  \A n \in Nodes : job[n] = "building" =>
    \A m \in Below(n) : n \in Below(m) \/ files[m] = "built" \/ m \in plan.optional \/ Failed
=============================================================================

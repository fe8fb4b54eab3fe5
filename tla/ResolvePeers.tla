---------------------------- MODULE ResolvePeers ----------------------------
\* pkg-manager/resolve-dependencies/src/resolvePeers.ts: which copy of a
\* package every package of the dependency tree gets its peer dependencies
\* from.  The tree is walked depth first; what was found for a package is
\* reused where its surroundings are the same; the dependency path of a package
\* names those of its peers, which may be known only later: such a path is
\* computed concurrently and waits for the others.
\* Versions are numbers and ranges are left out: an unmet range is reported and
\* changes nothing.  Linked dependencies and injected ones are left out.
EXTENDS Naturals, FiniteSets, Sequences, SequencesExt, FiniteSetsExt, TLC

CONSTANTS
  Inputs,   \* what is resolved: [roots: project -> direct dependencies,
            \*   deps: package -> dependencies, peers: package -> peer names,
            \*   order: the projects, above: the project that serves the others
            \*   ("none": resolvePeersFromWorkspaceRoot is off), dedupe: merge
            \*   compatible copies], dependencies in order
  Name,     \* package -> its name
  Version   \* package -> its version

VARIABLES
  input,
  nextProject, \* the next of the projects
  stack,       \* the calls of resolvePeersOfChildren, the innermost one last
  peersCache,  \* package -> what was found for its copies, in order
  purePkgs,    \* packages that depend on no peer around them
  paths,       \* node -> its dependency path (pathsByNodeId)
  promises,    \* node -> what its promise was resolved with
  depGraph,    \* dependency path -> the package there
  calcs,       \* node -> the computation of its path, which waits for peers
  hits,        \* nodes that wait for the path of a cached copy
  parentsOf,   \* node -> the providers around it (parentPkgsOfNode)
  rounds       \* deduplicateAll: what is left to merge, and what was

peerVars == <<input, nextProject, stack, peersCache, purePkgs, paths, promises, depGraph, calcs,
              hits, parentsOf, rounds>>

-----------------------------------------------------------------------------
\* The dependency tree.  A node is its path from the project; a package without
\* dependencies and peers is one node wherever it occurs.

Dep(alias, pkg) == [alias |-> alias, pkg |-> pkg]
PkgOf(node) == node[Len(node)].pkg
Ids(node) == [i \in DOMAIN node |-> node[i].pkg]
IsLeaf(p) == input.deps[p] = <<>> /\ input.peers[p] = {}
AllPeerNames == UNION {input.peers[p] : p \in DOMAIN input.peers}

\* The dependency of `parent` on `child` was walked before on this path.
ParentIdsContainSequence(ids, parent, child) ==
  LET first == Min({i \in DOMAIN ids : ids[i] = parent})
      last == Max({0} \cup {i \in DOMAIN ids : ids[i] = child})
  IN  first # Len(ids) /\ first < last /\ last # Len(ids)

NodeOf(parent, dep) == IF IsLeaf(dep.pkg) THEN <<Dep("leaf", dep.pkg)>> ELSE Append(parent, dep)

DepsAt(node) ==
  IF PkgOf(node) \in DOMAIN input.roots THEN input.roots[PkgOf(node)]
  ELSE SelectSeq(input.deps[PkgOf(node)], LAMBDA d :
         d.pkg # PkgOf(node) /\ ~ParentIdsContainSequence(Ids(node), PkgOf(node), d.pkg))

Kids(node) == [a \in {d.alias : d \in Range(DepsAt(node))} |->
                 NodeOf(node, CHOOSE d \in Range(DepsAt(node)) : d.alias = a)]

\* The one node of a leaf has the depth of its first occurrence.
LeafDepth(p) ==
  LET Level[n \in Nat] ==
        IF n = 0 THEN {d.pkg : d \in UNION {Range(input.roots[r]) : r \in DOMAIN input.roots}}
        ELSE UNION {{d.pkg : d \in Range(input.deps[q])} : q \in Level[n - 1]}
  IN  Min({n \in 0..Cardinality(DOMAIN input.deps) : p \in Level[n]})

Depth(node) == IF IsLeaf(PkgOf(node)) THEN LeafDepth(PkgOf(node)) ELSE Len(node) - 2

\* A dependency path: the package and the paths of the peers it was resolved
\* with, its own and those that its dependencies look for further up.
DepPath(p, peers) == [pkg |-> p, peers |-> peers]

-----------------------------------------------------------------------------
\* The providers of peers (ParentRefs): name -> [node, alias, occurrence]

VersionOf(ref) == Version[PkgOf(ref.node)]

\* updateParentRefs: a dependency that has the name as its alias goes before
\* one that has it as the name of its package.
UpdateParentRefs(refs, name, ref) ==
  IF name \in DOMAIN refs /\ (\/ refs[name].alias = name
                              \/ ref.alias # name /\ VersionOf(refs[name]) >= VersionOf(ref))
  THEN refs ELSE (name :> ref) @@ refs

ToPkgByName(parent, deps) ==
  FoldLeft(LAMBDA refs, d :
             LET ref == [node |-> NodeOf(parent, d), alias |-> d.alias, occ |-> 0]
             IN  UpdateParentRefs(UpdateParentRefs(refs, d.alias, ref), Name[d.pkg], ref),
           <<>>, deps)

RestrictNames(f, names) == [n \in DOMAIN f \cap names |-> f[n]]

\* The same version of the same package: the provider further up is kept.
ParentPkgsMatch(old, new) ==
  /\ VersionOf(old) = VersionOf(new) /\ old.alias = new.alias
  /\ Name[PkgOf(old.node)] = Name[PkgOf(new.node)]

\* The providers for the children of a node.
RefsBelow(refs, node) ==
  LET new == ToPkgByName(node, SelectSeq(DepsAt(node), LAMBDA d : d.alias \in AllPeerNames))
      replaced == {n \in DOMAIN new \cap DOMAIN refs : ~ParentPkgsMatch(refs[n], new[n])}
  IN  [n \in DOMAIN refs \cup DOMAIN new |->
         IF n \notin DOMAIN refs THEN new[n]
         ELSE IF n \in replaced THEN [new[n] EXCEPT !.occ = refs[n].occ + 1] ELSE refs[n]]

\* The providers for the direct dependencies of a project.
RootRefs(i) ==
  LET of(project) == ToPkgByName(<<Dep(project, project)>>, input.roots[project])
      above == IF input.above = "none" THEN <<>> ELSE of(input.above)
  IN  RestrictNames(of(input.order[i]) @@ above, AllPeerNames)

-----------------------------------------------------------------------------
\* The cache

SingleOccurrence(parents) == \A n \in DOMAIN parents : parents[n].occ = 0

\* Mutant of ParentPackagesMatch: the names around the copies are enough.
SameNamesAround(cached, checked) ==
  cached \in DOMAIN parentsOf /\ checked \in DOMAIN parentsOf

\* The two copies of a provider have the same providers around them.
ParentPackagesMatch(cached, checked) ==
  /\ cached \in DOMAIN parentsOf /\ checked \in DOMAIN parentsOf
  /\ LET a == parentsOf[cached]
         b == parentsOf[checked]
         maxDepth == Max({0} \cup {b[n].depth : n \in DOMAIN b})
     IN  /\ DOMAIN a = DOMAIN b
         /\ \A n \in DOMAIN a :
              /\ a[n].pkg = b[n].pkg
              /\ \/ SingleOccurrence(a) /\ SingleOccurrence(b)
                 \/ b[n].depth = maxDepth
                 \/ a[n].pkg \in purePkgs

\* Mutant of Fits: what the copy misses may be provided here.
FitsResolved(item, refs) == \A n \in DOMAIN item.resolved :
  /\ n \in DOMAIN refs
  /\ PkgOf(refs[n].node) = PkgOf(item.resolved[n])

Fits(item, refs) ==
  /\ item.missing \cap DOMAIN refs = {}
  /\ \A n \in DOMAIN item.resolved :
       /\ n \in DOMAIN refs
       /\ LET c == item.resolved[n]
              r == refs[n].node
          IN  \/ r = c
              \/ c \in DOMAIN paths /\ r \in DOMAIN paths /\ paths[c] = paths[r]
              \/ PkgOf(r) = PkgOf(c) /\ (PkgOf(r) \in purePkgs \/ ParentPackagesMatch(c, r))

Fitting(refs, p) == SelectSeq(peersCache[p], LAMBDA item : Fits(item, refs))

-----------------------------------------------------------------------------
\* Frames of resolvePeersOfChildren

\* Children with the name of a provider come first; every node once.
Visits(node, refs) ==
  LET deps == DepsAt(node)
      sorted == SelectSeq(deps, LAMBDA d : d.alias \in DOMAIN refs)
                \o SelectSeq(deps, LAMBDA d : d.alias \notin DOMAIN refs)
      nodes == [i \in DOMAIN sorted |-> NodeOf(node, sorted[i])]
      firsts == SelectSeq([i \in DOMAIN sorted |-> i],
                          LAMBDA i : \A j \in 1..(i - 1) : nodes[j] # nodes[i])
      aliasOf(n) == Last(SelectSeq(deps, LAMBDA d : NodeOf(node, d) = n)).alias
  IN  [i \in DOMAIN firsts |-> [alias |-> aliasOf(nodes[firsts[i]]), node |-> nodes[firsts[i]]]]

Frame(alias, node, refs) ==
  [alias |-> alias, node |-> node, refs |-> refs, rest |-> Visits(node, refs), resolved |-> <<>>,
   missing |-> {}, edges |-> {}, calcs |-> <<>>]

\* parentPkgsOfNode for the children of a frame
Around(frame) ==
  LET parents == [n \in DOMAIN frame.refs \cap AllPeerNames |->
                    [pkg |-> PkgOf(frame.refs[n].node), depth |-> Depth(frame.refs[n].node),
                     occ |-> frame.refs[n].occ]]
  IN  [n \in {frame.rest[i].node : i \in DOMAIN frame.rest} |-> parents]

Top == stack[Len(stack)]

\* What a child found, added to the frame of its parent.
Merged(frame, alias, resolved, missing) ==
  [frame EXCEPT !.resolved = resolved @@ @, !.missing = @ \cup missing,
                !.edges = @ \cup {<<alias, n>> : n \in DOMAIN resolved}]

Resolve(node, path) == IF node \in DOMAIN promises THEN <<>> ELSE node :> path

Init ==
  /\ input \in Inputs
  /\ nextProject = 1 /\ stack = <<>>
  /\ peersCache = [p \in DOMAIN input.deps |-> <<>>] /\ purePkgs = {}
  /\ paths = <<>> /\ promises = <<>> /\ depGraph = <<>>
  /\ calcs = <<>> /\ hits = {} /\ parentsOf = <<>>
  /\ rounds = [phase |-> "none", groups |-> {}, all |-> 0, left |-> {}, map |-> <<>>, total |-> <<>>]

\* The next project; one ends before the next begins.
StartProject ==
  /\ stack = <<>> /\ nextProject <= Len(input.order)
  /\ LET project == input.order[nextProject]
         frame == Frame(project, <<Dep(project, project)>>, RootRefs(nextProject))
     IN  stack' = <<frame>> /\ parentsOf' = Around(frame)
  /\ nextProject' = nextProject + 1
  /\ UNCHANGED <<input, peersCache, purePkgs, paths, promises, depGraph, calcs, hits, rounds>>

Visiting(alias, node) ==
  /\ stack # <<>> /\ Top.rest # <<>>
  /\ alias = Head(Top.rest).alias /\ node = Head(Top.rest).node

WithoutHead == [Top EXCEPT !.rest = Tail(@)]
ReplaceTop(frame) == [stack EXCEPT ![Len(stack)] = frame]

IsKnownPure(node) ==
  LET p == PkgOf(node)
  IN  p \in purePkgs /\ depGraph[DepPath(p, {})].depth <= Depth(node) /\ input.peers[p] = {}

\* A package that depends on no peers: its path is its own id.
VisitPure(alias, node) ==
  /\ Visiting(alias, node) /\ IsKnownPure(node)
  /\ paths' = (node :> DepPath(PkgOf(node), {})) @@ paths
  /\ promises' = promises @@ Resolve(node, DepPath(PkgOf(node), {}))
  /\ stack' = ReplaceTop(WithoutHead)
  /\ UNCHANGED <<input, nextProject, peersCache, purePkgs, depGraph, calcs, hits, parentsOf, rounds>>

\* What was found for another copy of the package holds here too.
VisitHit(alias, node) ==
  LET fitting == Fitting(RefsBelow(Top.refs, node), PkgOf(node))
  IN  /\ Visiting(alias, node) /\ ~IsKnownPure(node) /\ fitting # <<>>
      /\ hits' = hits \cup {[node |-> node, owner |-> fitting[1].owner]}
      /\ stack' = ReplaceTop(Merged(WithoutHead, alias, fitting[1].resolved, fitting[1].missing))
      /\ UNCHANGED <<input, nextProject, peersCache, purePkgs, paths, promises, depGraph, calcs,
                     parentsOf, rounds>>

\* Otherwise its children come first.
VisitChildren(alias, node) ==
  LET frame == Frame(alias, node, RefsBelow(Top.refs, node))
  IN  /\ Visiting(alias, node) /\ ~IsKnownPure(node)
      /\ Fitting(frame.refs, PkgOf(node)) = <<>>
      /\ stack' = Append(ReplaceTop(WithoutHead), frame)
      /\ parentsOf' = Around(frame) @@ parentsOf
      /\ UNCHANGED <<input, nextProject, peersCache, purePkgs, paths, promises, depGraph, calcs, hits,
                     rounds>>

-----------------------------------------------------------------------------
\* The end of a frame

\* graph-cycles: the nodes on a cycle of peers with the alias
Cyclic(edges, alias) ==
  LET nodes == {e[1] : e \in edges} \cup {e[2] : e \in edges}
      closure == FoldSet(LAMBDA m, E : E \cup {<<x, y>> \in nodes \X nodes : <<x, m>> \in E /\ <<m, y>> \in E},
                         edges, nodes)
  IN  {n \in nodes : <<alias, n>> \in closure /\ <<n, alias>> \in closure}

\* Mutant of OnCycle: cycles are not looked for.
OnNoCycle(frame, alias) == {}

OnCycle(frame, alias) == Cyclic(frame.edges, alias)

\* calculateDepPath, up to its first await: a peer on a cycle with the package
\* is named without its own peers, and its promise is resolved so.
StartedCalcs(frame) ==
  [node \in {c.node : c \in Range(frame.calcs)} |->
     LET c == CHOOSE x \in Range(frame.calcs) : x.node = node
         cyclic == DOMAIN c.pending \cap OnCycle(frame, c.alias)
     IN  [entry |-> c.entry,
          ids |-> c.ids \cup {DepPath(PkgOf(c.pending[n]), {}) : n \in cyclic},
          waits |-> {c.pending[n] : n \in DOMAIN c.pending \ cyclic}]]

BrokenPromises(frame) ==
  LET broken == UNION {{c.pending[n] : n \in DOMAIN c.pending \cap OnCycle(frame, c.alias)} :
                         c \in Range(frame.calcs)}
  IN  [n \in broken \ DOMAIN promises |-> DepPath(PkgOf(n), {})]

\* addDepPathToGraph
Added(graph, path, entry) ==
  IF path \in DOMAIN graph /\ graph[path].depth <= entry.depth THEN graph
  ELSE (path :> entry) @@ graph

\* Mutant of PreviouslyResolvedChildren: they are left out.
NoneResolvedBefore(node) == <<>>

\* The children of the package further up that were cut off here.
PreviouslyResolvedChildren(node) ==
  FoldLeft(LAMBDA kids, i : IF i < Len(node) /\ node[i].pkg = PkgOf(node)
                            THEN kids @@ Kids(SubSeq(node, 1, i)) ELSE kids,
           <<>>, [i \in DOMAIN node |-> i])

\* The peers of a package, found further up or missing, and those that its
\* children did not find among themselves.
Found(frame) ==
  LET p == PkgOf(frame.node)
      own == RestrictNames(frame.refs, input.peers[p])
      unknown == RestrictNames(frame.resolved, DOMAIN frame.resolved \ DOMAIN Kids(frame.node))
      all == [n \in DOMAIN own |-> own[n].node] @@ unknown
      missing == frame.missing \cup (input.peers[p] \ DOMAIN frame.refs)
      kids == [n \in DOMAIN own |-> own[n].node] @@ Kids(frame.node)
              @@ PreviouslyResolvedChildren(frame.node)
  IN  [resolved |-> RestrictNames(all, DOMAIN all \ {Name[p]}), missing |-> missing,
       entry |-> [childrenNodeIds |-> kids, children |-> <<>>, depth |-> Depth(frame.node),
                  peerNames |-> DOMAIN all \ {Name[p]}]]

\* The last child of a package is done: its path is known, unless the path of a
\* peer is not, and what was found goes to the cache.
LeavePackage ==
  LET frame == Top
      node == frame.node
      p == PkgOf(node)
      found == Found(frame)
      known == {n \in DOMAIN found.resolved : found.resolved[n] \in DOMAIN paths}
      ids == {paths[found.resolved[n]] : n \in known}
      pending == RestrictNames(found.resolved, DOMAIN found.resolved \ known)
      path == DepPath(p, ids)
      calc == [alias |-> frame.alias, node |-> node, ids |-> ids, pending |-> pending,
               entry |-> found.entry]
      broken == BrokenPromises(frame)
      parent == Merged(stack[Len(stack) - 1], frame.alias, found.resolved, found.missing)
  IN  /\ Len(stack) > 1 /\ frame.rest = <<>>
      /\ IF found.resolved = <<>> /\ found.missing = {}
         THEN purePkgs' = purePkgs \cup {p} /\ UNCHANGED peersCache
         ELSE /\ peersCache' = [peersCache EXCEPT ![p] = Append(@,
                   [owner |-> node, resolved |-> found.resolved, missing |-> found.missing])]
              /\ UNCHANGED purePkgs
      /\ IF pending = <<>>
         THEN /\ paths' = (node :> path) @@ paths
              /\ promises' = promises @@ broken @@ Resolve(node, path)
              /\ depGraph' = Added(depGraph, path, found.entry)
              /\ stack' = Append(SubSeq(stack, 1, Len(stack) - 2), parent)
         ELSE /\ promises' = promises @@ broken
              /\ stack' = Append(SubSeq(stack, 1, Len(stack) - 2), 
                                [parent EXCEPT !.calcs = Append(@, calc)])
              /\ UNCHANGED <<paths, depGraph>>
      /\ calcs' = StartedCalcs(frame) @@ calcs
      /\ UNCHANGED <<input, nextProject, hits, parentsOf, rounds>>

LeaveProject ==
  /\ Len(stack) = 1 /\ Top.rest = <<>>
  /\ stack' = <<>>
  /\ calcs' = StartedCalcs(Top) @@ calcs
  /\ promises' = promises @@ BrokenPromises(Top)
  /\ UNCHANGED <<input, nextProject, peersCache, purePkgs, paths, depGraph, hits, parentsOf, rounds>>

-----------------------------------------------------------------------------
\* Reactions to promises, at any later await

Calculated(node) ==
  LET c == calcs[node]
      path == DepPath(PkgOf(node), c.ids \cup {promises[w] : w \in c.waits})
  IN  /\ node \in DOMAIN calcs /\ c.waits \subseteq DOMAIN promises
      /\ paths' = (node :> path) @@ paths
      /\ promises' = promises @@ Resolve(node, path)
      /\ depGraph' = Added(depGraph, path, c.entry)
      /\ calcs' = [n \in DOMAIN calcs \ {node} |-> calcs[n]]
      /\ UNCHANGED <<input, nextProject, stack, peersCache, purePkgs, hits, parentsOf, rounds>>

HitKnown(h) ==
  /\ h \in hits /\ h.owner \in DOMAIN paths
  /\ LET path == paths[h.owner]
     IN  /\ paths' = (h.node :> path) @@ paths
         /\ promises' = promises @@ Resolve(h.node, path)
         /\ depGraph' = [depGraph EXCEPT ![path].depth = Min({@, Depth(h.node)})]
  /\ hits' = hits \ {h}
  /\ UNCHANGED <<input, nextProject, stack, peersCache, purePkgs, calcs, parentsOf, rounds>>

-----------------------------------------------------------------------------
\* The end: node ids become paths, compatible copies are merged.

AllDone == nextProject > Len(input.order) /\ stack = <<>> /\ calcs = <<>> /\ hits = {}

Copies == {{d \in DOMAIN depGraph : d.pkg = p} : p \in DOMAIN input.deps}

ResolveChildren ==
  /\ rounds.phase = "none" /\ AllDone
  /\ depGraph' = [d \in DOMAIN depGraph |->
       [depGraph[d] EXCEPT !.childrenNodeIds = <<>>,
          !.children = [a \in DOMAIN depGraph[d].childrenNodeIds |-> paths[depGraph[d].childrenNodeIds[a]]]]]
  /\ LET groups == {g \in Copies : Cardinality(g) > 1}
     IN  rounds' = [rounds EXCEPT !.phase = IF input.dedupe THEN "dedupe" ELSE "done",
                                  !.groups = {[todo |-> g, left |-> g] : g \in groups},
                                  !.all = Cardinality(groups)]
  /\ UNCHANGED <<input, nextProject, stack, peersCache, purePkgs, paths, promises, calcs, hits, parentsOf>>

DepsCount(d) == Cardinality(DOMAIN depGraph[d].children) + Cardinality(depGraph[d].peerNames)

\* Mutant of IsCompatible: the names of the peers are enough.
HasMorePeers(d1, d2) == depGraph[d2].peerNames \subseteq depGraph[d1].peerNames

\* isCompatibleAndHasMoreDeps
IsCompatible(d1, d2) ==
  /\ DepsCount(d1) >= DepsCount(d2)
  /\ Range(depGraph[d2].children) \subseteq Range(depGraph[d1].children)
  /\ depGraph[d2].peerNames \subseteq depGraph[d1].peerNames

\* The copy with the most dependencies takes the compatible ones over.
MergeCopies(g, d) ==
  LET same == {e \in g.todo \ {d} : IsCompatible(d, e)}
      next == [todo |-> g.todo \ ({d} \cup same),
               left |-> IF same = {} THEN g.left ELSE g.left \ ({d} \cup same)]
  IN  /\ rounds.phase = "dedupe" /\ g \in rounds.groups /\ d \in g.todo
      /\ \A e \in g.todo : DepsCount(e) <= DepsCount(d)
      /\ rounds' = [rounds EXCEPT !.groups = (@ \ {g}) \cup (IF next.todo = {} THEN {} ELSE {next}),
                                  !.left = @ \cup (IF next.todo = {} THEN {next.left} \ {{}} ELSE {}),
                                  !.map = [e \in same |-> d] @@ @]
      /\ UNCHANGED <<input, nextProject, stack, peersCache, purePkgs, paths, promises, depGraph, calcs,
                     hits, parentsOf>>

\* A round that emptied no group is the last, and its merges are not applied to
\* the graph; after any other one the children follow and the rest is tried again.
EndRound ==
  LET total == rounds.map @@ rounds.total
      last == Cardinality(rounds.left) = rounds.all
      new(d) == IF d \in DOMAIN rounds.map THEN rounds.map[d] ELSE d
      merged == [d \in DOMAIN depGraph |->
                   [depGraph[d] EXCEPT !.children = [a \in DOMAIN @ |-> new(@[a])]]]
  IN  /\ rounds.phase = "dedupe" /\ rounds.groups = {}
      /\ depGraph' = IF last THEN depGraph ELSE merged
      /\ rounds' = IF last \/ rounds.map = <<>>
                   THEN [rounds EXCEPT !.phase = "done", !.total = total, !.left = {}]
                   ELSE [rounds EXCEPT !.total = total, !.map = <<>>, !.left = {},
                                       !.groups = {[todo |-> g, left |-> g] : g \in rounds.left},
                                       !.all = Cardinality(rounds.left)]
      /\ UNCHANGED <<input, nextProject, stack, peersCache, purePkgs, paths, promises, calcs, hits,
                     parentsOf>>

-----------------------------------------------------------------------------
Visit ==
  /\ stack # <<>> /\ Top.rest # <<>>
  /\ LET v == Head(Top.rest)
     IN  VisitPure(v.alias, v.node) \/ VisitHit(v.alias, v.node) \/ VisitChildren(v.alias, v.node)
Step ==
  \/ StartProject \/ Visit \/ LeavePackage \/ LeaveProject
  \/ \E node \in DOMAIN calcs : Calculated(node)
  \/ \E h \in hits : HitKnown(h)
  \/ ResolveChildren \/ EndRound
  \/ \E g \in rounds.groups : \E d \in g.todo : MergeCopies(g, d)
\* Every project was walked: the process waits for promises, or is done.
Waiting == stack = <<>> /\ nextProject > Len(input.order) /\ UNCHANGED peerVars

Next == Step \/ Waiting
Spec == Init /\ [][Next]_peerVars /\ WF_peerVars(Step)

-----------------------------------------------------------------------------
Nodes == Seq([alias : STRING, pkg : DOMAIN input.deps \cup DOMAIN input.roots])

PeersTypeOK ==
  /\ input \in Inputs
  /\ nextProject \in 1..(Len(input.order) + 1)
  /\ DOMAIN paths \subseteq DOMAIN promises
  /\ DOMAIN promises \cup DOMAIN parentsOf \subseteq Nodes
  /\ \A n \in DOMAIN paths : paths[n].pkg = PkgOf(n) /\ paths[n] \in DOMAIN depGraph
  /\ \A i \in DOMAIN stack : stack[i].node \in Nodes /\ DOMAIN stack[i].refs \subseteq AllPeerNames
  /\ purePkgs \subseteq DOMAIN input.deps /\ DOMAIN peersCache = DOMAIN input.deps
  /\ DOMAIN calcs \subseteq Nodes /\ \A h \in hits : h.node \in Nodes /\ h.owner \in Nodes
  /\ rounds.phase \in {"none", "dedupe", "done"}

Done == rounds.phase = "done"

\* The way from a project to a package, as the packages are required.
RECURSIVE WaysBelow(_)
WaysBelow(way) == {way} \cup UNION {WaysBelow(Append(way, d)) :
  d \in {e \in Range(DepsAt(way)) : \A i \in DOMAIN way : way[i].pkg # e.pkg}}
Ways == UNION {UNION {WaysBelow(<<Dep(p, p), d>>) : d \in Range(input.roots[p])} :
                 p \in Range(input.order)}

\* The copy that a way leads to in the result.
CopyAt(way) ==
  LET direct == paths[NodeOf(<<way[1]>>, way[2])]
  IN  FoldLeft(LAMBDA copy, d : depGraph[copy].children[d.alias],
               IF direct \in DOMAIN rounds.total THEN rounds.total[direct] ELSE direct,
               SubSeq(way, 3, Len(way)))

\* What is provided where a way ends, by the packages and the project on it.
RECURSIVE RefsAt(_)
RefsAt(way) ==
  IF Len(way) = 1 THEN RootRefs(CHOOSE i \in DOMAIN input.order : input.order[i] = way[1].pkg)
  ELSE RefsBelow(RefsAt(Front(way)), way)

NoCycle(edges) ==
  LET packages == DOMAIN input.deps
      closure == FoldSet(LAMBDA m, E : E \cup {<<x, y>> \in packages \X packages :
                                                  <<x, m>> \in E /\ <<m, y>> \in E},
                         edges, packages)
  IN  \A p \in packages : <<p, p>> \notin closure
DepEdges == UNION {{<<p, d.pkg>> : d \in Range(input.deps[p])} : p \in DOMAIN input.deps}
PeerEdges == {<<p, q>> \in (DOMAIN input.deps) \X DOMAIN input.deps : Name[q] \in input.peers[p]}

\* A copy has all its dependencies, the one where a cycle was cut off too, and
\* every way leads to the package it names, through copies that are there.
GraphIsWhole == Done =>
  /\ \A d \in DOMAIN depGraph :
       /\ {e.alias : e \in Range(input.deps[d.pkg])} \subseteq DOMAIN depGraph[d].children
       /\ Range(depGraph[d].children) \subseteq DOMAIN depGraph
  /\ \A way \in Ways : CopyAt(way).pkg = PkgOf(way)

\* A package gets a peer from the nearest one on its way that provides it, or
\* from the project: never another version that a copy found elsewhere was
\* resolved with, and none where there is none, unless copies are merged.
PeersAreNearest == Done /\ NoCycle(DepEdges) =>
  \A way \in Ways : \A peer \in input.peers[PkgOf(way)] :
    LET refs == RefsAt(way)
        kids == depGraph[CopyAt(way)].children
    IN  IF peer \in DOMAIN refs THEN peer \in DOMAIN kids /\ kids[peer].pkg = PkgOf(refs[peer].node)
        ELSE input.dedupe \/ peer \notin DOMAIN kids

\* And the very copy of it that the provider uses, so that both see one
\* instance of the peer.
PeersAreShared == Done /\ NoCycle(DepEdges) /\ NoCycle(PeerEdges) =>
  \A way \in Ways : \A peer \in input.peers[PkgOf(way)] :
    LET refs == RefsAt(way)
        node == refs[peer].node
    IN  peer \in DOMAIN refs =>
          depGraph[CopyAt(way)].children[peer] =
            IF IsLeaf(PkgOf(node)) THEN DepPath(PkgOf(node), {}) ELSE CopyAt(node)

\* The computations of paths that wait for each other all end: the resolution
\* ends, on cycles of peers too.
PeersEnded == Done
=============================================================================

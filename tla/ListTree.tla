------------------------------ MODULE ListTree ------------------------------
\* reviewing/dependencies-hierarchy: the trees of pnpm list and pnpm why, made
\* with a cache of what was walked before.
EXTENDS Naturals, Integers, FiniteSets, Sequences, SequencesExt, TLC

\* graph: project or package -> its dependencies, [name, id, peer], the id
\* Outside for a link that leaves the workspace.  opts: [projects, maxDepth,
\* searching, search, excludePeers, onlyProjects], search being the names that
\* are looked for.
Outside == "outside"
Unknown == -1

NoCache == [full |-> <<>>, partial |-> <<>>]

\* A result of all depths serves where it is not too high, one of a depth there.
CacheGet(cache, id, depth) ==
  CASE id \in DOMAIN cache.full /\ cache.full[id].height <= depth -> <<cache.full[id]>>
    [] ~(id \in DOMAIN cache.full /\ cache.full[id].height <= depth)
         /\ <<id, depth>> \in DOMAIN cache.partial ->
         <<[dependencies |-> cache.partial[<<id, depth>>], height |-> Unknown, circular |-> FALSE]>>
    [] OTHER -> <<>>

CacheAdd(cache, id, depth, children) ==
  CASE children.circular -> cache
    [] ~children.circular /\ children.height = Unknown ->
         [cache EXCEPT !.partial = (<<id, depth>> :> children.dependencies) @@ @]
    [] OTHER -> [cache EXCEPT !.full = (id :> children) @@ @]

Higher(height, child) ==
  IF Unknown \in {height, child} THEN Unknown
  ELSE IF child + 1 > height THEN child + 1 ELSE height

\* The entry of a child with these dependencies; none if it was not asked for.
NewEntry(opts, child, dependencies, circular) ==
  LET matched == opts.searching /\ child.name \in opts.search
  IN  IF (dependencies # <<>> \/ ~opts.searching \/ matched)
         /\ ~(child.peer /\ opts.excludePeers /\ dependencies = <<>>)
      THEN <<[name |-> child.name, dependencies |-> dependencies, circular |-> circular, searched |-> matched]>>
      ELSE <<>>

\* The tree below a parent, with the cache after: [dependencies, height,
\* circular, cache].  A child that closes a circle says so only if it is shown.
RECURSIVE GetTreeHelper(_, _, _, _, _, _)
GetTreeHelper(graph, opts, cache, depth, keypath, parent) ==
  LET Nothing(height) == [dependencies |-> <<>>, height |-> height, circular |-> FALSE, cache |-> cache]
      AddChild(acc, child) ==
        LET inCircle == \E i \in DOMAIN keypath : keypath[i] = child.id
            hit == CacheGet(acc.cache, child.id, depth - 1)
            walked == IF hit # <<>> THEN hit[1] @@ [cache |-> acc.cache]
                      ELSE GetTreeHelper(graph, opts, acc.cache, depth - 1, Append(keypath, child.id), child.id)
            below == [f \in {"dependencies", "height", "circular"} |-> walked[f]]
            entry == NewEntry(opts, child, IF inCircle \/ child.id = Outside THEN <<>> ELSE below.dependencies,
                              inCircle)
        IN  CASE opts.onlyProjects /\ child.id \notin opts.projects -> acc
              [] ~(opts.onlyProjects /\ child.id \notin opts.projects) /\ (child.id = Outside \/ inCircle) ->
                   [acc EXCEPT !.dependencies = @ \o entry,
                               !.circular = @ \/ (inCircle /\ entry # <<>>)]
              [] OTHER ->
                   [dependencies |-> acc.dependencies \o entry,
                    height |-> Higher(acc.height, below.height),
                    circular |-> acc.circular \/ below.circular,
                    cache |-> IF hit = <<>> THEN CacheAdd(walked.cache, child.id, depth - 1, below)
                              ELSE acc.cache]
  IN  CASE depth <= 0 -> Nothing(Unknown)
        [] depth > 0 /\ parent \notin DOMAIN graph -> Nothing(0)
        [] OTHER -> FoldLeft(AddChild, Nothing(0), graph[parent])

\* The dependencies of a project, each with the tree below it.
DependenciesHierarchy(graph, opts, project) ==
  LET Top(child) ==
        CASE opts.onlyProjects /\ child.id \notin opts.projects -> <<>>
          [] ~opts.onlyProjects /\ child.id = Outside -> NewEntry([opts EXCEPT !.excludePeers = FALSE], child, <<>>, FALSE)
          [] OTHER -> NewEntry([opts EXCEPT !.excludePeers = FALSE], child,
                        GetTreeHelper(graph, opts, NoCache, opts.maxDepth, <<child.id>>, child.id).dependencies, FALSE)
  IN  FlattenSeq([i \in DOMAIN graph[project] |-> Top(graph[project][i])])

-----------------------------------------------------------------------------
\* The tree as it is without a cache: all paths that do not come back.
RECURSIVE Paths(_, _, _, _)
Paths(graph, opts, keypath, parent) ==
  LET allowed == {i \in DOMAIN (IF parent \in DOMAIN graph THEN graph[parent] ELSE <<>>) :
                    opts.onlyProjects => graph[parent][i].id \in opts.projects}
      Children(i) == graph[parent][i]
  IN  IF Len(keypath) > opts.maxDepth THEN {}
      ELSE UNION {{<<Children(i).name>>} \cup
             (IF Children(i).id \in ToSet(keypath) \cup {Outside} THEN {}
              ELSE {<<Children(i).name>> \o rest :
                      rest \in Paths(graph, opts, Append(keypath, Children(i).id), Children(i).id)}) :
             i \in allowed}

\* The paths to the entries of a tree.
RECURSIVE Shown(_)
Shown(dependencies) ==
  UNION {{<<dependencies[i].name>>} \cup
           {<<dependencies[i].name>> \o rest : rest \in Shown(dependencies[i].dependencies)} :
         i \in DOMAIN dependencies}

OnACycle(graph) ==
  LET Next(nodes) == nodes \cup UNION {{c.id : c \in ToSet(graph[p])} : p \in nodes \cap DOMAIN graph}
      reach[n \in 0 .. Cardinality(DOMAIN graph)] ==
        [p \in DOMAIN graph |-> IF n = 0 THEN {c.id : c \in ToSet(graph[p])} ELSE Next(reach[n - 1][p])]
  IN  {p \in DOMAIN graph : p \in reach[Cardinality(DOMAIN graph)][p]}

\* Looked up or walked, the tree is the same, to the depth that was asked for
\* and no deeper; pnpm why shows every path to what is looked for and nothing
\* else: where nothing is searched for or there are no cycles (a cycle that is
\* not shown is cached as if it ended there, getTree.ts:211-219), and without
\* links that leave the workspace (they have no height).
TreeIsExact(graph, opts, project, hierarchy) ==
  LET all == UNION {{<<c.name>>} \cup {<<c.name>> \o rest : rest \in Paths(graph, opts, <<c.id>>, c.id)} :
                      c \in {c \in ToSet(graph[project]) : opts.onlyProjects => c.id \in opts.projects}}
      Found(p) == \E whole \in all : IsPrefix(p, whole) /\ whole[Len(whole)] \in opts.search
      outside == \E p \in DOMAIN graph : \E c \in ToSet(graph[p]) : c.id = Outside
  IN  ~opts.excludePeers /\ ~outside /\ (opts.searching => OnACycle(graph) = {}) =>
        Shown(hierarchy) = IF opts.searching THEN {p \in all : Found(p)} ELSE all

\* What is shown of a search is there: every branch ends in what was looked for.
SearchedIsThere(graph, opts, project, hierarchy) ==
  LET shown == Shown(hierarchy)
  IN  opts.searching =>
        \A p \in shown : \E q \in shown : IsPrefix(p, q) /\ q[Len(q)] \in opts.search
=============================================================================

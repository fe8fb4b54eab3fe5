---------------------------- MODULE ProjectFilter ----------------------------
\* workspace/filter-workspace-packages: the projects that --filter and
\* --filter-prod select.
EXTENDS Naturals, FiniteSets, Sequences, FiniteSetsExt, SequencesExt

CONSTANT Above  \* directory -> the directories that it is in, itself included

\* A workspace is [graph, prodGraph]: project -> the projects it depends on,
\* with and without its devDependencies; projects are directories.
\* A selector is [exclude, excludeSelf, includeDependencies, includeDependents,
\* prod, named, pattern, parentDir, diff, files]: named and diff say whether there
\* is a pattern and a commit to compare with, parentDir may be "any"; files are
\* what git says that changed since, [dir, test].

RECURSIVE PickSubgraph(_, _, _, _)
PickSubgraph(graph, nextNodeIds, walked, includeRoot) ==
  FoldSet(LAMBDA n, w :
            IF n \in w THEN w
            ELSE PickSubgraph(graph, graph[n], w \cup (IF includeRoot THEN {n} ELSE {}), TRUE),
          walked, nextNodeIds)

ReverseGraph(graph) == [n \in DOMAIN graph |-> {m \in DOMAIN graph : n \in graph[m]}]

\* A pattern is [plain, scoped, hasScope]: the projects with such a name, those
\* with a scope before such a name, and whether it has a scope or a slash.
MatchPackages(projects, pattern) ==
  LET scoped == projects \cap pattern.scoped
  IN  CASE projects \cap pattern.plain # {} \/ pattern.hasScope -> projects \cap pattern.plain
        [] OTHER -> IF Cardinality(scoped) = 1 THEN scoped ELSE {}

\* A change belongs to the innermost project around it.
ProjectAround(projects, dir) ==
  {p \in projects \cap Above[dir] : \A q \in projects \cap Above[dir] : q \in Above[p]}

\* A project with changes of tests only is selected without its dependents.
GetChangedPackages(projects, files) ==
  LET source == UNION {ProjectAround(projects, f.dir) : f \in {f \in files : ~f.test}}
      test == UNION {ProjectAround(projects, f.dir) : f \in {f \in files : f.test}}
  IN  [source |-> source, test |-> test \ source]

EntryPackages(projects, s) ==
  LET placed == CASE s.diff -> GetChangedPackages(projects, s.files).source
                  [] ~s.diff /\ s.parentDir # "any" -> {p \in projects : s.parentDir \in Above[p]}
                  [] OTHER -> projects
  IN  IF s.named THEN MatchPackages(placed, s.pattern) ELSE placed

\* What has been walked is remembered from one selector to the next.
SelectEntries(graph, s, includeDependents, entries, walked) ==
  LET up == IF includeDependents
            THEN PickSubgraph(ReverseGraph(graph), entries, walked.dependents, ~s.excludeSelf)
            ELSE walked.dependents
  IN  [dependencies |-> IF s.includeDependencies
         THEN PickSubgraph(graph, entries, walked.dependencies, ~s.excludeSelf)
         ELSE walked.dependencies,
       dependents |-> up,
       both |-> IF s.includeDependencies /\ includeDependents
         THEN PickSubgraph(graph, up, walked.both, FALSE) ELSE walked.both,
       picked |-> IF s.includeDependencies \/ includeDependents
         THEN walked.picked ELSE walked.picked \cup entries]

FilterGraph(graph, selectors) ==
  LET projects == DOMAIN graph
      Select(walked, s) ==
        SelectEntries(graph, s, s.includeDependents, EntryPackages(projects, s),
          IF s.diff
          THEN SelectEntries(graph, s, FALSE, GetChangedPackages(projects, s.files).test, walked)
          ELSE walked)
      walked == FoldLeft(Select,
        [dependencies |-> {}, dependents |-> {}, both |-> {}, picked |-> {}], selectors)
  IN  walked.dependencies \cup walked.dependents \cup walked.both \cup walked.picked

FilterWorkspacePackages(graph, selectors) ==
  LET Exclude(s) == s.exclude
      Include(s) == ~s.exclude
      include == SelectSeq(selectors, Include)
  IN  (IF include = <<>> THEN DOMAIN graph ELSE FilterGraph(graph, include))
      \ FilterGraph(graph, SelectSeq(selectors, Exclude))

FilterPkgsBySelectorObjects(workspace, selectors) ==
  LET Prod(s) == s.prod
      All(s) == ~s.prod
      prod == SelectSeq(selectors, Prod)
      all == SelectSeq(selectors, All)
  IN  IF selectors = <<>> THEN DOMAIN workspace.graph
      ELSE (IF all = <<>> THEN {} ELSE FilterWorkspacePackages(workspace.graph, all))
           \cup (IF prod = <<>> THEN {} ELSE FilterWorkspacePackages(workspace.prodGraph, prod))

-----------------------------------------------------------------------------
\* What can be reached in at least `least` steps.
Reached(graph, from, least) ==
  LET steps[n \in 0 .. Cardinality(DOMAIN graph)] ==
        IF n = 0 THEN (IF least = 0 THEN from ELSE UNION {graph[p] : p \in from})
        ELSE steps[n - 1] \cup UNION {graph[p] : p \in steps[n - 1]}
  IN  steps[Cardinality(DOMAIN graph)]

\* What one selector means, whatever stands beside it.
Meaning(graph, s) ==
  LET entries == EntryPackages(DOMAIN graph, s)
      least == IF s.excludeSelf THEN 1 ELSE 0
      up == IF s.includeDependents THEN Reached(ReverseGraph(graph), entries, least) ELSE {}
      tests == IF s.diff THEN GetChangedPackages(DOMAIN graph, s.files).test ELSE {}
  IN  up \cup (IF ~s.includeDependencies THEN {}
               ELSE Reached(graph, entries, least) \cup Reached(graph, tests, least)
                    \cup (IF s.includeDependents THEN Reached(graph, up, 1) ELSE {}))
      \cup (IF s.includeDependencies THEN {} ELSE tests)
      \cup (IF s.includeDependencies \/ s.includeDependents THEN {} ELSE entries)

\* The order of the filters does not matter and each selects what it means, the
\* excluding ones against the others of their kind; but where a selector asks
\* for dependents and their dependencies ("...a..."), those of dependents that
\* earlier selectors asked for are selected, too (index.ts:268).
SelectionIsMeant(workspace, selectors, selected) ==
  LET Means(graph, chosen) == UNION {Meaning(graph, s) : s \in chosen}
      Wanted(graph, chosen) ==
        LET include == {s \in chosen : ~s.exclude}
        IN  (IF include = {} THEN DOMAIN graph ELSE Means(graph, include))
            \ Means(graph, chosen \ include)
      Of(prod) == {s \in ToSet(selectors) : s.prod = prod}
      wanted == (IF Of(FALSE) = {} THEN {} ELSE Wanted(workspace.graph, Of(FALSE)))
                \cup (IF Of(TRUE) = {} THEN {} ELSE Wanted(workspace.prodGraph, Of(TRUE)))
      shared == \E i, j \in DOMAIN selectors : i < j /\ selectors[i].includeDependents
                  /\ selectors[j].includeDependents /\ selectors[j].includeDependencies
  IN  selectors # <<>> /\ ~shared => selected = wanted

\* A project that a command leaves out has no dependent, or dependency, in the
\* selection by a filter that asked for those of the dependent: whoever is
\* selected with "a..." comes with all it depends on, over any number of steps.
SelectionIsClosed(workspace, selectors, selected) ==
  (\A i \in DOMAIN selectors : selectors[i].includeDependencies /\ ~selectors[i].exclude
                               /\ ~selectors[i].prod) =>
    \A p \in selected : workspace.graph[p] \subseteq selected
=============================================================================

-------------------------------- MODULE Hoist --------------------------------
\* lockfile/walker and pkg-manager/hoist: which dependencies of dependencies are
\* linked at the root, so that packages find what they did not declare.
EXTENDS Naturals, Integers, FiniteSets, Sequences, SequencesExt

CONSTANT Lower  \* alias -> the alias in lower case

\* A lockfile is [importers, packages, specifiers]: the direct dependencies of
\* the projects one after the other, package -> its dependencies, both as
\* sequences of [alias, to], and the aliases of the root project.  Packages are
\* numbers in the order of their paths; `to` may be Linked, or the path of a
\* package that is not there (a skipped one).
Linked == 0
Root == -1

Targets(deps) == SelectSeq([i \in DOMAIN deps |-> deps[i].to], LAMBDA p : p # Linked)

\* What of `next` was not walked yet: [deps, walked].
WalkStep(packages, walked, next) ==
  FoldLeft(LAMBDA s, p :
      CASE p \in s.walked -> s
        [] p \notin s.walked /\ p \notin DOMAIN packages -> [s EXCEPT !.walked = @ \cup {p}]
        [] OTHER -> [deps |-> Append(s.deps, p), walked |-> s.walked \cup {p}],
    [deps |-> <<>>, walked |-> walked], next)

\* All of a step go on by one before the first of them goes on deeper.
RECURSIVE GetDependencies(_, _, _)
GetDependencies(packages, depth, step) ==
  LET nexts == FoldLeft(LAMBDA acc, p :
          LET s == WalkStep(packages, acc.walked, Targets(packages[p]))
          IN  [steps |-> Append(acc.steps, s.deps), walked |-> s.walked],
        [steps |-> <<>>, walked |-> step.walked], step.deps)
  IN  FoldLeft(LAMBDA acc, deps :
          LET r == GetDependencies(packages, depth + 1, [deps |-> deps, walked |-> acc.walked])
          IN  [nodes |-> acc.nodes \o r.nodes, walked |-> r.walked],
        [nodes |-> [i \in DOMAIN step.deps |->
                      [path |-> step.deps[i], depth |-> depth, children |-> packages[step.deps[i]]]],
         walked |-> nexts.walked],
        nexts.steps)

\* The root, whose children are the projects that are hoisted, by their names,
\* and the direct dependencies: the first of an alias, which replaces a project.
RootNode(lockfile, projects) ==
  LET FirstOf(deps) ==
        FoldLeft(LAMBDA acc, d : IF \E i \in DOMAIN acc : acc[i].alias = d.alias THEN acc ELSE Append(acc, d),
                 <<>>, deps)
      direct == FirstOf(SelectSeq(lockfile.importers, LAMBDA d : d.to # Linked))
      Direct(alias) == SelectSeq(direct, LAMBDA d : d.alias = alias)
  IN  [path |-> Root, depth |-> -1,
       children |->
         [i \in DOMAIN projects |->
            IF Direct(projects[i].alias) # <<>> THEN Direct(projects[i].alias)[1] ELSE projects[i]]
         \o SelectSeq(direct, LAMBDA d : \A i \in DOMAIN projects : projects[i].alias # d.alias)]

\* type: alias -> "public", "private" or "none".  What is hoisted: [alias, to, type].
HoistGraph(nodes, specifiers, type) ==
  LET Before(a, b) == a.depth < b.depth \/ (a.depth = b.depth /\ a.path < b.path)
      HoistChild(acc, d) ==
        IF type[d.alias] = "none" \/ Lower[d.alias] \in acc.aliases THEN acc
        ELSE [aliases |-> acc.aliases \cup {Lower[d.alias]},
              hoisted |-> acc.hoisted \cup {[alias |-> d.alias, to |-> d.to, type |-> type[d.alias]]}]
  IN  FoldLeft(LAMBDA acc, n : FoldLeft(HoistChild, acc, n.children),
               [aliases |-> specifiers, hoisted |-> {}], SortSeq(nodes, Before)).hoisted

GetHoistedDependencies(lockfile, projects, type) ==
  LET first == WalkStep(lockfile.packages, {}, Targets(lockfile.importers))
      walked == GetDependencies(lockfile.packages, 0, first)
  IN  HoistGraph(<<RootNode(lockfile, projects)>> \o walked.nodes, lockfile.specifiers, type)

-----------------------------------------------------------------------------
\* The packages that the direct dependencies reach in n steps or fewer.
Within(lockfile, n) ==
  LET steps[i \in 0 .. n] ==
        IF i = 0 THEN ToSet(Targets(lockfile.importers)) \cap DOMAIN lockfile.packages
        ELSE steps[i - 1] \cup (DOMAIN lockfile.packages
               \cap UNION {ToSet(Targets(lockfile.packages[p])) : p \in steps[i - 1]})
  IN  steps[n]
ChildrenOf(lockfile, packages) == UNION {ToSet(lockfile.packages[p]) : p \in packages}

\* There is one link of a name at the root, on file systems that do not tell
\* cases apart, too, and every alias that any package depends on and a pattern
\* matches has one, unless the root has it itself.
HoistedOnce(lockfile, projects, type, hoisted) ==
  LET reached == Within(lockfile, Cardinality(DOMAIN lockfile.packages))
      all == ChildrenOf(lockfile, reached) \cup ToSet(RootNode(lockfile, projects).children)
  IN  /\ \A h, o \in hoisted : h # o => Lower[h.alias] # Lower[o.alias]
      /\ \A h \in hoisted : Lower[h.alias] \notin lockfile.specifiers
      /\ {Lower[h.alias] : h \in hoisted} =
           {Lower[d.alias] : d \in {d \in all : type[d.alias] # "none"}} \ lockfile.specifiers

\* A package at the root is the one that the projects depend on, or else the one
\* that a direct dependency depends on, the first in the order of paths: the
\* order of the projects and of the walk does not matter.
HoistedIsNearest(lockfile, projects, type, hoisted) ==
  LET direct == Within(lockfile, 0)
      root == {d.alias : d \in ToSet(RootNode(lockfile, projects).children)}
      next == {d.alias : d \in ChildrenOf(lockfile, direct)}
      Unlike(h) == \A a \in root \cup next : Lower[a] = Lower[h.alias] => a = h.alias
  IN  \A h \in hoisted : Unlike(h) =>
        /\ h.alias \in root => h.to \in {d.to : d \in ToSet(RootNode(lockfile, projects).children)}
        /\ h.alias \in next \ root =>
             LET having == {p \in direct : \E d \in ToSet(lockfile.packages[p]) : d.alias = h.alias}
                 first == CHOOSE p \in having : \A q \in having : p <= q
             IN  [alias |-> h.alias, to |-> h.to] \in ToSet(lockfile.packages[first])
=============================================================================

---------------------------- MODULE LockfileMerge ----------------------------
\* lockfile/merger: one lockfile of the two sides of a conflict in git.
EXTENDS Naturals, FiniteSets, TLC

\* A lockfile is [importers, specifiers, packages]: project -> alias -> a
\* version [v, peers], project -> alias -> specifier, and path <<alias, v, peers>>
\* -> alias -> version: dependencies and optionalDependencies are alike.

NoEntry == <<>>
At(f, key) == IF key \in DOMAIN f THEN f[key] ELSE NoEntry

TakeChangedValue(our, their) == their

\* The peers do not count: of the same version it is theirs.
MergeVersions(our, their) == IF our.v > their.v THEN our ELSE their

\* of: whether versions or specifiers are merged.
MergeDict(ours, theirs, of) ==
  [key \in DOMAIN ours \cup DOMAIN theirs |->
     CASE key \notin DOMAIN theirs -> ours[key]
       [] key \notin DOMAIN ours -> theirs[key]
       [] OTHER -> IF of = "versions" THEN MergeVersions(ours[key], theirs[key])
                   ELSE TakeChangedValue(ours[key], theirs[key])]

MergeLockfileChanges(ours, theirs) ==
  LET MergeEach(field, of) ==
        [key \in DOMAIN ours[field] \cup DOMAIN theirs[field] |->
           MergeDict(At(ours[field], key), At(theirs[field], key), of)]
  IN  [importers |-> MergeEach("importers", "versions"),
       specifiers |-> MergeEach("specifiers", "specifiers"),
       packages |-> MergeEach("packages", "versions")]

-----------------------------------------------------------------------------
PathOf(alias, version) == <<alias, version.v, version.peers>>
IsClosed(lockfile) ==
  LET Found(deps) == \A alias \in DOMAIN deps : PathOf(alias, deps[alias]) \in DOMAIN lockfile.packages
  IN  /\ \A i \in DOMAIN lockfile.importers : Found(lockfile.importers[i])
      /\ \A p \in DOMAIN lockfile.packages : Found(lockfile.packages[p])

\* The merge of two lockfiles that can be installed can be installed: no
\* reference is left without its package, and nothing that one of them has
\* gets lost; no version goes back behind either side.
MergeIsWhole(ours, theirs, merged) ==
  LET NotBehind(side) ==
        \A i \in DOMAIN side.importers : \A alias \in DOMAIN side.importers[i] :
          merged.importers[i][alias].v >= side.importers[i][alias].v
  IN  /\ IsClosed(ours) /\ IsClosed(theirs) => IsClosed(merged)
      /\ NotBehind(ours) /\ NotBehind(theirs)
      /\ \A i \in DOMAIN merged.importers : DOMAIN merged.importers[i] = DOMAIN merged.specifiers[i]
=============================================================================

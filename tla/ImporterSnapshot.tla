-------------------------- MODULE ImporterSnapshot --------------------------
\* What an install writes into the lockfile for a project, and how the next one
\* tells that the lockfile still fits: resolve-dependencies (getWantedDependencies,
\* addDirectDependenciesToLockfile) and lockfile/verification.
EXTENDS Naturals, FiniteSets, TLC

CONSTANTS LinkSpecs,      \* specifiers that begin with link:
          WorkspaceSpecs  \* and with workspace:

\* A manifest is alias -> specifier by field; a snapshot has the specifiers, and
\* by field alias -> "link" or "pkg".
DependenciesFields == {"optionalDependencies", "dependencies", "devDependencies"}

GetAllDependenciesFromManifest(m) == m.optionalDependencies @@ m.dependencies @@ m.devDependencies

\* The field that counts of an alias that is in several.
DependencyTypeOf(m, alias) ==
  CASE alias \in DOMAIN m.optionalDependencies -> "optionalDependencies"
    [] alias \in DOMAIN m.dependencies \ DOMAIN m.optionalDependencies -> "dependencies"
    [] alias \in DOMAIN m.devDependencies \ (DOMAIN m.dependencies \cup DOMAIN m.optionalDependencies) ->
         "devDependencies"
    [] OTHER -> "dependencies"

GetWantedDependencies(m, autoInstallPeers) ==
  LET wanted == GetAllDependenciesFromManifest(m) @@ (IF autoInstallPeers THEN m.peerDependencies ELSE <<>>)
  IN  [alias \in DOMAIN wanted |-> [pref |-> wanted[alias], type |-> DependencyTypeOf(m, alias)]]

\* With autoInstallPeers, peers become dependencies before the lockfile is written.
UpdatedManifest(m, autoInstallPeers) ==
  LET all == GetAllDependenciesFromManifest(m)
      missing == [alias \in DOMAIN m.peerDependencies \ DOMAIN all |-> m.peerDependencies[alias]]
  IN  IF autoInstallPeers THEN [m EXCEPT !.dependencies = @ @@ missing] ELSE m

\* resolved: alias -> whether it became a link, of those that were resolved (an
\* optional one may not be).
AddDirectDependenciesToLockfile(m, previous, resolved, excludeLinksFromLockfile) ==
  LET specs == GetAllDependenciesFromManifest(m)
      new == {alias \in DOMAIN specs \cap DOMAIN resolved :
                ~excludeLinksFromLockfile \/ ~resolved[alias] \/ specs[alias] \in WorkspaceSpecs}
      old == (DOMAIN specs \ new) \cap DOMAIN previous.specifiers
      linked == {alias \in DOMAIN specs \cap DOMAIN resolved : resolved[alias]}
      kept == [alias \in old |-> previous.specifiers[alias]]
      refs == [alias \in new |-> IF resolved[alias] THEN "link" ELSE "pkg"]
              @@ [alias \in {a \in old : \E f \in DependenciesFields : a \in DOMAIN previous[f]} |->
                    previous[CHOOSE f \in DependenciesFields : alias \in DOMAIN previous[f]][alias]]
      Of(field) == [alias \in {a \in DOMAIN refs : DependencyTypeOf(m, a) = field} |-> refs[alias]]
  IN  [specifiers |-> [alias \in new |-> specs[alias]] @@ kept @@ [alias \in linked |-> specs[alias]],
       optionalDependencies |-> Of("optionalDependencies"), dependencies |-> Of("dependencies"),
       devDependencies |-> Of("devDependencies")]

SatisfiesPackageManifest(snapshot, manifest, opts) ==
  LET NonLinked(specs) ==
        IF opts.excludeLinksFromLockfile
        THEN [alias \in {a \in DOMAIN specs : specs[a] \notin LinkSpecs} |-> specs[alias]] ELSE specs
      m == UpdatedManifest(manifest, opts.autoInstallPeers)
      Names(field) ==
        LET names == DOMAIN NonLinked(m[field])
        IN  CASE field = "optionalDependencies" -> names
              [] field = "dependencies" -> names \ DOMAIN m.optionalDependencies
              [] field = "devDependencies" -> names \ (DOMAIN m.optionalDependencies \cup DOMAIN m.dependencies)
      Fits(field) ==
        LET refs == snapshot[field]
        IN  /\ Cardinality(Names(field)) \in
                 {Cardinality(DOMAIN refs), Cardinality({a \in DOMAIN refs : refs[a] # "link"})}
            /\ \A alias \in Names(field) :
                 /\ alias \in DOMAIN refs /\ alias \in DOMAIN snapshot.specifiers
                 /\ snapshot.specifiers[alias] = m[field][alias]
  IN  /\ NonLinked(GetAllDependenciesFromManifest(m)) = NonLinked(snapshot.specifiers)
      /\ \A field \in DependenciesFields : Fits(field)

\* An install of one manifest after another one.
InstallBoth(first, second, opts) ==
  LET empty == [specifiers |-> <<>>, optionalDependencies |-> <<>>, dependencies |-> <<>>, devDependencies |-> <<>>]
      Write(m, previous) ==
        LET wanted == GetWantedDependencies(m, opts.autoInstallPeers)
            resolved == [alias \in DOMAIN wanted |->
                           wanted[alias].pref \in LinkSpecs \cup WorkspaceSpecs \cup opts.linked]
        IN  AddDirectDependenciesToLockfile(UpdatedManifest(m, opts.autoInstallPeers), previous, resolved,
                                            opts.excludeLinksFromLockfile)
      written == Write(first, empty)
  IN  [first |-> written, second |-> Write(second, written)]

-----------------------------------------------------------------------------
\* What was written for a manifest satisfies it, whatever was there before: the
\* next install has nothing to resolve; but an alias that became link: while
\* links are excluded keeps its old entry (index.ts:383).
WrittenSatisfies(first, second, opts, written) ==
  LET before == GetAllDependenciesFromManifest(UpdatedManifest(first, opts.autoInstallPeers))
      after == GetAllDependenciesFromManifest(UpdatedManifest(second, opts.autoInstallPeers))
      excluded == {a \in DOMAIN before \cap DOMAIN after :
                     opts.excludeLinksFromLockfile /\ after[a] # before[a]
                     /\ after[a] \in LinkSpecs \cup opts.linked}
  IN  /\ SatisfiesPackageManifest(written.first, first, opts)
      /\ excluded = {} => SatisfiesPackageManifest(written.second, second, opts)

\* A lockfile that was written for one manifest satisfies another one only if
\* the other wants the same: no edit of a specifier, and no move to another
\* field, goes unnoticed, but that of a link while links are excluded.
EditsAreNoticed(first, second, opts, written) ==
  LET Wanted(m) ==
        LET wanted == GetWantedDependencies(m, opts.autoInstallPeers)
        IN  [alias \in {a \in DOMAIN wanted : opts.excludeLinksFromLockfile => wanted[a].pref \notin LinkSpecs} |->
               wanted[alias]]
  IN  SatisfiesPackageManifest(written.first, second, opts) => Wanted(first) = Wanted(second)
=============================================================================

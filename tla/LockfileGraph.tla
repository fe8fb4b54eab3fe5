---------------------------- MODULE LockfileGraph ----------------------------
\* What is computed over the graph of a lockfile: lockfile/pruner (the packages
\* that are left and which are optional), lockfile/detect-dep-types (which are
\* for development only) and lockfile/filtering (what is installed for some
\* projects on this machine, and what is skipped).
EXTENDS Naturals, FiniteSets, Sequences, SequencesExt, TLC

\* A lockfile is [order, importers, packages]: the project ids, and by project
\* and by package the references of each of its fields, in their order.  A
\* reference is the path of a package or the id of a linked project.

Groups == {"dependencies", "devDependencies", "optionalDependencies"}

\* The references that the projects have in a field.
DirectDeps(lockfile, ids, field) ==
  FlattenSeq([i \in DOMAIN ids |-> lockfile.importers[ids[i]][field]])

-----------------------------------------------------------------------------
\* lockfile/pruner.  ctx: [walked, nonOptional, optional, copied].

RECURSIVE CopyDependencySubGraph(_, _, _, _)
CopyDependencySubGraph(packages, ctx, depPaths, optional) ==
  FoldLeft(LAMBDA c, p :
      IF <<p, optional>> \in c.walked \/ p \notin DOMAIN packages THEN c
      ELSE LET marked == optional /\ p \notin c.nonOptional
               visited == [walked |-> c.walked \cup {<<p, optional>>},
                           copied |-> c.copied \cup {p},
                           nonOptional |-> IF marked THEN c.nonOptional ELSE c.nonOptional \cup {p},
                           optional |-> IF marked THEN c.optional \cup {p} ELSE c.optional \ {p}]
           IN  CopyDependencySubGraph(packages,
                 CopyDependencySubGraph(packages, visited, packages[p].dependencies, optional),
                 packages[p].optionalDependencies, TRUE),
    ctx, depPaths)

\* The packages that stay and those of them that are marked as optional.
CopyPackageSnapshots(lockfile) ==
  LET Copy(ctx, field) == CopyDependencySubGraph(lockfile.packages, ctx,
        DirectDeps(lockfile, lockfile.order, field), field = "optionalDependencies")
  IN  FoldLeft(Copy, [walked |-> {}, nonOptional |-> {}, optional |-> {}, copied |-> {}],
        <<"devDependencies", "optionalDependencies", "dependencies">>)

-----------------------------------------------------------------------------
\* lockfile/detect-dep-types.  ctx: [walked, types].

RECURSIVE DetectDepTypesInSubGraph(_, _, _, _)
DetectDepTypesInSubGraph(packages, ctx, depPaths, dev) ==
  FoldLeft(LAMBDA c, p :
      IF <<p, dev>> \in c.walked \/ p \notin DOMAIN packages THEN c
      ELSE LET type == CASE dev -> "DevOnly"
                         [] ~dev /\ p \in DOMAIN c.types ->
                              IF c.types[p] = "DevOnly" THEN "DevAndProd" ELSE c.types[p]
                         [] OTHER -> "ProdOnly"
               visited == [walked |-> c.walked \cup {<<p, dev>>}, types |-> p :> type @@ c.types]
           IN  DetectDepTypesInSubGraph(packages,
                 DetectDepTypesInSubGraph(packages, visited, packages[p].dependencies, dev),
                 packages[p].optionalDependencies, dev),
    ctx, depPaths)

DetectDepTypes(lockfile) ==
  LET Detect(ctx, field) == DetectDepTypesInSubGraph(lockfile.packages, ctx,
        DirectDeps(lockfile, lockfile.order, field), field = "devDependencies")
  IN  FoldLeft(Detect, [walked |-> {}, types |-> <<>>],
        <<"devDependencies", "optionalDependencies", "dependencies">>).types

-----------------------------------------------------------------------------
\* lockfile/filtering.  opts: [include, compatible, skipped]: the fields that
\* are installed, the packages this machine can run, and what was skipped the
\* last time.

Links(lockfile, refs) == SelectSeq(refs, LAMBDA r : r \in DOMAIN lockfile.importers)
DepPaths(lockfile, refs) == SelectSeq(refs, LAMBDA r : r \notin DOMAIN lockfile.importers)

\* What the projects need, and the projects they link: [depPaths, ids].
RECURSIVE ToImporterDepPaths(_, _, _, _)
ToImporterDepPaths(lockfile, ids, include, known) ==
  LET Fields(id) ==
        FlattenSeq([i \in 1 .. 3 |->
          LET field == <<"dependencies", "devDependencies", "optionalDependencies">>[i]
          IN  IF field \in include THEN lockfile.importers[id][field] ELSE <<>>])
      refs == FlattenSeq([i \in DOMAIN ids |-> Fields(ids[i])])
      next == SelectSeq(Links(lockfile, refs), LAMBDA id : id \notin known)
      rest == ToImporterDepPaths(lockfile, next, include, known \cup ToSet(next))
  IN  IF next = <<>> THEN [depPaths |-> DepPaths(lockfile, refs), ids |-> known]
      ELSE [depPaths |-> DepPaths(lockfile, refs) \o rest.depPaths, ids |-> rest.ids]

\* A package that was picked is not looked at again.  ctx: [picked, ids, skipped].
RECURSIVE PkgAllDeps(_, _, _, _, _, _)
PkgAllDeps(lockfile, optional, opts, ctx, depPaths, parentIsInstallable) ==
  FoldLeft(LAMBDA c, p :
      IF p \in c.picked \/ p \notin DOMAIN lockfile.packages THEN c
      ELSE LET installable == parentIsInstallable /\ (p \in opts.compatible \/ p \notin optional)
               refs == lockfile.packages[p].dependencies
                       \o (IF "optionalDependencies" \in opts.include
                           THEN lockfile.packages[p].optionalDependencies ELSE <<>>)
               linked == Links(lockfile, refs)
               more == ToImporterDepPaths(lockfile, linked, opts.include, c.ids \cup ToSet(linked))
               picked == [picked |-> c.picked \cup {p}, ids |-> more.ids,
                          skipped |-> CASE installable -> c.skipped \ {p}
                                        [] ~installable /\ p \in optional -> c.skipped \cup {p}
                                        [] OTHER -> c.skipped]
           IN  PkgAllDeps(lockfile, optional, opts, picked,
                          DepPaths(lockfile, refs) \o more.depPaths, installable),
    ctx, depPaths)

\* optional: the packages that the lockfile marks so.
FilterLockfile(lockfile, optional, ids, opts) ==
  LET direct == ToImporterDepPaths(lockfile, ids, opts.include, ToSet(ids))
  IN  PkgAllDeps(lockfile, optional, opts,
        [picked |-> {}, ids |-> direct.ids, skipped |-> opts.skipped], direct.depPaths, TRUE)

-----------------------------------------------------------------------------
\* The least set with what `from` has that can go on over `Next`.
Closure(from, Next(_), bound) ==
  LET steps[n \in 0 .. bound] ==
        IF n = 0 THEN from ELSE steps[n - 1] \cup UNION {Next(p) : p \in steps[n - 1]}
  IN  steps[bound]

Field(lockfile, fields) ==
  UNION {ToSet(lockfile.importers[i][f]) : i \in DOMAIN lockfile.importers, f \in fields}
Required(lockfile, p) == IF p \in DOMAIN lockfile.packages THEN ToSet(lockfile.packages[p].dependencies) ELSE {}
AllOf(lockfile, p) ==
  IF p \in DOMAIN lockfile.packages
  THEN ToSet(lockfile.packages[p].dependencies) \cup ToSet(lockfile.packages[p].optionalDependencies)
  ELSE {}
ReachedBy(lockfile, from, Next(_)) ==
  DOMAIN lockfile.packages \cap Closure(from, Next, Cardinality(DOMAIN lockfile.packages))

\* A pruned lockfile has the packages that a project reaches, and marks as
\* optional those that are not reached by required dependencies alone; whatever
\* the order of the fields and whatever cycles there are.
PrunedIsReachable(lockfile, pruned) ==
  LET All(p) == AllOf(lockfile, p)
      Needed(p) == Required(lockfile, p)
  IN  /\ pruned.copied = ReachedBy(lockfile, Field(lockfile, Groups), All)
      /\ pruned.copied \ pruned.optional =
           ReachedBy(lockfile, Field(lockfile, {"dependencies", "devDependencies"}), Needed)

\* A package is for development only exactly if no project reaches it but from
\* its devDependencies: licenses, audits and lists of production are complete.
DepTypesAreExact(lockfile, types) ==
  LET All(p) == AllOf(lockfile, p)
      dev == ReachedBy(lockfile, Field(lockfile, {"devDependencies"}), All)
      prod == ReachedBy(lockfile, Field(lockfile, {"dependencies", "optionalDependencies"}), All)
  IN  types = [p \in dev \cup prod |->
                 CASE p \notin prod -> "DevOnly" [] p \notin dev -> "ProdOnly" [] OTHER -> "DevAndProd"]

\* What the fields and the projects need is picked, with the projects that are
\* linked; an optional package that cannot be used is skipped, and another one
\* is not, unless a package is found under one that cannot be used first and
\* under one that can be used later (filterLockfileByImportersAndEngine.ts:140).
FilteredIsNeeded(lockfile, optional, ids, opts, filtered) ==
  LET Next(r) ==
        CASE r \in DOMAIN lockfile.importers -> UNION {ToSet(lockfile.importers[r][f]) : f \in opts.include}
          [] r \in DOMAIN lockfile.packages ->
               IF "optionalDependencies" \in opts.include THEN AllOf(lockfile, r) ELSE Required(lockfile, r)
          [] OTHER -> {}
      nodes == DOMAIN lockfile.importers \cup DOMAIN lockfile.packages
      reached == Closure(ToSet(ids), Next, Cardinality(nodes))
      Usable(r) == r \in DOMAIN lockfile.importers \/ r \in opts.compatible \/ r \notin optional
      NextUsable(r) == {s \in Next(r) : Usable(s)}
      usable == Closure(ToSet(ids), NextUsable, Cardinality(nodes))
      below == Closure({r \in reached : ~Usable(r)}, Next, Cardinality(nodes))
  IN  /\ filtered.picked = reached \cap DOMAIN lockfile.packages
      /\ filtered.ids = reached \cap DOMAIN lockfile.importers
      /\ (filtered.picked \cap optional) \ usable \subseteq filtered.skipped
      /\ usable \cap below = {} => filtered.skipped \cap usable = {}
      /\ filtered.skipped \subseteq optional \cup opts.skipped
=============================================================================

----------------------------- MODULE PickVersion -----------------------------
\* resolving/npm-resolver: the version of a package that a wanted dependency
\* becomes, from the registry or from the workspace; workspace/pkgs-graph: the
\* project of the workspace that it makes an edge to.
EXTENDS Naturals, FiniteSets, FiniteSetsExt

CONSTANTS
  Sat,          \* range -> the versions that satisfy it; "*" is one
  LowestVersion \* 0.0.0, which is that of a project without a version

PickVersionAssumption == "*" \in DOMAIN Sat

NoVersion == 0

MaxOf(versions) == IF versions = {} THEN NoVersion ELSE Max(versions)
MinOf(versions) == IF versions = {} THEN NoVersion ELSE Min(versions)

MaxSatisfying(versions, range) == MaxOf(versions \cap Sat[range])
MinSatisfying(versions, range) == MinOf(versions \cap Sat[range])

-----------------------------------------------------------------------------
\* Metadata: [versions, latest, deprecated, time], as the registry gives it.

\* The versions that a preferred selector is for.
Selected(meta, preferred) ==
  CASE preferred.type = "tag" -> {meta.latest} \ {NoVersion}
    [] preferred.type = "range" -> meta.versions \cap Sat[preferred.selector]
    [] preferred.type = "version" -> meta.versions \cap {preferred.selector}

\* The weights of the selectors of a version are added up; one that is the
\* wanted range itself does not count.
PreferredVersions(meta, range, selectors) ==
  LET counted == {s \in selectors : s.type # "range" \/ s.selector # range}
  IN  [v \in UNION {Selected(meta, s) : s \in counted} |->
         MapThenSumSet(LAMBDA s : s.weight, {s \in counted : v \in Selected(meta, s)})]

\* The satisfying versions that have the most weight.
Prioritized(meta, range, selectors) ==
  LET weight == PreferredVersions(meta, range, selectors)
      fit == DOMAIN weight \cap Sat[range]
  IN  {v \in fit : \A u \in fit : weight[u] <= weight[v]}

PickLowestVersionByVersionRange(meta, range, selectors) ==
  LET preferred == Prioritized(meta, range, selectors)
  IN  CASE preferred # {} -> Min(preferred)
        [] preferred = {} /\ range = "*" -> MinOf(meta.versions)
        [] OTHER -> MinSatisfying(meta.versions, range)

\* Without publishedBy (0) all versions are there; the preferred ones are taken
\* whenever they were published.
PickVersionByVersionRange(meta, range, selectors, publishedBy) ==
  LET preferred == Prioritized(meta, range, selectors)
      versions == {v \in meta.versions : publishedBy = 0 \/ meta.time[v] <= publishedBy}
      latest == IF publishedBy = 0 \/ meta.latest \in versions THEN meta.latest ELSE NoVersion
      max == MaxSatisfying(versions, range)
      notDeprecated == MaxSatisfying(versions \ meta.deprecated, range)
  IN  CASE meta.latest \in preferred -> meta.latest
        [] preferred # {} /\ meta.latest \notin preferred -> Max(preferred)
        [] preferred = {} /\ latest # NoVersion /\ (range = "*" \/ latest \in Sat[range]) -> latest
        [] OTHER -> IF max \in meta.deprecated /\ notDeprecated # NoVersion
                    THEN notDeprecated ELSE max

\* The version that is there, or none: null and the errors lead to the same.
PickPackageFromMeta(meta, spec, opts) ==
  LET version ==
        CASE spec.type = "version" -> spec.sel
          [] spec.type = "tag" -> meta.latest
          [] spec.type = "range" ->
               IF opts.pickLowestVersion
               THEN PickLowestVersionByVersionRange(meta, spec.sel, opts.preferred)
               ELSE PickVersionByVersionRange(meta, spec.sel, opts.preferred, opts.publishedBy)
  IN  IF version \in meta.versions THEN version ELSE NoVersion

-----------------------------------------------------------------------------
\* The projects of the name: [dir, version], the version NoVersion if it has none.

ResolveWorkspaceRange(range, versions) ==
  IF range = "*" THEN MaxOf(versions) ELSE MaxSatisfying(versions, range)

PickMatchingLocalVersionOrNull(versions, spec) ==
  CASE spec.type = "tag" -> MaxOf(versions)
    [] spec.type = "version" -> IF spec.sel \in versions THEN spec.sel ELSE NoVersion
    [] spec.type = "range" -> ResolveWorkspaceRange(spec.sel, versions)

\* arrayOfWorkspacePackagesToMap
WorkspacePackages(projects) ==
  {IF p.version = NoVersion THEN LowestVersion ELSE p.version : p \in projects}

\* spec.workspace: the protocol workspace: is used.  meta.answers: the registry
\* has the package and answers.
ResolveNpm(meta, spec, opts, projects) ==
  LET Local(version) ==
        IF version = NoVersion THEN [from |-> "error"] ELSE [from |-> "workspace", version |-> version]
      all == WorkspacePackages(projects)
      tried == IF opts.alwaysTryWorkspacePackages THEN all ELSE {}
      picked == IF meta.answers THEN PickPackageFromMeta(meta, spec, opts) ELSE NoVersion
      localVersion == PickMatchingLocalVersionOrNull(tried, spec)
  IN  CASE spec.workspace -> Local(PickMatchingLocalVersionOrNull(all, spec))
        [] ~spec.workspace /\ picked = NoVersion -> Local(localVersion)
        [] ~spec.workspace /\ picked # NoVersion /\ picked \in tried -> Local(picked)
        [] OTHER -> IF localVersion # NoVersion
                       /\ (localVersion > picked \/ opts.preferWorkspacePackages)
                    THEN Local(localVersion) ELSE [from |-> "registry", version |-> picked]

\* The dependencies of a project in the graph, for one wanted dependency: one
\* project at most.
CreateNode(spec, linkWorkspacePackages, projects) ==
  LET versions == {p.version : p \in projects} \ {NoVersion}
      Of(version) == {CHOOSE p \in projects : p.version = version}
      matched == ResolveWorkspaceRange(spec.sel, versions)
  IN  CASE spec.type = "tag" \/ projects = {} \/ (~linkWorkspacePackages /\ ~spec.workspace) -> {}
        [] OTHER ->
             CASE spec.workspace /\ versions = {} -> {CHOOSE p \in projects : TRUE}
               [] spec.type = "version" -> IF spec.sel \in versions THEN Of(spec.sel) ELSE {}
               [] OTHER -> IF matched = NoVersion THEN {} ELSE Of(matched)

\* lockfile/verification: whether the next install can do with what is locked.
LinkedPackagesAreUpToDate(spec, resolved, linkWorkspacePackages, projects) ==
  LET isLinked == resolved.from = "workspace"
      at == {p \in projects : p.version = resolved.version \/ (isLinked /\ p.version = NoVersion)}
      Satisfies(p) == CASE spec.type = "range" -> spec.sel = "*" \/ p.version \in Sat[spec.sel]
                        [] spec.type = "version" -> p.version = spec.sel
                        [] OTHER -> FALSE
  IN  \/ isLinked /\ spec.type = "tag" /\ ~spec.workspace
      \/ at = {}
      \/ ~linkWorkspacePackages /\ ~spec.workspace
      \/ isLinked = Satisfies(CHOOSE p \in at : TRUE)

-----------------------------------------------------------------------------
\* The best of what satisfies a range is picked: of the most preferred versions
\* that the registry has; without them, of what was published by then, no
\* deprecated one but the latest while another one satisfies, and a range that
\* something satisfies never fails (pickPackageFromMeta.ts).
PickedIsBest(meta, spec, opts, picked) ==
  LET published == {v \in meta.versions : opts.publishedBy = 0 \/ meta.time[v] <= opts.publishedBy}
      fit == published \cap Sat[spec.sel]
      Weight(v) == MapThenSumSet(LAMBDA s : s.weight,
        {s \in opts.preferred : v \in Selected(meta, s) /\ (s.type = "range" => s.selector # spec.sel)})
      preferred == {v \in meta.versions \cap Sat[spec.sel] : Weight(v) > 0}
  IN  spec.type = "range" =>
        /\ fit # {} => picked # NoVersion
        /\ picked # NoVersion /\ spec.sel # "*" => picked \in Sat[spec.sel]
        /\ picked # NoVersion /\ preferred # {} =>
             /\ picked \in preferred /\ \A v \in preferred : Weight(v) <= Weight(picked)
             /\ ~opts.pickLowestVersion /\ picked # meta.latest =>
                  \A v \in preferred : Weight(v) = Weight(picked) => v <= picked
        /\ picked # NoVersion /\ preferred = {} /\ ~opts.pickLowestVersion =>
             /\ picked \in published
             /\ picked = meta.latest \/ \A v \in fit : v > picked => v \in meta.deprecated
             /\ picked \in meta.deprecated \ {meta.latest} => fit \subseteq meta.deprecated

\* What is resolved satisfies what is wanted, wherever it comes from; a project
\* does not replace something newer of the registry unless projects are
\* preferred; and there is an error only if neither has a version that fits.
ResolvedIsWanted(meta, spec, opts, projects, resolved) ==
  LET picked == IF meta.answers THEN PickPackageFromMeta(meta, spec, opts) ELSE NoVersion
      Fits(version) == CASE spec.type = "range" -> spec.sel = "*" \/ version \in Sat[spec.sel]
                         [] spec.type = "version" -> version = spec.sel
                         [] OTHER -> TRUE
  IN  /\ resolved.from # "error" => Fits(resolved.version)
      /\ resolved.from = "workspace" /\ ~spec.workspace /\ ~opts.preferWorkspacePackages =>
           picked = NoVersion \/ resolved.version >= picked
      /\ resolved.from = "error" =>
           /\ ~spec.workspace => picked = NoVersion
           /\ spec.workspace \/ opts.alwaysTryWorkspacePackages =>
                \A v \in WorkspacePackages(projects) : ~Fits(v)

\* A project that a dependency is linked to is one that the graph of the
\* workspace has an edge to, so that commands that run in its order, and
\* filters, see the dependency: for ranges and versions, where the projects of
\* the name have a version, and the same project if there is one only.
LinkedIsAnEdge(spec, opts, projects, resolved) ==
  LET edge == CreateNode(spec, opts.alwaysTryWorkspacePackages, projects)
  IN  resolved.from = "workspace" /\ spec.type # "tag" /\ (\A p \in projects : p.version # NoVersion) =>
        edge # {} /\ (Cardinality(projects) = 1 => \A p \in edge : p.version = resolved.version)

\* What an install has just resolved is up to date for the next one, which need
\* not resolve anything: but projects without a version, and a tag behind
\* workspace:, never are (linkedPackagesAreUpToDate.ts:90-98).
FreshLinksAreUpToDate(spec, opts, projects, resolved) ==
  resolved.from # "error" /\ (\A p \in projects : p.version # NoVersion)
    /\ ~(spec.workspace /\ spec.type = "tag") =>
    LinkedPackagesAreUpToDate(spec, resolved, opts.alwaysTryWorkspacePackages, projects)
=============================================================================

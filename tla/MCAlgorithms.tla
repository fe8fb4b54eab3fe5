---------------------------- MODULE MCAlgorithms ----------------------------
\* Small inputs of the pure algorithms, what the code makes of them, and what
\* holds of it.
EXTENDS Naturals, FiniteSets, Sequences, TLC

\* Three versions after 0.0.0, the last of which is a pre-release that "*" does
\* not match.
Satisfying == "*" :> {1, 2, 3} @@ "old" :> {2} @@ "new" :> {3, 4}
Pick == INSTANCE PickVersion WITH Sat <- Satisfying, LowestVersion <- 1

\* The root, two projects below it and one that is inside one of these.
Filter == INSTANCE ProjectFilter WITH
  Above <- ("." :> {"."} @@ "a" :> {".", "a"} @@ "b" :> {".", "b"} @@ "b/c" :> {".", "b", "b/c"})

Lock == INSTANCE LockfileGraph
Merge == INSTANCE LockfileMerge

\* Two aliases that differ in their case only.
Hoisting == INSTANCE Hoist WITH Lower <- [alias \in {"x", "X", "y", "z", "lib"} |-> IF alias = "X" THEN "x" ELSE alias]
Bins == INSTANCE LinkBins
Snap == INSTANCE ImporterSnapshot WITH LinkSpecs <- {"link:../x"}, WorkspaceSpecs <- {"workspace:*"}
List == INSTANCE ListTree

\* In the order of the alphabet.
Words == <<"(", ")", "+", "/", "1", "2", ":", "@", "A", "_", "a", "b", "c", "d", "file", "https", "link",
           "patch_hash=h", "s", "x">>
File == INSTANCE LockfileFile WITH
  Lower <- "A" :> "a", PatchHashes <- {"patch_hash=h"}, Versions <- {"1", "2"},
  Rank <- [w \in {Words[i] : i \in DOMAIN Words} |-> CHOOSE i \in DOMAIN Words : Words[i] = w],
  MaxLength <- 12, MaxSuffix <- 14, LockfileVersion <- 9
-----------------------------------------------------------------------------
Selectors == {
  {},
  {[type |-> "range", selector |-> "new", weight |-> 1]},
  {[type |-> "version", selector |-> 3, weight |-> 2], [type |-> "version", selector |-> 4, weight |-> 1]},
  {[type |-> "version", selector |-> 2, weight |-> 2], [type |-> "range", selector |-> "*", weight |-> 1]},
  {[type |-> "tag", selector |-> "latest", weight |-> 1], [type |-> "version", selector |-> 2, weight |-> 1]},
  {[type |-> "version", selector |-> 3, weight |-> 1], [type |-> "range", selector |-> "new", weight |-> 1],
   [type |-> "version", selector |-> 4, weight |-> 1]}}
PickOpts == [preferred : Selectors, pickLowestVersion : BOOLEAN, publishedBy : {0, 3},
             alwaysTryWorkspacePackages : {FALSE}, preferWorkspacePackages : {FALSE}]

\* Versions are not always published in their order.
MetaOf(versions) ==
  [versions : {versions}, latest : versions, deprecated : SUBSET versions,
   time : {[v \in 2 .. 4 |-> v], 2 :> 4 @@ 3 :> 2 @@ 4 :> 3}, answers : {TRUE}]
PickProblems ==
  [about : {"pick"}, meta : MetaOf({2, 3}) \cup MetaOf({2, 3, 4}), opts : PickOpts,
   spec : [workspace : {FALSE}, type : {"range"}, sel : DOMAIN Satisfying]]

\* What is wanted may be at the registry or in the workspace.
Specs == [workspace : BOOLEAN, type : {"range"}, sel : DOMAIN Satisfying]
         \cup [workspace : BOOLEAN, type : {"version"}, sel : 2 .. 4]
         \cup [workspace : BOOLEAN, type : {"tag"}, sel : {"latest"}]
ProjectSets ==
  {{}} \cup {{[dir |-> "x", version |-> v]} : v \in {0, 2, 3, 4}}
  \cup {{[dir |-> "x", version |-> v], [dir |-> "y", version |-> w]} : v \in {0, 2, 3}, w \in 3 .. 4}
ResolveProblems ==
  [about : {"resolve"}, spec : Specs, projects : ProjectSets,
   meta : [versions : {{2, 3}, {2, 3, 4}}, latest : {3}, deprecated : {{}},
           time : {[v \in 2 .. 4 |-> v]}, answers : BOOLEAN],
   opts : [preferred : {{}}, pickLowestVersion : {FALSE}, publishedBy : {0},
           alwaysTryWorkspacePackages : BOOLEAN, preferWorkspacePackages : BOOLEAN]]
-----------------------------------------------------------------------------
\* A chain, with an edge that is for development only; a cycle; a project that
\* two others need; and one that needs two.
Workspaces == {
  [graph |-> "." :> {"a"} @@ "a" :> {"b"} @@ "b" :> {"b/c"} @@ "b/c" :> {},
   prodGraph |-> "." :> {"a"} @@ "a" :> {} @@ "b" :> {"b/c"} @@ "b/c" :> {}],
  [graph |-> "." :> {} @@ "a" :> {"b"} @@ "b" :> {"b/c"} @@ "b/c" :> {"a"},
   prodGraph |-> "." :> {} @@ "a" :> {"b"} @@ "b" :> {"b/c"} @@ "b/c" :> {}],
  [graph |-> "." :> {"b/c"} @@ "a" :> {"b/c"} @@ "b" :> {} @@ "b/c" :> {"b"},
   prodGraph |-> "." :> {} @@ "a" :> {"b/c"} @@ "b" :> {} @@ "b/c" :> {"b"}],
  [graph |-> "." :> {} @@ "a" :> {"b", "b/c"} @@ "b" :> {} @@ "b/c" :> {},
   prodGraph |-> "." :> {} @@ "a" :> {"b/c"} @@ "b" :> {} @@ "b/c" :> {}]}

NamedC == [plain |-> {}, scoped |-> {"b/c"}, hasScope |-> FALSE]
NamedA == [plain |-> {"a"}, scoped |-> {"b"}, hasScope |-> FALSE]
Plain == [exclude |-> FALSE, excludeSelf |-> FALSE, includeDependencies |-> FALSE,
          includeDependents |-> FALSE, prod |-> FALSE, named |-> TRUE, pattern |-> NamedA,
          parentDir |-> "any", diff |-> FALSE, files |-> {}]
\* a, a..., ...a, a^..., ...b/c..., !a, the same of production, directories, and
\* what changed since a commit: sources and tests, of projects in each other.
FilterSelectors ==
  LET With == [Plain EXCEPT !.includeDependencies = TRUE]
      To == [Plain EXCEPT !.includeDependents = TRUE]
      Changed == [Plain EXCEPT !.named = FALSE, !.diff = TRUE,
        !.files = {[dir |-> "b/c", test |-> TRUE], [dir |-> "b", test |-> FALSE]}]
  IN  {Plain, With, To, [With EXCEPT !.excludeSelf = TRUE], [To EXCEPT !.excludeSelf = TRUE],
       [With EXCEPT !.includeDependents = TRUE, !.pattern = NamedC], [With EXCEPT !.pattern = NamedC],
       [Plain EXCEPT !.exclude = TRUE], [To EXCEPT !.exclude = TRUE, !.pattern = NamedC],
       [With EXCEPT !.prod = TRUE], [To EXCEPT !.prod = TRUE, !.pattern = NamedC],
       [Plain EXCEPT !.named = FALSE, !.parentDir = "b"], Changed,
       [Changed EXCEPT !.includeDependents = TRUE], [Changed EXCEPT !.includeDependencies = TRUE]}
FilterProblems ==
  [about : {"filter"}, workspace : Workspaces,
   selectors : {<<>>} \cup {<<s>> : s \in FilterSelectors} \cup FilterSelectors \X FilterSelectors]
-----------------------------------------------------------------------------
\* Three packages, any two of which may depend on each other, and two projects.
Packages == <<"x", "y", "z">>
FieldRefs(of, value, field) ==
  SelectSeq(Packages, LAMBDA p : p \in DOMAIN of /\ of[p] = value) \o
  (IF field THEN <<"q">> ELSE <<>>)
Snapshot(edges, p) ==
  LET of == [s \in {s \in {"x", "y", "z"} : <<p, s>> \in DOMAIN edges} |-> edges[<<p, s>>]]
  IN  [dependencies |-> FieldRefs(of, "dep", FALSE), optionalDependencies |-> FieldRefs(of, "opt", FALSE)]
Importer(dependencies, devDependencies, optionalDependencies) ==
  [dependencies |-> dependencies, devDependencies |-> devDependencies,
   optionalDependencies |-> optionalDependencies]
Importers == {
  "p" :> Importer(<<"x">>, <<"y">>, <<>>) @@ "q" :> Importer(<<"z">>, <<>>, <<>>),
  "p" :> Importer(<<"q">>, <<>>, <<"x">>) @@ "q" :> Importer(<<>>, <<"y">>, <<>>),
  "p" :> Importer(<<>>, <<"x", "y">>, <<"z">>) @@ "q" :> Importer(<<"y">>, <<"p">>, <<>>),
  "p" :> Importer(<<"y">>, <<>>, <<"x">>) @@ "q" :> Importer(<<>>, <<>>, <<>>)}
Edges == {<<"x", "y">>, <<"y", "x">>, <<"x", "z">>, <<"z", "y">>}
Lockfiles ==
  {[order |-> <<"p", "q">>, importers |-> i,
    packages |-> [p \in {"x", "y", "z"} |-> Snapshot(edges, p)]] :
     i \in Importers, edges \in [Edges -> {"none", "dep", "opt"}]}
LockfileProblems ==
  [about : {"lockfile"}, lockfile : Lockfiles]
  \cup [about : {"install"}, lockfile : Lockfiles,
        opts : {[include |-> include, compatible |-> compatible, skipped |-> {"y"}] :
                  include \in {Lock!Groups, {"dependencies"}, {"dependencies", "optionalDependencies"}},
                  compatible \in {{"y", "z"}, {"x", "z"}}}]
-----------------------------------------------------------------------------
\* Two versions of a that depend on b, with or without a peer.
V(v, peers) == [v |-> v, peers |-> peers]
Side(a, b, extra) ==
  LET direct == "a" :> a @@ (IF extra THEN "b" :> b ELSE <<>>)
  IN  [importers |-> "p" :> direct,
       specifiers |-> "p" :> [alias \in DOMAIN direct |-> direct[alias].v],
       packages |-> Merge!PathOf("a", a) :> ("b" :> b) @@ Merge!PathOf("b", b) :> <<>>]
Sides == {Side(a, b, extra) : a, b \in {V(v, peers) : v \in 1 .. 2, peers \in {"", "c"}}, extra \in BOOLEAN}
MergeProblems == [about : {"merge"}, ours : Sides, theirs : Sides]
-----------------------------------------------------------------------------
\* Four packages, two of which have the same name in other versions; what two
\* projects and three packages depend on, a link and a package that was skipped.
On(alias, to) == [alias |-> alias, to |-> to]
HoistLockfiles ==
  {[importers |-> importers, specifiers |-> specifiers,
    packages |-> 1 :> one @@ 2 :> two @@ 3 :> three @@ 4 :> <<>>] :
     importers \in {<<On("x", 1), On("y", 2)>>, <<On("y", 2), On("lib", 0)>>, <<On("x", 2), On("x", 1)>>,
                   <<On("z", 3), On("y", 2)>>},
     specifiers \in {{}, {"x", "lib"}},
     one \in {<<>>, <<On("X", 3)>>, <<On("z", 3), On("x", 4)>>, <<On("lib", 4)>>},
     two \in {<<On("z", 4)>>, <<On("y", 1)>>, <<On("x", 5), On("X", 1)>>},
     three \in {<<On("z", 1)>>, <<On("y", 4), On("lib", 0)>>, <<On("x", 4), On("z", 2)>>}}
HoistTypes == {[alias \in {"x", "X", "y", "z", "lib"} |-> "private"],
               [x |-> "public", X |-> "private", y |-> "none", z |-> "private", lib |-> "public"]}
HoistProblems ==
  [about : {"hoist"}, lockfile : HoistLockfiles, type : HoistTypes,
   projects : {<<>>, <<On("lib", 9)>>, <<On("lib", 9), On("y", 8)>>}]
-----------------------------------------------------------------------------
\* Up to three packages that give the same or other commands.
Commands == [name : {1}, pkgName : 1 .. 2, version : {1}, direct : BOOLEAN, broken : {FALSE}]
            \cup {[name |-> 1, pkgName |-> 2, version |-> 2, direct |-> FALSE, broken |-> FALSE],
                  [name |-> 2, pkgName |-> 2, version |-> 1, direct |-> TRUE, broken |-> FALSE],
                  [name |-> 2, pkgName |-> 3, version |-> 1, direct |-> FALSE, broken |-> TRUE]}
BinsProblems ==
  [about : {"bins"}, preferDirect : BOOLEAN,
   cmds : {<<a, b>> : a, b \in Commands} \cup {<<a, b, c>> : a, b, c \in Commands}]
-----------------------------------------------------------------------------
\* One project before and after an edit.
ManifestOf(optional, prod, dev, peer) ==
  [optionalDependencies |-> optional, dependencies |-> prod, devDependencies |-> dev, peerDependencies |-> peer]
Specifiers == {"1", "2", "link:../x", "workspace:*"}
Manifests ==
  {ManifestOf(o, "b" :> "1", <<>>, <<>>) : o \in {"a" :> s : s \in Specifiers}}
  \cup {ManifestOf(<<>>, p, d, peer) :
          p \in {<<>>} \cup {"a" :> s : s \in Specifiers},
          d \in {<<>>, "a" :> "1", "a" :> "2" @@ "b" :> "1", "b" :> "workspace:*"},
          peer \in {<<>>, "a" :> "1", "b" :> "2"}}
SnapshotProblems ==
  [about : {"snapshot"}, first : Manifests, second : Manifests,
   opts : [autoInstallPeers : BOOLEAN, excludeLinksFromLockfile : BOOLEAN, linked : {{}}]]
-----------------------------------------------------------------------------
\* A project, another one that it links, and four packages.
To(id) == [name |-> id, id |-> id, peer |-> FALSE]
ListGraphs ==
  {"p" :> p @@ "q" :> q @@ "a" :> a @@ "b" :> b @@ "c" :> c @@ "e" :> <<To("c")>> :
     p \in {<<To("a"), To("b")>>, <<To("q"), To("c")>>}, q \in {<<>>, <<To("a")>>, <<To("p"), To("b")>>},
     a \in {<<>>, <<To("c"), To("b")>>, <<To("b"), To("c")>>, <<[To("c") EXCEPT !.peer = TRUE]>>},
     b \in {<<>>, <<To("e")>>, <<To("a"), To("c")>>}, c \in {<<>>, <<To("a")>>, <<To("d")>>}}
ListProblems ==
  [about : {"list"}, graph : ListGraphs,
   opts : [projects : {{"p", "q"}}, maxDepth : {0, 1, 3, 9}, searching : {FALSE}, search : {{}},
           excludePeers : {FALSE}, onlyProjects : BOOLEAN]
          \cup [projects : {{"p", "q"}}, maxDepth : {2, 9}, searching : {TRUE}, search : {{"c"}, {"a", "q"}},
                excludePeers : BOOLEAN, onlyProjects : {FALSE}]]
-----------------------------------------------------------------------------
\* Packages of a registry, of a directory and of a tarball, with or without a
\* patch and peers, the peers having peers themselves.
B1 == <<"b", "@", "1">>
C1 == <<"c", "@", "1">>
In(path, peers) == path \o <<"(">> \o peers \o <<")">>
PeerIds == {<<>>, <<B1>>, <<C1, B1>>, <<In(B1, C1)>>, <<C1, In(B1, C1)>>, <<In(In(B1, C1), B1)>>,
            <<In(C1, In(B1, C1)), B1>>, <<<<"@", "s", "/">> \o B1, In(B1, C1), C1>>}
Patched == <<"(", "patch_hash=h", ")">>
PathProblems ==
  [about : {"path"},
   dep : [name : {<<"a">>, <<"A">>, <<"@", "s", "/", "a">>}, peers : PeerIds, patch : {<<>>, Patched},
          version : {<<"1">>, <<"file", ":", "d">>, <<"https", ":", "x", "@", "1">>}],
   other : [name : {<<"a">>}, version : {<<"1">>, <<"2">>}, patch : {<<>>, Patched}, peers : PeerIds]]

\* Two projects, and packages that differ in their peers only.
Entry(path, info) == [path |-> path, snapshot |-> ToString(path), info |-> info]
Peered == {Entry(<<"a", "@", "1">> \o suffix, info) : suffix \in {<<>>, In(<<>>, B1), Patched \o In(<<>>, B1)}, info \in {"i", "j"}}
Others == {Entry(B1, "i"), Entry(<<"a", "@", "2">>, "j")}
EntryLists ==
  {list \in {<<>>} \cup {<<e, f>> : e, f \in Peered \cup Others} \cup {<<e, f, g>> : e, f \in Peered, g \in Others} :
     \A i, j \in DOMAIN list : i # j => list[i].path # list[j].path}
ProjectOf(optional, prod, dev, specifiers) ==
  [optionalDependencies |-> optional, dependencies |-> prod, devDependencies |-> dev, specifiers |-> specifiers]
References == {<<"1">>, In(<<"1">>, B1), <<"link", ":", "x">>, B1, <<"file", ":", "d">>}
FileProblems ==
  LET a == <<"a">>
      b == <<"b">> :> <<"1">>
      projects == {ProjectOf(<<>>, <<>>, <<>>, <<>>)}
                  \cup {ProjectOf(a :> r, b, <<>>, a :> "x" @@ <<"b">> :> "y") : r \in References}
                  \cup {ProjectOf(<<>>, b, a :> r, a :> "y" @@ <<"b">> :> "y") : r \in References}
                  \cup {ProjectOf(a :> r, a :> <<"2">>, <<>>, a :> "x") : r \in References}
  IN  [about : {"file"},
       lockfile : {[version |-> 8, settings |-> settings, importers |-> ("p" :> p @@ "q" :> q), packages |-> list,
                    time |-> (<<"a", "@", "1">> :> "t" @@ <<"/", "a", "@", "1">> :> "t")] :
                     settings \in {<<>>, [peersSuffixMaxLength |-> "1000", injectWorkspacePackages |-> "true"]},
                     p \in projects, q \in {ProjectOf(<<>>, b, <<>>, <<"b">> :> "z")}, list \in EntryLists}]

Hunks == {<<"both", "c">>, <<"conflict", <<"o">>, <<>>, <<"t">>>>, <<"conflict", <<>>, <<"p">>, <<"t", "u">>>>,
          <<"conflict", <<"o">>, <<"p", "c">>, <<>>>>}
ConflictProblems == [about : {"conflict"}, hunks : {<<h, i, j>> : h, i, j \in Hunks}, withParents : BOOLEAN]

\* Files of this version and of an older one, with conflicts of the two, and of
\* two branches.
Of(version, item) == [version |-> version, items |-> {item}]
Content(kind, sides) == [kind |-> kind, sides |-> sides]
Contents == {File!Nothing, Content("broken", <<>>), File!Plain(Of(9, "m")), File!Plain(Of(6, "o")),
             Content("conflict", <<Of(9, "m"), Of(9, "n")>>), Content("conflict", <<Of(6, "o"), Of(9, "n")>>)}
KeepProblems ==
  [about : {"keep"},
   files : {File!Main :> main @@ "b" :> one @@ "b2" :> two :
              main, one \in Contents, two \in {File!Nothing, File!Plain(Of(9, "t"))}},
   current : {Content("broken", <<>>), File!Plain(Of(9, "u")), File!Plain(Of(6, "o"))},
   opts : [useGitBranchLockfile : BOOLEAN, mergeGitBranchLockfiles : BOOLEAN, branch : {"b"},
           ignoreIncompatible : BOOLEAN, frozenLockfile : BOOLEAN]]
-----------------------------------------------------------------------------
Problems ==
  PickProblems \cup ResolveProblems \cup FilterProblems \cup LockfileProblems \cup MergeProblems
  \cup HoistProblems \cup BinsProblems \cup SnapshotProblems \cup ListProblems
  \cup PathProblems \cup FileProblems \cup ConflictProblems \cup KeepProblems

Solution(p) ==
  CASE p.about = "pick" -> Pick!PickPackageFromMeta(p.meta, p.spec, p.opts)
    [] p.about = "resolve" -> Pick!ResolveNpm(p.meta, p.spec, p.opts, p.projects)
    [] p.about = "filter" -> Filter!FilterPkgsBySelectorObjects(p.workspace, p.selectors)
    [] p.about = "lockfile" -> [pruned |-> Lock!CopyPackageSnapshots(p.lockfile),
                                types |-> Lock!DetectDepTypes(p.lockfile)]
    [] p.about = "install" ->
         Lock!FilterLockfile(p.lockfile, Lock!CopyPackageSnapshots(p.lockfile).optional, <<"p">>, p.opts)
    [] p.about = "merge" -> Merge!MergeLockfileChanges(p.ours, p.theirs)
    [] p.about = "hoist" -> Hoisting!GetHoistedDependencies(p.lockfile, p.projects, p.type)
    [] p.about = "bins" -> Bins!LinkBinsOf(p.cmds, p.preferDirect)
    [] p.about = "snapshot" -> Snap!InstallBoth(p.first, p.second, p.opts)
    [] p.about = "path" -> File!DepPathToFilename(File!Suffixed(p.dep))
    [] p.about = "file" -> File!ConvertToLockfileFile(p.lockfile)
    [] p.about = "conflict" -> File!ParseMergeFile(File!LinesOfHunks(p.hunks, p.withParents))
    [] p.about = "keep" -> File!Install(p.files, p.current, p.opts)
    [] p.about = "list" -> List!DependenciesHierarchy(p.graph, p.opts, "p")

VersionsAreRight(p, solution) ==
  /\ p.about = "pick" => Pick!PickedIsBest(p.meta, p.spec, p.opts, solution)
  /\ p.about = "resolve" => /\ Pick!ResolvedIsWanted(p.meta, p.spec, p.opts, p.projects, solution)
                            /\ Pick!LinkedIsAnEdge(p.spec, p.opts, p.projects, solution)
                            /\ Pick!FreshLinksAreUpToDate(p.spec, p.opts, p.projects, solution)

SelectionsAreRight(p, solution) ==
  p.about = "filter" => /\ Filter!SelectionIsMeant(p.workspace, p.selectors, solution)
                        /\ Filter!SelectionIsClosed(p.workspace, p.selectors, solution)

LockfilesAreRight(p, solution) ==
  /\ p.about = "lockfile" => /\ Lock!PrunedIsReachable(p.lockfile, solution.pruned)
                             /\ Lock!DepTypesAreExact(p.lockfile, solution.types)
  /\ p.about = "install" =>
       Lock!FilteredIsNeeded(p.lockfile, Lock!CopyPackageSnapshots(p.lockfile).optional,
                             <<"p">>, p.opts, solution)
  /\ p.about = "merge" => Merge!MergeIsWhole(p.ours, p.theirs, solution)
  /\ p.about = "snapshot" => /\ Snap!WrittenSatisfies(p.first, p.second, p.opts, solution)
                             /\ Snap!EditsAreNoticed(p.first, p.second, p.opts, solution)
  /\ p.about = "path" => /\ \A alias \in {<<"x">>, p.dep.name} : File!PathsAreRead(p.dep, alias)
                         /\ File!DirectoriesDiffer(p.dep, p.other, solution)
  /\ p.about = "file" => File!FileKeepsTheLockfile(p.lockfile, solution)
  /\ p.about = "conflict" => File!BothSidesAreRead(p.hunks, p.withParents, solution)
  /\ p.about = "keep" => File!LockfilesAreKept(p.files, p.opts, solution)

ModulesAreRight(p, solution) ==
  /\ p.about = "hoist" => /\ Hoisting!HoistedOnce(p.lockfile, p.projects, p.type, solution)
                          /\ Hoisting!HoistedIsNearest(p.lockfile, p.projects, p.type, solution)
  /\ p.about = "bins" => Bins!BinsAreStable(p.cmds, p.preferDirect, solution)
  /\ p.about = "list" => /\ List!TreeIsExact(p.graph, p.opts, "p", solution)
                         /\ List!SearchedIsThere(p.graph, p.opts, "p", solution)
=============================================================================

---------------------------- MODULE MCComponents ----------------------------
\* Small instances of the components; beside them the parts that are written
\* with recursive operators: the resolution of peers and the algorithms.
EXTENDS Components, TLC

VARIABLES
  input, nextProject, stack, peersCache, purePkgs, paths, promises, depGraph, calcs, hits,
  parentsOf, rounds,
  problem, answer

peersVars == <<input, nextProject, stack, peersCache, purePkgs, paths, promises, depGraph,
  calcs, hits, parentsOf, rounds>>
algVars == <<problem, answer>>
mcVars == <<vars, peersVars, algVars>>

-----------------------------------------------------------------------------
\* Three projects in a chain and one beside them, which has two scripts that
\* the pattern matches; the last of the chain has none.
Selected == {"lib", "tool", "app", "docs"}
DepsOf == [p \in Selected |->
  CASE p = "app" -> {"lib"} [] p = "docs" -> {"app"} [] OTHER -> {}]
MatchedScripts == [p \in Selected |->
  CASE p = "tool" -> {"b:x", "b:y"} [] p = "docs" -> {} [] OTHER -> {"b"}]

\* One build adds a file and removes one, the other changes one and adds one.
BuiltFiles ==
  "u1" :> ("package.json" :> "1" @@ "addon" :> "1")
  @@ "u2" :> ("package.json" :> "2" @@ "src.c" :> "1" @@ "addon" :> "2")

\* A request for version 2 and one for what was published by the time 2.
WantedOf == "r1" :> [type |-> "version", v |-> 2] @@ "r2" :> [type |-> "time", v |-> 2]

\* Two lockfiles that differ in a direct dependency and in a dependency of a
\* package that both have.
DirectDeps == "L1" :> ("a" :> "a" @@ "y" :> "b") @@ "L2" :> ("a" :> "a")
ChildrenOf ==
  "L1" :> ("a" :> ("x" :> "b") @@ "b" :> <<>>) @@ "L2" :> ("a" :> ("x" :> "c") @@ "c" :> <<>>)

\* Dependency trees, their packages named with the version.
NameOf ==
  "a1" :> "a" @@ "a2" :> "a" @@ "b1" :> "b" @@ "c1" :> "c" @@ "d1" :> "d" @@ "e1" :> "e"
  @@ [p \in {"foo", "bar", "qar", "zoo"} |-> p]
PeerVersionOf == [p \in DOMAIN NameOf |-> IF p = "a2" THEN 2 ELSE 1]
Required(packages) ==
  [i \in DOMAIN packages |-> [alias |-> NameOf[packages[i]], pkg |-> packages[i]]]
Tree(direct, deps, peers, above, dedupe) ==
  LET packages == DOMAIN NameOf
  IN  [order |-> IF "q" \in DOMAIN direct THEN <<"p", "q">> ELSE <<"p">>,
       roots |-> [r \in DOMAIN direct |-> Required(direct[r])],
       deps |-> [p \in packages |-> IF p \in DOMAIN deps THEN Required(deps[p]) ELSE <<>>],
       peers |-> [p \in packages |-> IF p \in DOMAIN peers THEN peers[p] ELSE {}],
       above |-> above, dedupe |-> dedupe]

\* The cycle of dependencies and peers of test/resolvePeers.ts:14-113, and the
\* paths it expects (lines 115-122).
CyclicTree == Tree("p" :> <<"foo">>,
  "foo" :> <<"bar">> @@ "bar" :> <<"qar">> @@ "qar" :> <<"zoo">> @@ "zoo" :> <<"foo", "bar">>,
  "foo" :> {"qar", "zoo"} @@ "bar" :> {"foo", "zoo"} @@ "qar" :> {"foo", "bar"} @@ "zoo" :> {"qar"},
  "none", FALSE)

\* Two packages that are peers of each other; a provider with two versions of
\* its own peer around it; two projects that provide different versions of a
\* peer, or one of them none.
Trees == {
  CyclicTree,
  Tree("p" :> <<"a1", "b1">>, "a1" :> <<"c1">> @@ "c1" :> <<"d1">>,
       "a1" :> {"b"} @@ "b1" :> {"a"} @@ "d1" :> {"a"}, "none", FALSE),
  Tree("p" :> <<"d1", "e1", "a1">>, "d1" :> <<"a1", "b1", "c1">> @@ "e1" :> <<"a2", "b1", "c1">>,
       "b1" :> {"a"} @@ "c1" :> {"b"}, "none", FALSE)}
  \cup {Tree("p" :> <<"a1", "c1">> @@ "q" :> <<"a2", "c1">>, "c1" :> <<"b1">>, "b1" :> {"a"},
             "none", dedupe) : dedupe \in BOOLEAN}
  \cup {Tree("p" :> <<"c1">> @@ "q" :> <<"a1", "c1">>, "c1" :> <<"b1">>, "b1" :> {"a", "d"},
             above, TRUE) : above \in {"none", "q"}}

\* What there is to resolve: dependencies and peers by package.
NameOfPackage == [p \in {"a", "b", "c", "d", "e", "f", "p"} |-> p] @@ [p \in {"p1", "p2"} |-> "p"]
NumberOf == [p \in DOMAIN NameOfPackage |-> IF p = "p2" THEN 2 ELSE 1]
OneOf(range) == [name |-> NameOfPackage[CHOOSE p \in range : TRUE], range |-> range, optional |-> FALSE]
MaybeOneOf(range) == [OneOf(range) EXCEPT !.optional = TRUE]
All(packages) == {OneOf({p}) : p \in packages}
ToResolve(direct, deps, peers, auto, hoist) ==
  [roots |-> direct,
   deps |-> [p \in DOMAIN NameOfPackage |-> IF p \in DOMAIN deps THEN deps[p] ELSE {}],
   peers |-> [p \in DOMAIN NameOfPackage |-> IF p \in DOMAIN peers THEN peers[p] ELSE {}],
   auto |-> auto, hoist |-> hoist]

\* Two that depend on each other and are found at the same depth; one found
\* twice, in one project with its peer around it at one place, in two with one
\* of the places deeper; ranges that have nothing in common; optional peers that
\* are there, or come with a required one; a dependency that is a peer, too.
ToResolveAll == {
  ToResolve("r" :> All({"a", "b"}),
    "a" :> All({"c"}) @@ "b" :> All({"d"}) @@ "c" :> All({"d"}) @@ "d" :> All({"c"}),
    "c" :> All({"e"}), TRUE, TRUE),
  ToResolve("r" :> All({"a", "b"}), "a" :> All({"c", "p"}) @@ "b" :> All({"c"}) @@ "c" :> All({"d"}),
    "d" :> All({"p"}), TRUE, TRUE),
  ToResolve("r" :> All({"a"}) @@ "s" :> All({"b"}),
    "a" :> All({"c", "p"}) @@ "b" :> All({"e"}) @@ "e" :> All({"c"}) @@ "c" :> All({"d"}),
    "d" :> All({"p"}), TRUE, TRUE),
  ToResolve("r" :> All({"a"}) @@ "s" :> All({"b", "c"}), "c" :> All({"a"}),
    "a" :> {OneOf({"p1", "p2"})} @@ "b" :> All({"p2"}), TRUE, TRUE),
  ToResolve("r" :> All({"a"}) @@ "s" :> {MaybeOneOf({"b"}), OneOf({"p1"})}, "c" :> All({"a"}),
    "a" :> {MaybeOneOf({"p1", "p2"})} @@ "b" :> All({"p2"}), FALSE, TRUE),
  ToResolve("r" :> All({"a"}), "f" :> {MaybeOneOf({"d"})} @@ "p2" :> All({"e"}),
    "a" :> {OneOf({"f"}), OneOf({"p1", "p2"})} @@ "p1" :> All({"d"}), TRUE, TRUE),
  ToResolve("r" :> All({"a", "b"}), "a" :> {OneOf({"p1", "p2"})} @@ "b" :> All({"a"}),
    "a" :> {OneOf({"p1", "p2"})}, FALSE, FALSE)}

\* Workspaces with one lockfile and with one each; what is run in them: all
\* projects or "p", with and without bail if there can be several calls.
WorkspacesOf == {
  [oneLockfile |-> TRUE, manifest |-> "r" :> 1 @@ "p" :> 1 @@ "q" :> 2],
  [oneLockfile |-> FALSE, manifest |-> "r" :> 2 @@ "p" :> 2 @@ "q" :> -1]}
Command(name, version, only, bail) == [name |-> name, version |-> version, only |-> only, bail |-> bail]
CommandsOf == [one \in BOOLEAN |->
  {Command("install", 0, FALSE, TRUE), Command("add", 2, FALSE, TRUE)}
    \cup IF one THEN {Command("install", 0, TRUE, TRUE), Command("update", 1, FALSE, TRUE)}
         ELSE {Command("install", 0, FALSE, FALSE)}]
EditsOf == [one \in BOOLEAN |-> IF one THEN {<<"q", 1>>, <<"p", 0>>} ELSE {<<"p", 1>>}]

\* Two projects with a package in common, below a package without scripts.
InARow == <<{"p"}, {"q"}>>
DirectToRebuild == "p" :> <<"b">> @@ "q" :> <<"c">>
DepsToRebuild == "a" :> <<"c">> @@ "b" :> <<"a", "d">> @@ "d" :> <<"a">> @@ "c" :> <<>>

\* Dependencies, servers, files and processes by what they belong to.
SortedChunks == <<{"lib", "tool"}, {"app"}, {"docs"}>>
KindOf == "user" :> "use" @@ "stopper" :> "stop"
SpawnedBy == "user" :> "s2"
KeyOf == "u1" :> "k1" @@ "u2" :> "k2"
BaseFiles == "package.json" :> "1" @@ "src.c" :> "1"
PidOf == "u1" :> "p" @@ "u2" :> "p" @@ "i" :> "q"
SatisfiesOf == "L1" :> "m1" @@ "L2" :> "m2"
AncestorsOf == "x" :> {} @@ "x/f" :> {"x"} @@ "x/d" :> {"x"} @@ "x/d/g" :> {"x", "x/d"}
AfterOf == "p" :> "p" @@ "q" :> "p" @@ "i" :> "i" @@ "j" :> "i" @@ "k" :> "k"
FilesOfPackage == "A" :> {"m", "s"} @@ "B" :> {"s"}
ManifestOf == "A" :> "m"
InstalledBy == "i" :> "A" @@ "j" :> "A" @@ "k" :> "B"

Peers == INSTANCE ResolvePeers WITH Inputs <- Trees, Name <- NameOf, Version <- PeerVersionOf
Alg == INSTANCE MCAlgorithms

ASSUME Alg!Pick!PickVersionAssumption
-----------------------------------------------------------------------------
MCInit ==
  /\ Init /\ (subject = "install" => manifest = "m1" /\ wanted = "L1")
  /\ IF subject = "peers" THEN Peers!Init
     ELSE /\ input = "parked" /\ nextProject = "parked" /\ stack = "parked"
          /\ peersCache = "parked" /\ purePkgs = "parked" /\ paths = "parked"
          /\ promises = "parked" /\ depGraph = "parked" /\ calcs = "parked"
          /\ hits = "parked" /\ parentsOf = "parked" /\ rounds = [phase |-> "parked"]
  /\ IF subject = "algorithm" THEN problem \in Alg!Problems ELSE problem = "parked"
  /\ answer = <<>>

\* A pure algorithm answers a problem in one step.
Solve == answer = <<>> /\ answer' = <<Alg!Solution(problem)>> /\ UNCHANGED problem
Solved == answer # <<>> /\ UNCHANGED algVars

\* The steps that the liveness properties need.
Step ==
  \/ subject = "run" /\ Run!Step /\ Only("run") /\ UNCHANGED <<peersVars, algVars>>
  \/ subject = "server" /\ Srv!Step /\ Only("server") /\ UNCHANGED <<peersVars, algVars>>
  \/ subject = "requests" /\ Req!Step /\ Only("requests") /\ UNCHANGED <<peersVars, algVars>>
  \/ subject = "tree" /\ Tre!Step /\ Only("tree") /\ UNCHANGED <<peersVars, algVars>>
  \/ subject = "peers" /\ Peers!Step /\ UNCHANGED <<vars, algVars>>

MCNext ==
  \/ Next /\ UNCHANGED <<peersVars, algVars>>
  \/ subject = "peers" /\ Peers!Next /\ UNCHANGED <<vars, algVars>>
  \/ subject = "algorithm" /\ Solve /\ UNCHANGED <<vars, peersVars>>
  \/ subject = "algorithm" /\ Solved /\ UNCHANGED <<vars, peersVars>>

\* The subject is so for good: this is the fairness of its own specification.
MCSpec == MCInit /\ [][MCNext]_mcVars /\ WF_mcVars(Step)

-----------------------------------------------------------------------------
\* The tree of dependencies has the peers that are to be installed.  Peers: the
\* result is whole, every package gets its peers from the nearest provider and
\* shares its copy; and the paths of the test are those it expects.
ResolutionIsSound ==
  /\ subject = "tree" => Tre!PeersAreInstalled
  /\ subject = "peers" =>
       /\ Peers!PeersTypeOK
       /\ Peers!GraphIsWhole /\ Peers!PeersAreNearest /\ Peers!PeersAreShared
       /\ Peers!Done /\ input = CyclicTree =>
            LET foo == Peers!DepPath("foo", {})
                bar == Peers!DepPath("bar", {foo})
                qar == Peers!DepPath("qar", {bar, foo})
                zoo == Peers!DepPath("zoo", {qar})
            IN  DOMAIN depGraph = {foo, bar, qar, zoo, Peers!DepPath("foo", {qar, zoo}),
                                   Peers!DepPath("bar", {foo, zoo})}

\* What holds of the answer of an algorithm: the projects that filters select
\* are those they mean; the version that is picked is the best that is wanted, at
\* the registry or in the workspace; lockfiles are pruned, filtered, merged and
\* written as they should be; and what is hoisted, linked and listed is what is
\* there.
AlgorithmsAreRight == subject = "algorithm" /\ answer # <<>> =>
  /\ Alg!SelectionsAreRight(problem, answer[1]) /\ Alg!VersionsAreRight(problem, answer[1])
  /\ Alg!LockfilesAreRight(problem, answer[1]) /\ Alg!ModulesAreRight(problem, answer[1])

\* A recursive run, a client of the store server and a call through it end,
\* whatever fails, and so do the resolution of dependencies and that of peers.
\* (The subject is always the same.)
EverybodyEnds == <>[](
  /\ subject = "run" => Run!CommandEnded
  /\ subject = "server" => Srv!ClientsEnded
  /\ subject = "requests" => Req!CallsEnded
  /\ subject = "peers" => Peers!PeersEnded
  /\ subject = "tree" => Tre!ResolutionEnded)
=============================================================================

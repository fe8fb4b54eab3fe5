----------------------------- MODULE ResolveTree -----------------------------
\* pkg-manager/resolve-dependencies/src/resolveDependencies.ts without a
\* lockfile: the dependencies of a package are asked for concurrently and the
\* answers come in any order; the children of a package are resolved where it is
\* found first.  With auto-install-peers or dedupe-peer-dependents a package
\* that is found again waits for what its children miss there, and the peers
\* nobody provides are installed in the project.
EXTENDS Naturals, FiniteSets

CONSTANTS
  Sources,      \* what there is to resolve; see SourceOK
  VersionOf,    \* package -> number
  NamedAs,      \* package -> name
  MaxRefusals   \* requests that fail

VARIABLES
  source,     \* [roots: project -> wanted, deps, peers, auto, hoist]
  groups,     \* project or package -> its call of resolveDependencies
  waits,      \* missingPeersOfChildrenByPkgId: package -> [depth, resolved, missing]
  children,   \* childrenByParentId
  preferred,  \* allPreferredVersions: packages
  importers,  \* project -> [stage, deps, aliases, missing, resolved, optional]
  ended,      \* "no", "ok" or "failed"
  refusals,   \* requests that failed
  ignored     \* a package was found again whose missing peers were not waited for

treeVars == <<source, groups, waits, children, preferred, importers, ended, refusals, ignored>>

Packages == DOMAIN NamedAs
Names == {NamedAs[p] : p \in Packages}
Projects == DOMAIN source.roots
Wanted(range, optional) ==
  [name |-> NamedAs[CHOOSE p \in range : TRUE], range |-> range, optional |-> optional]

\* What is asked for: one of the packages of some name.
WantedOK(w) ==
  /\ w \in [name : Names, range : (SUBSET Packages) \ {{}}, optional : BOOLEAN]
  /\ \A q \in w.range : NamedAs[q] = w.name
SourceOK(s) ==
  /\ \A p \in DOMAIN s.roots : p \notin Packages /\ \A w \in s.roots[p] : WantedOK(w)
  /\ \A p \in Packages : \A w \in s.deps[p] \cup s.peers[p] : WantedOK(w)
  /\ s.auto => s.hoist
TreeAssumption ==
  /\ \A s \in Sources : SourceOK(s)
  /\ \A ids \in SUBSET Packages : ids # {} => \E p \in ids : \A q \in ids : VersionOf[q] <= VersionOf[p]
  /\ MaxRefusals \in Nat

\* Objects: what f says, and g where f says nothing.
Over(f, g) == [x \in DOMAIN f \cup DOMAIN g |-> IF x \in DOMAIN f THEN f[x] ELSE g[x]]

-----------------------------------------------------------------------------
\* The result of a call: what is missing, as [name, range, optional], and what
\* is not, as [name, id].
NoResult == [missing |-> {}, resolved |-> {}]

\* filterMissingPeers: aliases are "true" or a package.
FilterMissingPeers(result, aliases) ==
  [missing |-> {m \in result.missing : m.name \notin DOMAIN aliases},
   resolved |-> result.resolved
     \cup {[name |-> m.name, id |-> aliases[m.name]] :
             m \in {x \in result.missing : x.name \in DOMAIN aliases /\ aliases[x.name] # "true"}}]

\* mergePkgsDeps: ranges that have nothing in common cancel each other.
MergePkgsDeps(missing) ==
  LET of(n) == {m \in missing : m.name = n}
      range(n) == {p \in Packages : \A m \in of(n) : p \in m.range}
  IN  {[name |-> n, range |-> range(n), optional |-> \A m \in of(n) : m.optional] :
         n \in {x \in {m.name : m \in missing} : range(x) # {}}}

Newest(ids) == CHOOSE p \in ids : \A q \in ids : VersionOf[q] <= VersionOf[p]

\* hoistPeers: a version that is there already is taken whatever the range.
HoistPeers(missing) ==
  LET known(m) == {p \in preferred : NamedAs[p] = m.name}
  IN  {Wanted({Newest(known(m))}, FALSE) : m \in {x \in missing : known(x) # {}}}
      \cup {[m EXCEPT !.optional = FALSE] : m \in {x \in missing : known(x) = {} /\ source.auto}}

\* getHoistableOptionalPeers
HoistableOptionalPeers(missing) ==
  LET fit(n) == {p \in preferred : NamedAs[p] = n /\ \A m \in missing : m.name = n => p \in m.range}
  IN  {Wanted({Newest(fit(n))}, TRUE) : n \in {x \in {m.name : m \in missing} : fit(x) # {}}}

-----------------------------------------------------------------------------
\* A call: phases "asking", "children", "peers" and "done".
Call(wanted, aliases, depth, parents) ==
  [phase |-> "asking", pending |-> wanted, got |-> {}, aliases |-> aliases, depth |-> depth,
   parents |-> parents, result |-> NoResult]

Init ==
  /\ source \in Sources
  /\ groups = [p \in Projects |->
       Call(source.roots[p], [n \in {w.name : w \in source.roots[p]} |-> "true"], 0, {})]
  /\ importers = [p \in Projects |->
       [stage |-> "first", deps |-> {}, aliases |-> groups[p].aliases, missing |-> {},
        resolved |-> {}, optional |-> {}]]
  /\ waits = <<>> /\ children = <<>> /\ preferred = {}
  /\ ended = "no" /\ refusals = 0 /\ ignored = FALSE

\* The dependencies of a package without those that are peers (and found).
Dependencies(id, aliases) ==
  LET omitted == {m.name : m \in source.peers[id]} \cap (IF source.auto THEN Names ELSE DOMAIN aliases)
  IN  {w \in source.deps[id] : w.name \notin omitted}

Answered(g, w) == groups[g].phase = "asking" /\ w \in groups[g].pending /\ ended = "no"

\* Mutant of WaitsFor: every package that was found before is waited for.
WaitsAlways(id, depth) == TRUE

\* "This if condition is used to avoid a dead lock."
WaitsFor(id, depth) == waits[id].depth >= depth \/ waits[id].resolved

IsNew(g, id) == id \notin DOMAIN waits

\* resolveDependency from the answer on.  A package that depends on itself is
\* left out.
Answer(g, w, id) ==
  LET call == groups[g]
      new == IsNew(g, id)
      above == id \in call.parents
  IN  /\ Answered(g, w) /\ id \in w.range
      /\ preferred' = (IF source.hoist THEN preferred \cup {id} ELSE preferred)
      /\ IF id = g THEN groups' = [groups EXCEPT ![g].pending = @ \ {w}] /\ UNCHANGED <<waits, ignored>>
         ELSE /\ groups' = [groups EXCEPT
                   ![g].pending = @ \ {w},
                   ![g].got = @ \cup {[id |-> id, isNew |-> new,
                                       waits |-> ~ new /\ source.hoist /\ ~ above /\ WaitsFor(id, call.depth),
                                       wants |-> Dependencies(id, call.aliases)]}]
              /\ waits' = (IF new THEN Over([i \in {id} |-> [depth |-> call.depth, resolved |-> FALSE, missing |-> {}]], waits)
                           ELSE waits)
              /\ ignored' = (ignored \/ (~ new /\ source.hoist /\ ~ above /\ ~ WaitsFor(id, call.depth)))
      /\ UNCHANGED <<source, children, importers, ended, refusals>>

\* A request that fails ends everything, but for an optional dependency.
Refused(g, w) ==
  /\ Answered(g, w) /\ refusals < MaxRefusals /\ refusals' = refusals + 1
  /\ IF w.optional THEN groups' = [groups EXCEPT ![g].pending = @ \ {w}] /\ UNCHANGED ended
     ELSE ended' = "failed" /\ UNCHANGED groups
  /\ UNCHANGED <<source, waits, children, preferred, importers, ignored>>

At(g, phase) == g \in DOMAIN groups /\ groups[g].phase = phase /\ ended = "no"
Current(call) == [n \in {NamedAs[c.id] : c \in call.got} |-> (CHOOSE c \in call.got : NamedAs[c.id] = n).id]
Around(call) == Over(Current(call), call.aliases)
NewOnes(call) == {c \in call.got : c.isNew}
InFirst(g) == g \in Projects /\ importers[g].stage = "first"

\* All were answered: the children of the new ones are resolved.  The projects
\* wait for one another here.
StartChildren(g) ==
  LET call == groups[g]
  IN  /\ At(g, "asking") /\ call.pending = {}
      /\ InFirst(g) => \A p \in Projects : groups[p].pending = {}
      /\ groups' = Over([c \in {x.id : x \in NewOnes(call)} |->
                           LET new == CHOOSE x \in NewOnes(call) : x.id = c
                           IN  Call(new.wants, Around(call), call.depth + 1, call.parents \cup {c})],
                        [groups EXCEPT ![g].phase = "children"])
      /\ UNCHANGED <<source, waits, children, preferred, importers, ended, refusals, ignored>>

\* Mutant of Addresses: only those whose children were resolved here.
NewAddresses(call) == {c.id : c \in NewOnes(call)}

Addresses(call) == {c.id : c \in call.got}

EndChildren(g) ==
  /\ At(g, "children") /\ \A c \in NewOnes(groups[g]) : groups[c.id].phase = "done"
  /\ children' = (IF g \in Projects THEN children ELSE Over([i \in {g} |-> Addresses(groups[g])], children))
  /\ groups' = [groups EXCEPT ![g].phase = "peers"]
  /\ UNCHANGED <<source, waits, preferred, importers, ended, refusals, ignored>>

\* Mutant of OwnMissing: only the children report what they miss.
NoOwnMissing(call) == NoResult

\* filterMissingPeersFromPkgAddresses: found next to it.
OwnMissing(call) ==
  FilterMissingPeers([missing |-> UNION {source.peers[c.id] : c \in call.got}, resolved |-> {}], Current(call))

\* What the call misses: the new children looked around it, those that were
\* waited for only around what is above it, but for a project's first call.
PeersResult(g) ==
  LET call == groups[g]
      above == IF InFirst(g) THEN Around(call) ELSE call.aliases
      results == {OwnMissing(call)}
        \cup {FilterMissingPeers(groups[c.id].result, Around(call)) : c \in NewOnes(call)}
        \cup {FilterMissingPeers([missing |-> waits[c.id].missing, resolved |-> {}], above) :
                c \in {x \in call.got : x.waits}}
  IN  IF source.hoist
      THEN [missing |-> MergePkgsDeps(UNION {r.missing : r \in results}),
            resolved |-> UNION {r.resolved : r \in results}]
      ELSE NoResult

Done(g) == [groups EXCEPT ![g].phase = "done", ![g].got = {}, ![g].aliases = <<>>]

EndPackage(g) ==
  /\ At(g, "peers") /\ g \notin Projects
  /\ \A c \in groups[g].got : c.waits => waits[c.id].resolved
  /\ groups' = [Done(g) EXCEPT ![g].result = PeersResult(g)]
  /\ waits' = [waits EXCEPT ![g].resolved = TRUE, ![g].missing = PeersResult(g).missing]
  /\ UNCHANGED <<source, children, preferred, importers, ended, refusals, ignored>>

\* A project: stages "first", "loop", "round" of required peers, "ready",
\* "optional" round, and "again".
EndProject(p) ==
  LET result == IF InFirst(p) THEN PeersResult(p)
                ELSE FilterMissingPeers(PeersResult(p), importers[p].aliases)
      stage == IF importers[p].stage = "optional" THEN "again" ELSE "loop"
  IN  /\ At(p, "peers") /\ \A c \in groups[p].got : c.waits => waits[c.id].resolved
      /\ importers' = [importers EXCEPT ![p].stage = stage, ![p].deps = @ \cup Addresses(groups[p]),
                                        ![p].missing = result.missing, ![p].resolved = result.resolved]
      /\ groups' = Done(p)
      /\ UNCHANGED <<source, waits, children, preferred, ended, refusals, ignored>>

Stages == {importers[p].stage : p \in Projects}

\* One of the packages of each name, by the order in which they came.
OneOfEach(resolved, but) ==
  {f \in [{r.name : r \in resolved} \ but -> Packages] : \A n \in DOMAIN f : [name |-> n, id |-> f[n]] \in resolved}

\* The loop of one project in resolveRootDependencies.
Loop(p) ==
  LET known == {NamedAs[d] : d \in importers[p].deps} \cup DOMAIN importers[p].aliases
      aliases == [n \in known |-> "true"]
      required == {m \in importers[p].missing : ~ m.optional}
      wanted == HoistPeers(required)
  IN  /\ At(p, "done") /\ importers[p].stage = "loop" /\ "first" \notin Stages
      /\ source.hoist
      /\ \E more \in IF source.auto THEN OneOfEach(importers[p].resolved, known) ELSE {<<>>} :
           importers' = [importers EXCEPT
             ![p].stage = IF wanted = {} THEN "ready" ELSE "round",
             ![p].deps = @ \cup {more[n] : n \in DOMAIN more},
             ![p].aliases = aliases,
             ![p].optional = @ \cup {m \in importers[p].missing : m.optional}]
      /\ groups' = (IF wanted = {} THEN groups ELSE [groups EXCEPT ![p] = Call(wanted, aliases, 0, {})])
      /\ UNCHANGED <<source, waits, children, preferred, ended, refusals, ignored>>

\* All projects have what they require: the optional peers that are there are
\* added, and it begins again.
HoistOptional ==
  LET wanted == [p \in Projects |-> HoistableOptionalPeers(importers[p].optional)]
  IN  /\ ended = "no" /\ Stages = {"ready"}
      /\ \E p \in Projects : wanted[p] # {}
      /\ importers' = [p \in Projects |->
           [importers[p] EXCEPT !.stage = IF wanted[p] = {} THEN "again" ELSE "optional", !.optional = {}]]
      /\ groups' = [g \in DOMAIN groups |->
           IF g \in Projects /\ wanted[g] # {} THEN Call(wanted[g], importers[g].aliases, 0, {}) ELSE groups[g]]
      /\ UNCHANGED <<source, waits, children, preferred, ended, refusals, ignored>>

BeginAgain ==
  /\ ended = "no" /\ Stages = {"again"}
  /\ importers' = [p \in Projects |-> [importers[p] EXCEPT !.stage = "loop"]]
  /\ UNCHANGED <<source, groups, waits, children, preferred, ended, refusals, ignored>>

Resolved ==
  /\ ended = "no" /\ ended' = "ok"
  /\ IF source.hoist
     THEN Stages = {"ready"} /\ \A p \in Projects : HoistableOptionalPeers(importers[p].optional) = {}
     ELSE Stages = {"loop"}
  /\ UNCHANGED <<source, groups, waits, children, preferred, importers, refusals, ignored>>

\* The resolution is over, or everyone waits for promises.
Waiting == UNCHANGED treeVars

Step ==
  \/ \E g \in DOMAIN groups : \/ \E w \in groups[g].pending : Refused(g, w) \/ \E id \in w.range : Answer(g, w, id)
                              \/ StartChildren(g) \/ EndChildren(g) \/ EndPackage(g)
  \/ \E p \in Projects : EndProject(p) \/ Loop(p)
  \/ HoistOptional \/ BeginAgain \/ Resolved
Next == Step \/ Waiting
SafetySpec == Init /\ [][Next]_treeVars
Spec == SafetySpec /\ WF_treeVars(Step)

-----------------------------------------------------------------------------
TreeTypeOK ==
  /\ source \in Sources /\ DOMAIN groups \subseteq Projects \cup Packages
  /\ DOMAIN waits \subseteq Packages /\ DOMAIN children \subseteq DOMAIN waits /\ preferred \subseteq Packages
  /\ \A g \in DOMAIN groups : groups[g].phase \in {"asking", "children", "peers", "done"}
  /\ Stages \subseteq {"first", "loop", "round", "ready", "optional", "again"}
  /\ ended \in {"no", "ok", "failed"} /\ refusals \in 0..MaxRefusals

\* buildTree: where a package is found in the tree, with the names around it.
Occurrences ==
  LET grown[n \in 0..Cardinality(Packages)] ==
        IF n = 0 THEN UNION {{[id |-> d, around |-> {NamedAs[e] : e \in importers[p].deps}] :
                                d \in importers[p].deps} : p \in Projects}
        ELSE grown[n - 1] \cup UNION {{[id |-> d, around |-> o.around \cup {NamedAs[e] : e \in children[o.id]}] :
                                         d \in children[o.id]} : o \in grown[n - 1]}
  IN  grown[Cardinality(Packages)]

\* Whatever was found in whatever order: the children of every package of the
\* tree are there, one for each dependency, if no request failed.
TreeIsWhole == ended = "ok" =>
  /\ \A p \in Projects : importers[p].deps \subseteq DOMAIN children
  /\ \A id \in DOMAIN children :
       /\ children[id] \subseteq DOMAIN children
       /\ refusals = 0 /\ source.auto => \A w \in Dependencies(id, <<>>) : w.range \cap (children[id] \cup {id}) # {}

\* With auto-install-peers every required peer is around every copy of a
\* package, unless its ranges have nothing in common; but where a package was
\* found again below the place it is resolved at, before that had ended, what
\* its children miss there may stay missing.
PeersAreInstalled == ended = "ok" /\ source.auto /\ ~ ignored =>
  \A o \in Occurrences : \A m \in source.peers[o.id] :
    \/ m.optional \/ m.name \in o.around
    \/ ~ \E p \in Packages : \A q \in DOMAIN children : \A x \in source.peers[q] : x.name = m.name => p \in x.range

\* However the answers come, nobody waits forever and the peers are found.
ResolutionEnded == ended # "no"
=============================================================================

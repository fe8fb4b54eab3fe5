---------------------------- MODULE MCBuildModules ----------------------------
\* Instances of BuildModules for TLC: four nodes, the last two of which are
\* locations of one package in the hoisted layout.
EXTENDS BuildModules, TLC

PathOf == <<"p", "q", "r", "r">>
OwnPathOf == <<"p", "q", "r", "s">>

DepGraphs ==
  {g \in [1..4 -> SUBSET (1..4)] :
     /\ \A n \in 1..4 : n \notin g[n]
     /\ g[3] \subseteq {2, 4} /\ g[4] \subseteq {3}}

\* Without hoisted locations: optional packages, packages built before, packages
\* without an index.  With them: scripts at both locations of the package, or at
\* one because the other was there before.
Plan(g) ==
  [deps |-> g, roots |-> {1, 2}, needs |-> {1, 3, 4}, skip |-> {}, unindexed |-> {},
   optional |-> {}, hoisted |-> FALSE]
Variants(p) ==
  {p, [p EXCEPT !.needs = {1, 2, 4}, !.optional = {2}],
   [p EXCEPT !.needs = {1, 2, 3, 4}, !.skip = {2}],
   [p EXCEPT !.hoisted = TRUE], [p EXCEPT !.hoisted = TRUE, !.optional = {3, 4}],
   [p EXCEPT !.unindexed = {3}],
   [p EXCEPT !.hoisted = TRUE, !.needs = {1, 2, 4}], [p EXCEPT !.needs = {}]}

FourPlans == UNION {Variants(Plan(g)) : g \in DepGraphs}

\* Acyclic: two ways to a package with scripts, one of them through others.
ChainPlans ==
  {[Plan(g) EXCEPT !.needs = needs] :
     g \in {g \in DepGraphs : 1 \notin g[2] /\ g[3] \subseteq {4} /\ g[4] = {}},
     needs \in {{1, 4}, {1, 2, 4}}}
=============================================================================

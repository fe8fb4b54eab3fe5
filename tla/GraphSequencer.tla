----------------------------- MODULE GraphSequencer -----------------------------
(***************************************************************************)
(* graphSequencer() of deps/graph-sequencer/src/index.ts: the topological  *)
(* sort behind the order of builds, of recursive scripts and of installs   *)
(* in a workspace.  graph[n] holds the dependencies of n; chunks are run   *)
(* one after another, the nodes of a chunk together.                       *)
(*                                                                         *)
(* Nodes without dependencies left are released as a chunk.  When there is *)
(* none, the nodes are scanned in their order and every cycle found is     *)
(* taken out; the cycles of one scan make a chunk.                         *)
(*                                                                         *)
(* The order of the edges of a node is abstracted: where the breadth-first *)
(* search may find several cycles of the same length, it finds any.        *)
(***************************************************************************)
EXTENDS Naturals, FiniteSets, Sequences

CONSTANTS
  Nodes,      \* the keys of the graph
  Graphs,     \* the graphs to sort
  Orders      \* the sequences of included nodes to sort

ASSUME SequencerConstants ==
  /\ IsFiniteSet(Nodes)
  /\ Graphs \subseteq [Nodes -> SUBSET Nodes]
  /\ Orders \subseteq Seq(Nodes)

VARIABLES
  graph, order,     \* the arguments
  nodes,            \* the included nodes that are not in a chunk yet
  outDegree,
  scan,             \* position of the scan for cycles, 0 outside of it
  group,            \* the nodes of the cycles found by this scan
  chunks, cycles, safe

vars == <<graph, order, nodes, outDegree, scan, group, chunks, cycles, safe>>

\* The included nodes.
included == {order[i] : i \in DOMAIN order}

TypeOK ==
  /\ graph \in [Nodes -> SUBSET Nodes]
  /\ order \in Seq(Nodes)
  /\ nodes \subseteq included
  /\ outDegree \in [Nodes -> Nat]
  /\ scan \in 0..(Len(order) + 1)
  /\ group \subseteq included
  /\ chunks \in Seq(SUBSET Nodes)
  /\ cycles \in Seq(SUBSET Nodes)
  /\ safe \in BOOLEAN

Init ==
  /\ graph \in Graphs /\ order \in Orders
  /\ nodes = included
  /\ outDegree = [n \in Nodes |->
                    IF n \in included THEN Cardinality(graph[n] \cap included) ELSE 0]
  /\ scan = 0 /\ group = {}
  /\ chunks = <<>> /\ cycles = <<>> /\ safe = TRUE

-----------------------------------------------------------------------------
\* findCycle: breadth-first from n over the nodes that are left

Walks(n, k) ==
  {w \in [0..k -> nodes] : w[0] = n /\ \A i \in 1..k : w[i] \in graph[w[i - 1]]}

\* The walk that the search keeps for its last node is a shortest one.
Shortest(n, w, k) == \A j \in 0..(k - 1) : \A u \in Walks(n, j) : u[j] # w[k]

\* The cycles of k + 1 nodes the search finds.
Closings(n, k) == {w \in Walks(n, k) : n \in graph[w[k]] /\ Shortest(n, w, k)}

Lengths == 0..(Cardinality(Nodes) - 1)

\* Mutant of FoundCycles: a node that depends on itself is not a cycle.
FoundLongCycles(n) ==
  UNION {{{w[i] : i \in 0..k} : w \in Closings(n, k)} :
           k \in {k \in Lengths \ {0} : \A l \in Lengths : l > k => Closings(n, l) = {}}}

\* The longest of them is the result.
FoundCycles(n) ==
  UNION {{{w[i] : i \in 0..k} : w \in Closings(n, k)} :
           k \in {k \in Lengths : \A l \in Lengths : l > k => Closings(n, l) = {}}}

-----------------------------------------------------------------------------
\* The main loop

\* Mutants of Remove: a node that depends on several removed ones is counted
\* down once; nodes that are not included are counted down, too.
RemoveOnce(S) ==
  /\ nodes' = nodes \ S
  /\ outDegree' = [n \in Nodes |->
       IF n \in included /\ graph[n] \cap S # {} THEN outDegree[n] - 1 ELSE outDegree[n]]
RemoveUnfiltered(S) ==
  /\ nodes' = nodes \ S
  /\ outDegree' = [n \in Nodes |-> outDegree[n] - Cardinality(graph[n] \cap S)]

\* removeNode for every node of S.
Remove(S) ==
  /\ nodes' = nodes \ S
  /\ outDegree' = [n \in Nodes |->
       IF n \in included THEN outDegree[n] - Cardinality(graph[n] \cap S) ELSE outDegree[n]]

\* Mutant of Free: one dependency may be left.
AlmostFree == {n \in nodes : outDegree[n] <= 1}

Free == {n \in nodes : outDegree[n] = 0}

ReleaseFree ==
  /\ scan = 0 /\ Free # {}
  /\ Remove(Free)
  /\ chunks' = Append(chunks, Free)
  /\ UNCHANGED <<graph, order, scan, group, cycles, safe>>

StartScan ==
  /\ scan = 0 /\ nodes # {} /\ Free = {}
  /\ scan' = 1 /\ group' = {}
  /\ UNCHANGED <<graph, order, nodes, outDegree, chunks, cycles, safe>>

\* Mutant of Unsafe: two nodes that depend on each other are accepted.
UnsafeFromThree(cycle) == Cardinality(cycle) > 2

\* A cycle of more than one node makes the result unsafe.
Unsafe(cycle) == Cardinality(cycle) > 1

\* Mutant of TakeCycle: the chunk gets the last cycle only.
TakeLastCycle ==
  /\ scan \in DOMAIN order /\ order[scan] \in nodes
  /\ \E cycle \in FoundCycles(order[scan]) :
       /\ Remove(cycle)
       /\ group' = cycle
       /\ cycles' = Append(cycles, cycle)
       /\ safe' = (safe /\ ~Unsafe(cycle))
  /\ scan' = scan + 1
  /\ UNCHANGED <<graph, order, chunks>>

TakeCycle ==
  /\ scan \in DOMAIN order /\ order[scan] \in nodes
  /\ \E cycle \in FoundCycles(order[scan]) :
       /\ Remove(cycle)
       /\ group' = group \cup cycle
       /\ cycles' = Append(cycles, cycle)
       /\ safe' = (safe /\ ~Unsafe(cycle))
  /\ scan' = scan + 1
  /\ UNCHANGED <<graph, order, chunks>>

SkipNode ==
  /\ scan \in DOMAIN order
  /\ order[scan] \in nodes => FoundCycles(order[scan]) = {}
  /\ scan' = scan + 1
  /\ UNCHANGED <<graph, order, nodes, outDegree, group, chunks, cycles, safe>>

EndScan ==
  /\ scan = Len(order) + 1
  /\ chunks' = Append(chunks, group)
  /\ scan' = 0
  /\ UNCHANGED <<graph, order, nodes, outDegree, group, cycles, safe>>

Returned == scan = 0 /\ nodes = {}

Next ==
  \/ ReleaseFree \/ StartScan \/ TakeCycle \/ SkipNode \/ EndScan
  \/ Returned /\ UNCHANGED vars

Spec == Init /\ [][Next]_vars

-----------------------------------------------------------------------------
\* Properties

\* outDegree counts the dependencies that are left, although it is updated
\* over a reversed graph, node by node, while cycles are taken out.
DegreesMatch ==
  \A n \in nodes : outDegree[n] = Cardinality(graph[n] \cap nodes)

\* The included node m depends on n, directly or not.
Reaches(m, n) ==
  \E k \in Lengths : \E w \in [0..k -> included] :
    /\ w[0] = m /\ n \in graph[w[k]]
    /\ \A i \in 1..k : w[i] \in graph[w[i - 1]]

OnCycle(n) == Reaches(n, n)

Chunked(n, i) == i \in DOMAIN chunks /\ n \in chunks[i]

\* A node that is on no cycle comes in a later chunk than every one of its
\* dependencies, whatever cycles there are elsewhere in the graph.
NodesOffCyclesWait ==
  \A i \in DOMAIN chunks : \A n \in chunks[i] :
    OnCycle(n) \/ \A m \in graph[n] \cap included : \E j \in 1..(i - 1) : Chunked(m, j)

\* Every included node is in one chunk, no other node is.
ChunksPartition ==
  Returned => /\ \A n \in included : \E i \in DOMAIN chunks : Chunked(n, i)
              /\ \A i \in DOMAIN chunks : chunks[i] \subseteq included
              /\ \A i, j \in DOMAIN chunks : i # j => chunks[i] \cap chunks[j] = {}

\* The result is safe exactly if no included node is on a cycle with another.
SafeIsAcyclic ==
  Returned => (safe <=> \A n, m \in included : n # m => ~(Reaches(n, m) /\ Reaches(m, n)))

\* When every node has dependencies left, the scan finds a cycle: no chunk is
\* empty, and the loop ends.
EveryScanFindsACycle == scan = Len(order) + 1 => group # {}

\* "Sort packages topologically (dependencies before dependents)"
\* (pnpm/src/cmd/recursive.ts, line 97): a dependency that does not depend
\* back never comes after its dependent.  Cycles that depend on one another
\* through a third node break this: one scan takes out all of them.
DependenciesBeforeDependents ==
  \A i \in DOMAIN chunks : \A n \in chunks[i] : \A m \in graph[n] \cap included :
    Reaches(m, n) \/ \A j \in DOMAIN chunks : Chunked(m, j) => j <= i
=============================================================================

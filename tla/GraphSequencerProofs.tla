-------------------------- MODULE GraphSequencerProofs --------------------------
(***************************************************************************)
(* Proofs about GraphSequencer, for every finite graph, every order of its *)
(* nodes and every set of included nodes: the degrees are right, the       *)
(* chunks partition the included nodes, a node that is on no cycle comes   *)
(* after all its dependencies, a scan finds a cycle, and the order is      *)
(* called safe only if there is none.                                      *)
(***************************************************************************)
EXTENDS GraphSequencer, FiniteSetTheorems, WellFoundedInduction, TLAPS

\* Every variable but outDegree has its type.
Typed ==
  /\ graph \in [Nodes -> SUBSET Nodes] /\ order \in Seq(Nodes) /\ included \subseteq Nodes
  /\ nodes \subseteq included /\ scan \in 0..(Len(order) + 1) /\ group \subseteq included
  /\ chunks \in Seq(SUBSET Nodes) /\ cycles \in Seq(SUBSET Nodes) /\ safe \in BOOLEAN

\* The degrees of all nodes, removed ones included.
DegreesCount ==
  outDegree = [n \in Nodes |->
                 IF n \in included THEN Cardinality(graph[n] \cap nodes) ELSE 0]

\* A node is left, in the group of the scan, or in one of the chunks.
Partition ==
  /\ \A n \in included : n \in nodes \/ (scan > 0 /\ n \in group)
                         \/ \E i \in DOMAIN chunks : n \in chunks[i]
  /\ scan > 0 => group \cap nodes = {}
  /\ \A i \in DOMAIN chunks : /\ chunks[i] \subseteq included /\ chunks[i] \cap nodes = {}
                              /\ scan > 0 => chunks[i] \cap group = {}
  /\ \A i, j \in DOMAIN chunks : i # j => chunks[i] \cap chunks[j] = {}

GroupOnCycles == scan > 0 => \A n \in group : OnCycle(n)

IInv == Typed /\ DegreesCount /\ Partition /\ GroupOnCycles /\ NodesOffCyclesWait

-----------------------------------------------------------------------------
\* Removing nodes

\* Sets of nodes are finite.
LEMMA FiniteNodes ==
  ASSUME NEW S \in SUBSET Nodes
  PROVE  IsFiniteSet(S) /\ Cardinality(S) \in Nat
BY SequencerConstants, FS_Subset, FS_CardinalityType

\* Remove keeps the degrees right: each one loses what is removed.
LEMMA RemoveCounts ==
  ASSUME Typed, DegreesCount, NEW S \in SUBSET nodes, Remove(S), UNCHANGED <<graph, included>>
  PROVE  DegreesCount'
<1>1. ASSUME NEW n \in included
      PROVE  Cardinality(graph[n] \cap nodes) - Cardinality(graph[n] \cap S)
               = Cardinality(graph[n] \cap (nodes \ S))
  <2> DEFINE D == graph[n] \cap nodes
  <2>1. D \in SUBSET Nodes /\ n \in Nodes
    BY DEF Typed
  <2>2. IsFiniteSet(D)
    BY <2>1, FiniteNodes
  <2>3. Cardinality(D \ S) = Cardinality(D) - Cardinality(D \cap S)
    BY <2>2, FS_Difference
  <2>4. D \ S = graph[n] \cap (nodes \ S) /\ D \cap S = graph[n] \cap S
    OBVIOUS
  <2> QED BY <2>3, <2>4
<1>2. outDegree' = [n \in Nodes |->
        IF n \in included THEN Cardinality(graph[n] \cap (nodes \ S)) ELSE 0]
  BY <1>1 DEF Remove, DegreesCount, Typed
<1> QED BY <1>2 DEF Remove, DegreesCount

-----------------------------------------------------------------------------
\* Cycles

\* A closed walk can be entered anywhere: each of its nodes is on a cycle.
LEMMA ClosedWalk ==
  ASSUME NEW k \in Lengths, NEW w \in [0..k -> included], w[0] \in graph[w[k]],
         \A i \in 1..k : w[i] \in graph[w[i - 1]], NEW p \in 0..k
  PROVE  OnCycle(w[p])
<1>1. k \in Nat
  BY FiniteNodes, SequencerConstants DEF Lengths
<1> DEFINE r == [i \in 0..k |-> IF p + i <= k THEN w[p + i] ELSE w[p + i - k - 1]]
<1>2. r \in [0..k -> included]
  BY <1>1
<1>3. r[0] = w[p]
  BY <1>1
<1>4. w[p] \in graph[r[k]]
  <2>1. CASE p = 0
    BY <1>1, <2>1
  <2>2. CASE p > 0
    <3>1. r[k] = w[p - 1]
      BY <1>1, <2>2
    <3> QED BY <1>1, <2>2, <3>1
  <2> QED BY <1>1, <2>1, <2>2
<1>5. ASSUME NEW i \in 1..k PROVE r[i] \in graph[r[i - 1]]
  <2>1. i \in 0..k /\ i - 1 \in 0..k
    BY <1>1
  <2>2. CASE p + i <= k
    <3>1. r[i] = w[p + i] /\ r[i - 1] = w[p + i - 1] /\ p + i \in 1..k
      BY <1>1, <2>1, <2>2
    <3> QED BY <3>1
  <2>3. CASE p + i = k + 1
    <3>1. r[i] = w[0] /\ r[i - 1] = w[k]
      BY <1>1, <2>1, <2>3
    <3> QED BY <3>1
  <2>4. CASE p + i > k + 1
    <3> DEFINE l == p + i - k - 1
    <3>1. l \in 1..k /\ p + (i - 1) - k - 1 = l - 1
      BY <1>1, <2>1, <2>4
    <3>2. r[i] = w[l]
      BY <1>1, <2>1, <2>4
    <3>3. r[i - 1] = IF p + (i - 1) <= k THEN w[p + (i - 1)] ELSE w[p + (i - 1) - k - 1]
      BY <2>1
    <3>4. ~(p + (i - 1) <= k)
      BY <1>1, <2>1, <2>4
    <3>5. r[i - 1] = w[l - 1]
      BY <3>1, <3>3, <3>4
    <3>6. \A m \in 1..k : w[m] \in graph[w[m - 1]]
      OBVIOUS
    <3> HIDE DEF l
    <3>7. w[l] \in graph[w[l - 1]]
      BY <3>1, <3>6
    <3> QED BY <3>2, <3>5, <3>7
  <2>5. p + i <= k \/ p + i = k + 1 \/ p + i > k + 1
    BY <1>1, <2>1
  <2> HIDE DEF r
  <2> QED BY <2>2, <2>3, <2>4, <2>5
<1> QED BY <1>2, <1>3, <1>4, <1>5 DEF OnCycle, Reaches

\* What the search finds are nodes that are left, all of them on a cycle.
LEMMA CyclesFound ==
  ASSUME Typed, NEW n \in nodes, NEW cycle \in FoundCycles(n)
  PROVE  cycle \subseteq nodes /\ \A m \in cycle : OnCycle(m)
<1>0. PICK k \in Lengths : \E w \in Closings(n, k) : cycle = {w[i] : i \in 0..k}
  BY DEF FoundCycles
<1>1. PICK w \in Closings(n, k) : cycle = {w[i] : i \in 0..k}
  BY <1>0
<1>2. /\ w \in [0..k -> nodes] /\ w[0] = n /\ n \in graph[w[k]]
      /\ \A i \in 1..k : w[i] \in graph[w[i - 1]]
  BY <1>1 DEF Closings, Walks
<1>3. w \in [0..k -> included]
  BY <1>2 DEF Typed
<1>4. \A p \in 0..k : OnCycle(w[p])
  BY <1>2, <1>3, ClosedWalk
<1> QED BY <1>1, <1>2, <1>4

-----------------------------------------------------------------------------
\* Adding a chunk

\* Adding a chunk of nodes whose dependencies are in earlier chunks, or that
\* are on cycles, keeps the order.
LEMMA AppendKeepsOrder ==
  ASSUME Typed, NodesOffCyclesWait, NEW C \in SUBSET Nodes,
         chunks' = Append(chunks, C), UNCHANGED <<graph, included>>,
         \A n \in C : OnCycle(n) \/ \A m \in graph[n] \cap included :
                                      \E j \in DOMAIN chunks : m \in chunks[j]
  PROVE  NodesOffCyclesWait'
<1> DEFINE L == Len(chunks)
<1>1. /\ L \in Nat /\ DOMAIN chunks = 1..L /\ DOMAIN chunks' = 1..(L + 1)
      /\ chunks'[L + 1] = C /\ \A i \in 1..L : chunks'[i] = chunks[i]
  BY DEF Typed
<1>2. \A n : OnCycle(n)' <=> OnCycle(n)
  BY DEF OnCycle, Reaches
<1>3. ASSUME NEW i \in 1..L, NEW n \in chunks[i]
      PROVE  OnCycle(n) \/ \A m \in graph[n] \cap included : \E j \in 1..(i - 1) : Chunked(m, j)'
  <2>1. \A m : \A j \in 1..(i - 1) : Chunked(m, j) => Chunked(m, j)'
    BY <1>1 DEF Chunked
  <2> QED BY <1>1, <2>1 DEF NodesOffCyclesWait
<1>4. ASSUME NEW n \in C
      PROVE  OnCycle(n) \/ \A m \in graph[n] \cap included : \E j \in 1..L : Chunked(m, j)'
  BY <1>1 DEF Chunked
<1>5. ASSUME NEW i \in DOMAIN chunks', NEW n \in chunks'[i]
      PROVE  OnCycle(n) \/ \A m \in graph[n] \cap included : \E j \in 1..(i - 1) : Chunked(m, j)'
  <2>1. CASE i = L + 1
    BY <1>1, <1>4, <2>1
  <2>2. CASE i \in 1..L
    BY <1>1, <1>3, <2>2
  <2> QED BY <1>1, <2>1, <2>2
<1> QED BY <1>2, <1>5 DEF NodesOffCyclesWait

\* The partition when a set of nodes that are left, or the group, is added.
LEMMA AppendPartition ==
  ASSUME Typed, Partition, NEW C \in SUBSET included, scan' = 0,
         chunks' = Append(chunks, C), included' = included,
         C \cap nodes' = {}, nodes' \subseteq nodes,
         \A i \in DOMAIN chunks : chunks[i] \cap C = {},
         \A n \in included : n \in nodes \/ (scan > 0 /\ n \in group) => n \in nodes' \cup C
  PROVE  Partition'
<1> DEFINE L == Len(chunks)
<1>1. /\ L \in Nat /\ DOMAIN chunks = 1..L /\ DOMAIN chunks' = 1..(L + 1)
      /\ chunks'[L + 1] = C /\ \A i \in 1..L : chunks'[i] = chunks[i]
  BY DEF Typed
<1>2. \A n \in included : n \in nodes' \/ \E i \in DOMAIN chunks' : n \in chunks'[i]
  BY <1>1 DEF Partition
<1>3. \A i \in DOMAIN chunks' : chunks'[i] \subseteq included /\ chunks'[i] \cap nodes' = {}
  BY <1>1 DEF Partition
<1>4. \A i, j \in DOMAIN chunks' : i # j => chunks'[i] \cap chunks'[j] = {}
  BY <1>1 DEF Partition
<1> QED BY <1>2, <1>3, <1>4 DEF Partition

-----------------------------------------------------------------------------
\* The inductive invariant

\* It holds initially.
LEMMA InitIInv == Init => IInv
<1> SUFFICES ASSUME Init PROVE IInv
  OBVIOUS
<1>1. Typed
  BY SequencerConstants DEF Init, Typed, included
<1>2. DegreesCount /\ Partition /\ GroupOnCycles /\ NodesOffCyclesWait
  BY DEF Init, DegreesCount, Partition, GroupOnCycles, NodesOffCyclesWait
<1> QED BY <1>1, <1>2 DEF IInv

\* Every step keeps it.
LEMMA NextIInv == IInv /\ [Next]_vars => IInv'
<1> SUFFICES ASSUME IInv, [Next]_vars PROVE IInv'
  OBVIOUS
<1> USE DEF IInv
<1>0. Len(order) \in Nat /\ DOMAIN order = 1..Len(order) /\ \A i \in DOMAIN order : order[i] \in Nodes
  BY DEF Typed
<1>1. CASE ReleaseFree
  <2>1. Free \subseteq nodes /\ UNCHANGED <<graph, order, included, scan, group, cycles, safe>>
        /\ scan = 0 /\ Remove(Free) /\ chunks' = Append(chunks, Free)
    BY <1>1 DEF ReleaseFree, Free, included
  <2>2. Typed'
    BY <2>1 DEF Typed, Remove
  <2>3. DegreesCount'
    BY <2>1, RemoveCounts
  <2>4. Partition'
    BY <2>1, AppendPartition DEF Remove, Typed, Partition
  <2>5. ASSUME NEW n \in Free, NEW m \in graph[n] \cap included
        PROVE  \E j \in DOMAIN chunks : m \in chunks[j]
    <3>1. n \in included /\ graph[n] \cap nodes \in SUBSET Nodes
      BY <2>1 DEF Typed
    <3>2. Cardinality(graph[n] \cap nodes) = 0
      BY <3>1 DEF Free, DegreesCount, Typed
    <3>3. graph[n] \cap nodes = {}
      BY <3>1, <3>2, FiniteNodes, FS_EmptySet
    <3> QED BY <2>1, <3>3 DEF Partition
  <2>6. NodesOffCyclesWait'
    <3>1. Free \in SUBSET Nodes
      BY <2>1 DEF Typed
    <3> QED BY <2>1, <2>5, <3>1, AppendKeepsOrder
  <2>7. GroupOnCycles'
    BY <2>1 DEF GroupOnCycles
  <2> QED BY <2>2, <2>3, <2>4, <2>6, <2>7
<1>2. CASE StartScan
  <2>1. UNCHANGED <<graph, order, included, nodes, outDegree, chunks, cycles, safe>>
        /\ scan' = 1 /\ group' = {} /\ scan = 0
    BY <1>2 DEF StartScan, included
  <2>2. Typed' /\ DegreesCount' /\ GroupOnCycles'
    BY <1>0, <2>1 DEF Typed, DegreesCount, GroupOnCycles
  <2>3. Partition'
    BY <2>1 DEF Partition
  <2>4. NodesOffCyclesWait'
    BY <2>1 DEF NodesOffCyclesWait, OnCycle, Reaches, Chunked
  <2> QED BY <2>2, <2>3, <2>4
<1>3. CASE TakeCycle
  <2>1. scan \in DOMAIN order /\ order[scan] \in nodes
    BY <1>3 DEF TakeCycle
  <2>2. PICK cycle \in FoundCycles(order[scan]) :
          /\ Remove(cycle) /\ group' = group \cup cycle
          /\ cycles' = Append(cycles, cycle) /\ safe' = (safe /\ ~Unsafe(cycle))
    BY <1>3 DEF TakeCycle
  <2>3. scan' = scan + 1 /\ UNCHANGED <<graph, order, included, chunks>>
    BY <1>3 DEF TakeCycle, included
  <2>4. cycle \subseteq nodes /\ \A m \in cycle : OnCycle(m)
    BY <2>1, CyclesFound
  <2>5. safe' \in BOOLEAN
    BY <2>2
  <2>6. Typed'
    BY <1>0, <2>1, <2>2, <2>3, <2>4, <2>5 DEF Typed, Remove
  <2>7. DegreesCount'
    BY <2>2, <2>3, <2>4, RemoveCounts
  <2>8. scan > 0 /\ scan' > 0
    BY <1>0, <2>1, <2>3
  <2>9. Partition'
    BY <2>2, <2>3, <2>4, <2>8 DEF Partition, Remove, Typed
  <2>10. GroupOnCycles' /\ NodesOffCyclesWait'
    <3>1. \A n : OnCycle(n)' <=> OnCycle(n)
      BY <2>3 DEF OnCycle, Reaches
    <3>2. GroupOnCycles'
      BY <2>2, <2>4, <2>8, <3>1 DEF GroupOnCycles
    <3>3. NodesOffCyclesWait'
      BY <2>3, <3>1 DEF NodesOffCyclesWait, Chunked
    <3> QED BY <3>2, <3>3
  <2> QED BY <2>6, <2>7, <2>9, <2>10
<1>4. CASE SkipNode
  <2>1. UNCHANGED <<graph, order, included, nodes, outDegree, group, chunks, cycles, safe>>
        /\ scan' = scan + 1 /\ scan \in DOMAIN order
    BY <1>4 DEF SkipNode, included
  <2>2. scan > 0 /\ scan' > 0 /\ scan' \in 0..(Len(order) + 1)
    BY <1>0, <2>1
  <2>3. Typed' /\ DegreesCount' /\ Partition'
    BY <2>1, <2>2 DEF Typed, DegreesCount, Partition
  <2>4. GroupOnCycles' /\ NodesOffCyclesWait'
    BY <2>1, <2>2 DEF GroupOnCycles, NodesOffCyclesWait, OnCycle, Reaches, Chunked
  <2> QED BY <2>3, <2>4
<1>5. CASE EndScan
  <2>1. UNCHANGED <<graph, order, included, nodes, outDegree, group, cycles, safe>>
        /\ scan' = 0 /\ scan > 0 /\ chunks' = Append(chunks, group)
    BY <1>0, <1>5 DEF EndScan, included
  <2>2. group \in SUBSET Nodes /\ group \in SUBSET included
    BY DEF Typed
  <2>3. Typed' /\ DegreesCount' /\ GroupOnCycles'
    BY <1>0, <2>1, <2>2 DEF Typed, DegreesCount, GroupOnCycles
  <2>4. Partition'
    BY <2>1, <2>2, AppendPartition DEF Partition
  <2>5. NodesOffCyclesWait'
    BY <2>1, <2>2, AppendKeepsOrder DEF GroupOnCycles
  <2> QED BY <2>3, <2>4, <2>5
<1>6. CASE UNCHANGED vars
  <2>1. Typed' /\ DegreesCount' /\ Partition'
    BY <1>6 DEF vars, Typed, DegreesCount, Partition, included
  <2>2. GroupOnCycles' /\ NodesOffCyclesWait'
    BY <1>6 DEF vars, GroupOnCycles, NodesOffCyclesWait, OnCycle, Reaches, Chunked, included
  <2> QED BY <2>1, <2>2
<1> QED BY <1>1, <1>2, <1>3, <1>4, <1>5, <1>6 DEF Next

\* The invariant holds throughout.
LEMMA SequencerInvariant == Spec => []IInv
BY InitIInv, NextIInv, PTL DEF Spec

-----------------------------------------------------------------------------
\* Every variable keeps its type; outDegree never goes below zero.
THEOREM SequencerTypeCorrect == Spec => []TypeOK
<1>1. IInv => TypeOK
  <2> SUFFICES ASSUME IInv PROVE TypeOK
    OBVIOUS
  <2>1. \A n \in Nodes : Cardinality(graph[n] \cap nodes) \in Nat
    BY FiniteNodes DEF IInv, Typed
  <2>2. outDegree \in [Nodes -> Nat]
    BY <2>1 DEF IInv, DegreesCount
  <2> QED BY <2>2 DEF IInv, Typed, TypeOK
<1> QED BY <1>1, SequencerInvariant, PTL

\* outDegree counts exactly the dependencies that are left.
THEOREM DegreesAreRight == Spec => []DegreesMatch
<1>1. IInv => DegreesMatch
  BY DEF IInv, DegreesCount, DegreesMatch, Typed
<1> QED BY <1>1, SequencerInvariant, PTL

\* In every graph, a node on no cycle comes in a later chunk than all its
\* dependencies.
THEOREM DependenciesComeFirst == Spec => []NodesOffCyclesWait
<1>1. IInv => NodesOffCyclesWait
  BY DEF IInv
<1> QED BY <1>1, SequencerInvariant, PTL

\* The chunks partition the included nodes.
THEOREM ChunksArePartition == Spec => []ChunksPartition
<1>1. IInv => ChunksPartition
  <2> SUFFICES ASSUME IInv, Returned PROVE ChunksPartition
    BY DEF ChunksPartition
  <2>1. \A n \in included : \E i \in DOMAIN chunks : Chunked(n, i)
    BY DEF IInv, Partition, Returned, Chunked
  <2> QED BY <2>1 DEF IInv, Partition, ChunksPartition
<1> QED BY <1>1, SequencerInvariant, PTL

-----------------------------------------------------------------------------
\* Paths

\* There is a path of k edges from a to b over nodes of S.
Path(S, a, b, k) ==
  \E w \in [0..k -> S] : w[0] = a /\ w[k] = b /\ \A i \in 1..k : w[i] \in graph[w[i - 1]]

\* A set of naturals has a least element.
LEMMA LeastNatural ==
  ASSUME NEW K \in SUBSET Nat, K # {}
  PROVE  \E k \in K : \A j \in K : k <= j
<1>1. PICK k \in K : \A j \in K : <<j, k>> \notin OpToRel(<, Nat)
  BY WFMin, NatLessThanWellFounded, Zenon
<1>2. \A j \in K : ~(j < k)
  BY <1>1, Zenon DEF OpToRel
<1> QED BY <1>2

\* A part of a path is a path.
LEMMA SubPath ==
  ASSUME NEW S, NEW k \in Nat, NEW w \in [0..k -> S], \A i \in 1..k : w[i] \in graph[w[i - 1]],
         NEW p \in 0..k, NEW q \in p..k
  PROVE  Path(S, w[p], w[q], q - p)
<1> DEFINE r == [i \in 0..(q - p) |-> w[p + i]]
<1>1. r \in [0..(q - p) -> S] /\ r[0] = w[p] /\ r[q - p] = w[q]
  OBVIOUS
<1>2. ASSUME NEW i \in 1..(q - p) PROVE r[i] \in graph[r[i - 1]]
  <2>1. p + i \in 1..k /\ r[i] = w[p + i] /\ r[i - 1] = w[p + i - 1]
    OBVIOUS
  <2> QED BY <2>1
<1> HIDE DEF r
<1> QED BY <1>1, <1>2 DEF Path

\* Paths are joined at their ends.
LEMMA JoinPaths ==
  ASSUME NEW S, NEW a, NEW b, NEW c, NEW k \in Nat, NEW l \in Nat,
         Path(S, a, b, k), Path(S, b, c, l)
  PROVE  Path(S, a, c, k + l)
<1>1. PICK u \in [0..k -> S] : u[0] = a /\ u[k] = b /\ \A i \in 1..k : u[i] \in graph[u[i - 1]]
  BY DEF Path
<1>2. PICK v \in [0..l -> S] : v[0] = b /\ v[l] = c /\ \A i \in 1..l : v[i] \in graph[v[i - 1]]
  BY DEF Path
<1> DEFINE r == [i \in 0..(k + l) |-> IF i <= k THEN u[i] ELSE v[i - k]]
<1>3. r \in [0..(k + l) -> S] /\ r[0] = a
  BY <1>1, <1>2
<1>4. r[k + l] = c
  <2>1. CASE l = 0
    BY <1>1, <1>2, <2>1
  <2>2. CASE l > 0
    BY <1>2, <2>2
  <2> QED BY <2>1, <2>2
<1>5. ASSUME NEW i \in 1..(k + l) PROVE r[i] \in graph[r[i - 1]]
  <2>1. CASE i <= k
    <3>1. r[i] = u[i] /\ r[i - 1] = u[i - 1] /\ i \in 1..k
      BY <2>1
    <3> HIDE DEF r
    <3> QED BY <1>1, <3>1
  <2>2. CASE i = k + 1
    <3>1. r[i] = v[1] /\ r[i - 1] = u[k] /\ 1 \in 1..l
      BY <2>2
    <3> HIDE DEF r
    <3>2. v[1] \in graph[v[1 - 1]]
      BY <1>2, <3>1
    <3> QED BY <1>1, <1>2, <3>1, <3>2
  <2>3. CASE i > k + 1
    <3> DEFINE m == i - k
    <3>1. r[i] = v[m] /\ r[i - 1] = v[m - 1] /\ m \in 1..l
      BY <2>3
    <3> HIDE DEF r, m
    <3> QED BY <1>2, <3>1
  <2> QED BY <2>1, <2>2, <2>3
<1> HIDE DEF r
<1> QED BY <1>3, <1>4, <1>5 DEF Path

\* Where there is a path there is a shortest one, and it visits no node twice:
\* its length is one that the search for cycles looks at.
LEMMA ShortestPath ==
  ASSUME NEW S \in SUBSET Nodes, NEW a, NEW b, NEW k \in Nat, Path(S, a, b, k)
  PROVE  \E l \in Lengths : Path(S, a, b, l) /\ \A j \in 0..(l - 1) : ~Path(S, a, b, j)
<1> DEFINE K == {l \in Nat : Path(S, a, b, l)}
<1>1. PICK l \in K : \A j \in K : l <= j
  BY LeastNatural
<1>2. PICK w \in [0..l -> S] : w[0] = a /\ w[l] = b /\ \A i \in 1..l : w[i] \in graph[w[i - 1]]
  BY <1>1 DEF Path
<1>3. ASSUME NEW i \in 0..l, NEW j \in (i + 1)..l PROVE w[i] # w[j]
  <2> SUFFICES ASSUME w[i] = w[j] PROVE FALSE
    OBVIOUS
  <2>1. Path(S, w[0], w[i], i - 0) /\ Path(S, w[j], w[l], l - j)
    <3>1. l \in Nat /\ 0 \in 0..l /\ i \in 0..l /\ j \in 0..l /\ l \in j..l
      BY <1>1
    <3>2. Path(S, w[0], w[i], i - 0)
      BY <1>2, <3>1, SubPath
    <3>3. Path(S, w[j], w[l], l - j)
      BY <1>2, <3>1, SubPath
    <3> QED BY <3>2, <3>3
  <2>2. Path(S, a, b, i + (l - j))
    <3>1. Path(S, a, w[i], i) /\ Path(S, w[i], b, l - j)
      BY <1>1, <1>2, <2>1
    <3> QED BY <1>1, <3>1, JoinPaths
  <2>3. i + (l - j) \in K /\ i + (l - j) < l
    BY <1>1, <2>2
  <2> QED BY <1>1, <2>3
<1>4. IsFiniteSet(S) /\ Cardinality(S) \in Nat /\ Cardinality(S) <= Cardinality(Nodes)
      /\ Cardinality(Nodes) \in Nat
  BY SequencerConstants, FiniteNodes, FS_Subset
<1>5. IsFiniteSet(0..l) /\ Cardinality(0..l) = l + 1
  BY <1>1, FS_Interval
<1>6. ~(Cardinality(S) < Cardinality(0..l))
  <2> SUFFICES ASSUME Cardinality(S) < Cardinality(0..l) PROVE FALSE
    OBVIOUS
  <2>1. PICK x, y \in 0..l : x # y /\ w[x] = w[y]
    BY <1>4, <1>5, FS_PigeonHole
  <2>2. CASE x < y
    BY <1>3, <2>1, <2>2
  <2>3. CASE y < x
    BY <1>3, <2>1, <2>3
  <2> QED BY <2>1, <2>2, <2>3
<1>7. l \in Lengths
  BY <1>1, <1>4, <1>5, <1>6 DEF Lengths
<1>8. \A j \in 0..(l - 1) : ~Path(S, a, b, j)
  BY <1>1
<1> QED BY <1>1, <1>7, <1>8

\* A node reaches those that follow a path from it, of any length.
LEMMA PathReaches ==
  ASSUME Typed, NEW m, NEW v, NEW n, NEW k \in Nat,
         Path(included, m, v, k), n \in graph[v]
  PROVE  Reaches(m, n)
<1>1. PICK l \in Lengths : Path(included, m, v, l)
  BY ShortestPath DEF Typed
<1> QED BY <1>1 DEF Path, Reaches

\* The path behind Reaches.
LEMMA ReachesPath ==
  ASSUME NEW m, NEW n, Reaches(m, n)
  PROVE  \E k \in Nat : \E v \in included : Path(included, m, v, k) /\ n \in graph[v]
<1>1. PICK k \in Lengths : \E w \in [0..k -> included] :
        /\ w[0] = m /\ n \in graph[w[k]] /\ \A i \in 1..k : w[i] \in graph[w[i - 1]]
  BY DEF Reaches
<1>2. k \in Nat
  BY FiniteNodes, SequencerConstants DEF Lengths
<1>3. PICK w \in [0..k -> included] :
        /\ w[0] = m /\ n \in graph[w[k]] /\ \A i \in 1..k : w[i] \in graph[w[i - 1]]
  BY <1>1
<1>4. Path(included, m, w[k], k) /\ w[k] \in included
  BY <1>2, <1>3 DEF Path
<1> QED BY <1>2, <1>3, <1>4

\* A path with an edge reaches its end.
LEMMA EdgeReaches ==
  ASSUME Typed, NEW a \in included, NEW b \in included, b \in graph[a]
  PROVE  Reaches(a, b) /\ Path(included, a, b, 1)
<1>1. Path(included, a, a, 0)
  <2> DEFINE w == [i \in 0..0 |-> a]
  <2>1. w \in [0..0 -> included] /\ w[0] = a /\ \A i \in 1..0 : w[i] \in graph[w[i - 1]]
    OBVIOUS
  <2> QED BY <2>1 DEF Path
<1>2. Path(included, a, b, 1)
  <2> DEFINE w == [i \in 0..1 |-> IF i = 0 THEN a ELSE b]
  <2>1. w \in [0..1 -> included] /\ w[0] = a /\ w[1] = b /\ \A i \in 1..1 : w[i] \in graph[w[i - 1]]
    OBVIOUS
  <2> QED BY <2>1 DEF Path
<1> QED BY <1>1, <1>2, PathReaches

\* Reaches is transitive, although it looks at walks of bounded length.
LEMMA ReachesOn ==
  ASSUME Typed, NEW a, NEW b, NEW c, Reaches(a, b), b \in included, Reaches(b, c)
  PROVE  Reaches(a, c)
<1>1. PICK k \in Nat, v \in included : Path(included, a, v, k) /\ b \in graph[v]
  BY ReachesPath
<1>2. PICK l \in Nat, u \in included : Path(included, b, u, l) /\ c \in graph[u]
  BY ReachesPath
<1>3. Path(included, v, b, 1)
  BY <1>1, EdgeReaches
<1>4. Path(included, a, b, k + 1)
  BY <1>1, <1>3, JoinPaths
<1>5. Path(included, a, u, (k + 1) + l) /\ (k + 1) + l \in Nat
  BY <1>2, <1>4, JoinPaths
<1> QED BY <1>2, <1>5, PathReaches

-----------------------------------------------------------------------------
\* What the search for cycles finds

\* An edge back to n from a node it has a path to closes a cycle that the
\* search looks at; it has two nodes if the edge is not from n itself.
LEMMA ClosingsExist ==
  ASSUME Typed, NEW n, NEW v \in nodes, NEW k \in Nat, Path(nodes, n, v, k), n \in graph[v]
  PROVE  \E l \in Lengths : Closings(n, l) # {} /\ (v # n => l > 0)
<1>1. nodes \in SUBSET Nodes
  BY DEF Typed
<1>2. PICK l \in Lengths : Path(nodes, n, v, l) /\ \A j \in 0..(l - 1) : ~Path(nodes, n, v, j)
  BY <1>1, ShortestPath
<1>3. PICK w \in [0..l -> nodes] : w[0] = n /\ w[l] = v /\ \A i \in 1..l : w[i] \in graph[w[i - 1]]
  BY <1>2 DEF Path
<1>4. w \in Walks(n, l)
  BY <1>3 DEF Walks
<1>5. Shortest(n, w, l)
  <2> SUFFICES ASSUME NEW j \in 0..(l - 1), NEW u \in Walks(n, j), u[j] = w[l] PROVE FALSE
    BY DEF Shortest
  <2>1. Path(nodes, n, v, j)
    BY <1>3 DEF Walks, Path
  <2> QED BY <1>2, <2>1
<1>6. w \in Closings(n, l)
  BY <1>3, <1>4, <1>5 DEF Closings
<1>7. l \in Nat
  BY FiniteNodes, SequencerConstants DEF Lengths
<1>8. v # n => l > 0
  BY <1>3, <1>7
<1> QED BY <1>6, <1>8

\* If the search meets a cycle at all, it returns one.
LEMMA FindsLongest ==
  ASSUME NEW n, NEW l \in Lengths, Closings(n, l) # {}
  PROVE  FoundCycles(n) # {}
<1> DEFINE C == Cardinality(Nodes)
           K == {i \in Nat : i < C /\ Closings(n, C - 1 - i) # {}}
<1>1. C \in Nat /\ l \in 0..(C - 1)
  BY FiniteNodes, SequencerConstants DEF Lengths
<1>2. (C - 1) - l \in K
  BY <1>1
<1>3. PICK i \in K : \A j \in K : i <= j
  BY <1>2, LeastNatural
<1> DEFINE k == C - 1 - i
<1>4. k \in Lengths /\ Closings(n, k) # {}
  BY <1>1, <1>3 DEF Lengths
<1>5. ASSUME NEW m \in Lengths, m > k PROVE Closings(n, m) = {}
  <2> SUFFICES ASSUME Closings(n, m) # {} PROVE FALSE
    OBVIOUS
  <2>1. m \in 0..(C - 1)
    BY DEF Lengths
  <2>2. (C - 1) - m \in Nat /\ (C - 1) - m < C /\ C - 1 - ((C - 1) - m) = m
    BY <1>1, <2>1
  <2>3. (C - 1) - m \in K
    BY <2>2
  <2>4. i <= (C - 1) - m
    BY <1>3, <2>3
  <2> QED BY <1>1, <1>3, <1>5, <2>1, <2>4
<1> HIDE DEF k
<1>6. k \in {j \in Lengths : \A m \in Lengths : m > j => Closings(n, m) = {}}
  BY <1>4, <1>5
<1>7. PICK w : w \in Closings(n, k)
  BY <1>4
<1>8. {w[j] : j \in 0..k} \in FoundCycles(n)
  BY <1>6, <1>7 DEF FoundCycles
<1> QED BY <1>8

\* What it returns has n, and each node of it reaches each other.
LEMMA CyclesReach ==
  ASSUME Typed, NEW n \in nodes, NEW cycle \in FoundCycles(n)
  PROVE  n \in cycle /\ \A a, b \in cycle : Reaches(a, b)
<1>1. PICK k \in Lengths : \E w \in Closings(n, k) : cycle = {w[i] : i \in 0..k}
  BY DEF FoundCycles
<1>2. PICK w \in Closings(n, k) : cycle = {w[i] : i \in 0..k}
  BY <1>1
<1>3. /\ w \in [0..k -> included] /\ w[0] = n /\ n \in graph[w[k]]
      /\ \A i \in 1..k : w[i] \in graph[w[i - 1]]
  BY <1>2 DEF Closings, Walks, Typed
<1>4. k \in Nat /\ 0 \in 0..k /\ k \in 0..k
  BY FiniteNodes, SequencerConstants DEF Lengths
<1>5. ASSUME NEW p \in 0..k PROVE Reaches(w[p], n)
  <2>1. k \in p..k /\ k - p \in Nat
    BY <1>4
  <2>2. Path(included, w[p], w[k], k - p)
    BY <1>3, <1>4, <2>1, SubPath
  <2> QED BY <1>3, <2>1, <2>2, PathReaches
<1>6. ASSUME NEW q \in 0..k PROVE q = 0 \/ Reaches(n, w[q])
  <2> SUFFICES ASSUME q # 0 PROVE Reaches(n, w[q])
    OBVIOUS
  <2>1. q - 1 \in 0..k /\ q - 1 \in Nat /\ q \in 1..k /\ (q - 1) - 0 = q - 1
    BY <1>4
  <2>2. Path(included, w[0], w[q - 1], (q - 1) - 0)
    BY <1>3, <1>4, <2>1, SubPath
  <2>3. Path(included, n, w[q - 1], q - 1) /\ w[q] \in graph[w[q - 1]]
    BY <1>3, <2>1, <2>2
  <2> QED BY <2>1, <2>3, PathReaches
<1>7. ASSUME NEW p \in 0..k, NEW q \in 0..k PROVE Reaches(w[p], w[q])
  <2>1. CASE q = 0
    BY <1>3, <1>5, <2>1
  <2>2. CASE q # 0
    <3>1. n \in included
      BY DEF Typed
    <3> QED BY <1>5, <1>6, <2>2, <3>1, ReachesOn
  <2> QED BY <2>1, <2>2
<1> QED BY <1>2, <1>3, <1>4, <1>7

\* A finite graph in which every node has a dependency has a cycle, and the
\* search from one of its nodes finds one.
LEMMA StuckMeansCycle ==
  ASSUME Typed, nodes # {}, \A n \in nodes : graph[n] \cap nodes # {}
  PROVE  \E n \in nodes : FoundCycles(n) # {}
<1>1. PICK a : a \in nodes
  OBVIOUS
<1>2. nodes \in SUBSET Nodes /\ IsFiniteSet(nodes) /\ Cardinality(nodes) \in Nat
  BY FiniteNodes DEF Typed
<1> DEFINE Far(k) == \E b \in nodes : Path(nodes, a, b, k)
           K == {k \in Nat : ~Far(k)}
<1>3. Far(0)
  <2> DEFINE w == [i \in 0..0 |-> a]
  <2>1. w \in [0..0 -> nodes] /\ w[0] = a /\ \A i \in 1..0 : w[i] \in graph[w[i - 1]]
    BY <1>1
  <2> QED BY <1>1, <2>1 DEF Path
<1>4. ASSUME NEW k \in Nat, Far(k) PROVE Far(k + 1)
  <2>1. PICK b \in nodes : Path(nodes, a, b, k)
    BY <1>4
  <2>2. PICK c \in nodes : c \in graph[b]
    BY <2>1
  <2>3. Path(nodes, b, c, 1)
    <3> DEFINE w == [i \in 0..1 |-> IF i = 0 THEN b ELSE c]
    <3>1. w \in [0..1 -> nodes] /\ w[0] = b /\ w[1] = c /\ \A i \in 1..1 : w[i] \in graph[w[i - 1]]
      BY <2>2
    <3> QED BY <3>1 DEF Path
  <2>4. Path(nodes, a, c, k + 1)
    BY <2>1, <2>3, JoinPaths
  <2> QED BY <2>4
<1>5. K = {}
  <2> SUFFICES ASSUME K # {} PROVE FALSE
    OBVIOUS
  <2>1. K \in SUBSET Nat
    OBVIOUS
  <2> HIDE DEF K
  <2>2. PICK k \in K : \A j \in K : k <= j
    BY <2>1, LeastNatural
  <2> USE DEF K
  <2> HIDE DEF Far
  <2>3. k \in Nat /\ k # 0
    BY <1>3, <2>2
  <2>4. k - 1 \in Nat /\ Far(k - 1) /\ (k - 1) + 1 = k
    BY <2>2, <2>3
  <2> QED BY <1>4, <2>2, <2>4
<1> DEFINE C == Cardinality(nodes)
<1>6. PICK b \in nodes : Path(nodes, a, b, C)
  BY <1>2, <1>5
<1>7. PICK w \in [0..C -> nodes] : \A i \in 1..C : w[i] \in graph[w[i - 1]]
  BY <1>6 DEF Path
<1>8. \E x, y \in 0..C : x # y /\ w[x] = w[y]
  <2>1. IsFiniteSet(0..C) /\ Cardinality(0..C) = C + 1
    BY <1>2, FS_Interval
  <2>2. C < Cardinality(0..C)
    BY <1>2, <2>1
  <2> QED BY <1>2, <1>7, <2>1, <2>2, FS_PigeonHole
<1>9. PICK i \in 0..C, j \in 0..C : i < j /\ w[i] = w[j]
  <2>1. PICK x \in 0..C, y \in 0..C : x # y /\ w[x] = w[y]
    BY <1>8
  <2>2. CASE x < y
    BY <2>1, <2>2
  <2>3. CASE y < x
    BY <2>1, <2>3
  <2> QED BY <1>2, <2>1, <2>2, <2>3
<1>10. /\ j - 1 \in i..C /\ (j - 1) - i \in Nat /\ i \in 0..C /\ j \in 1..C
       /\ j - 1 \in 0..C
  BY <1>2, <1>9
<1>11. Path(nodes, w[i], w[j - 1], (j - 1) - i)
  BY <1>2, <1>7, <1>10, SubPath
<1>12. w[i] \in nodes /\ w[j - 1] \in nodes /\ w[i] \in graph[w[j - 1]]
  BY <1>7, <1>9, <1>10
<1>13. \E l \in Lengths : Closings(w[i], l) # {}
  BY <1>10, <1>11, <1>12, ClosingsExist
<1> QED BY <1>12, <1>13, FindsLongest

-----------------------------------------------------------------------------
\* Safe means acyclic, and every scan finds a cycle

\* Two nodes that depend on each other, directly or not.
Mutual(n, m) == n # m /\ Reaches(n, m) /\ Reaches(m, n)

\* Until a cycle of several nodes is taken out, all such nodes are left:
\* none of them is ever released as free.
CyclesWait ==
  safe => \A n, m \in included : Mutual(n, m) => n \in nodes

\* The result is unsafe only because of such nodes.
UnsafeIsCyclic == ~safe => \E n, m \in included : Mutual(n, m)

\* A scan that has found nothing yet looked in vain at the nodes so far, and
\* nothing changed since it started.
ScanSoFar ==
  scan > 0 /\ group = {} =>
    /\ nodes # {} /\ Free = {}
    /\ \A i \in 1..(scan - 1) : order[i] \in nodes => FoundCycles(order[i]) = {}

CycleInv == CyclesWait /\ UnsafeIsCyclic /\ ScanSoFar

\* From a node on a cycle with another, an edge goes on along that cycle.
LEMMA NextOnCycle ==
  ASSUME Typed, NEW n \in included, NEW m \in included, Mutual(n, m)
  PROVE  \E x \in graph[n] \cap included : x = n \/ Mutual(n, x)
<1>1. PICK k \in Nat, v \in included : Path(included, n, v, k) /\ m \in graph[v]
  BY ReachesPath DEF Mutual
<1>2. PICK w \in [0..k -> included] :
        w[0] = n /\ w[k] = v /\ \A i \in 1..k : w[i] \in graph[w[i - 1]]
  BY <1>1 DEF Path
<1>3. CASE k = 0
  BY <1>1, <1>2, <1>3
<1>4. CASE k > 0
  <2>1. 1 \in 1..k /\ 1 \in 0..k /\ k \in 1..k /\ k - 1 \in Nat
    BY <1>4
  <2>2. w[1] \in graph[n] /\ w[1] \in included
    <3>1. w[1] \in graph[w[1 - 1]]
      BY <1>2, <2>1
    <3> QED BY <1>2, <2>1, <3>1
  <2>3. Path(included, w[1], v, k - 1)
    BY <1>1, <1>2, <2>1, SubPath
  <2>4. Reaches(w[1], m)
    BY <1>1, <2>1, <2>3, PathReaches
  <2>5. Reaches(w[1], n)
    BY <2>4, ReachesOn DEF Mutual
  <2>6. Reaches(n, w[1])
    BY <2>2, EdgeReaches
  <2> QED BY <2>2, <2>5, <2>6 DEF Mutual
<1> QED BY <1>3, <1>4

\* Such a node is not free.
LEMMA CyclesAreNotFree ==
  ASSUME Typed, DegreesCount, CyclesWait, safe,
         NEW n \in included, NEW m \in included, Mutual(n, m)
  PROVE  n \notin Free
<1>1. PICK x \in graph[n] \cap included : x = n \/ Mutual(n, x)
  BY NextOnCycle
<1>2. Mutual(n, x) => Mutual(x, n)
  BY DEF Mutual
<1>3. n \in nodes /\ x \in nodes
  BY <1>1, <1>2 DEF CyclesWait
<1>4. n \in Nodes /\ graph[n] \cap nodes \in SUBSET Nodes
  BY DEF Typed
<1>5. Cardinality(graph[n] \cap nodes) # 0
  BY <1>1, <1>3, <1>4, FiniteNodes, FS_EmptySet
<1> QED BY <1>4, <1>5 DEF Free, DegreesCount

\* While they are all left, the search from one of them sees a cycle of more
\* than one node.
LEMMA SearchSeesLongCycle ==
  ASSUME Typed, NEW n \in included, NEW m \in included, Mutual(n, m),
         \A a, b \in included : Mutual(a, b) => a \in nodes
  PROVE  \E l \in Lengths : l > 0 /\ Closings(n, l) # {}
<1>1. PICK v \in included : v # n /\ n \in graph[v] /\ Reaches(n, v)
  <2> DEFINE K == {k \in Nat : \E v \in included : Path(included, m, v, k) /\ n \in graph[v]}
  <2>1. K # {}
    BY ReachesPath DEF Mutual
  <2>2. PICK k \in K : \A j \in K : k <= j
    BY <2>1, LeastNatural
  <2>3. PICK v \in included : Path(included, m, v, k) /\ n \in graph[v]
    BY <2>2
  <2>4. PICK w \in [0..k -> included] :
          w[0] = m /\ w[k] = v /\ \A i \in 1..k : w[i] \in graph[w[i - 1]]
    BY <2>3 DEF Path
  <2>5. CASE k = 0
    BY <2>3, <2>4, <2>5 DEF Mutual
  <2>6. CASE k > 0
    <3>1. k - 1 \in Nat /\ k - 1 \in 0..k /\ 0 \in 0..k /\ (k - 1) - 0 = k - 1 /\ k \in 1..k
      BY <2>2, <2>6
    <3>2. Path(included, m, w[k - 1], k - 1) /\ v \in graph[w[k - 1]] /\ w[k - 1] \in included
      <4>1. Path(included, w[0], w[k - 1], (k - 1) - 0)
        BY <2>2, <2>4, <3>1, SubPath
      <4> QED BY <2>4, <3>1, <4>1
    <3>3. v # n
      <4> SUFFICES ASSUME v = n PROVE FALSE
        OBVIOUS
      <4>1. k - 1 \in K
        BY <3>1, <3>2
      <4> QED BY <2>2, <4>1
    <3>4. Reaches(m, v)
      BY <3>1, <3>2, PathReaches
    <3>5. Reaches(n, v)
      BY <3>4, ReachesOn DEF Mutual
    <3> QED BY <2>3, <3>3, <3>5
  <2> QED BY <2>2, <2>5, <2>6
<1>2. PICK k \in Nat, u \in included : Path(included, n, u, k) /\ v \in graph[u]
  BY <1>1, ReachesPath
<1>3. Path(included, n, v, k + 1)
  BY <1>1, <1>2, EdgeReaches, JoinPaths
<1> DEFINE l == k + 1
<1>4. l \in Nat
  OBVIOUS
<1> HIDE DEF l
<1>5. PICK w \in [0..l -> included] :
        w[0] = n /\ w[l] = v /\ \A i \in 1..l : w[i] \in graph[w[i - 1]]
  BY <1>3 DEF Path, l
<1>6. n \in nodes
  OBVIOUS
<1>7. ASSUME NEW i \in 0..l PROVE w[i] \in nodes
  <2> SUFFICES ASSUME w[i] # n PROVE w[i] \in nodes
    BY <1>6
  <2>1. l \in i..l /\ l - i \in Nat /\ 0 \in 0..l /\ i # 0 /\ w[i] \in included
    BY <1>4, <1>5
  <2>2. Reaches(w[i], n)
    <3>1. Path(included, w[i], w[l], l - i)
      BY <1>4, <1>5, <2>1, SubPath
    <3> QED BY <1>1, <1>5, <2>1, <3>1, PathReaches
  <2>3. Reaches(n, w[i])
    <3>1. i - 1 \in 0..l /\ i - 1 \in Nat /\ (i - 1) - 0 = i - 1 /\ i \in 1..l
      BY <1>4, <2>1
    <3>2. Path(included, w[0], w[i - 1], (i - 1) - 0)
      BY <1>4, <1>5, <2>1, <3>1, SubPath
    <3>3. Path(included, n, w[i - 1], i - 1) /\ w[i] \in graph[w[i - 1]]
      BY <1>5, <3>1, <3>2
    <3> QED BY <3>1, <3>3, PathReaches
  <2> QED BY <2>1, <2>2, <2>3 DEF Mutual
<1>8. Path(nodes, n, v, l) /\ v \in nodes
  <2>1. w \in [0..l -> nodes]
    BY <1>5, <1>7
  <2> QED BY <1>4, <1>5, <2>1 DEF Path
<1> QED BY <1>1, <1>4, <1>8, ClosingsExist

\* What the search returns then has more than one node.
LEMMA TakesLongCycle ==
  ASSUME Typed, NEW n \in included, NEW m \in included, Mutual(n, m),
         \A a, b \in included : Mutual(a, b) => a \in nodes,
         NEW cycle \in FoundCycles(n)
  PROVE  \E x \in cycle : x # n
<1>1. PICK k \in {k \in Lengths : \A l \in Lengths : l > k => Closings(n, l) = {}} :
        \E w \in Closings(n, k) : cycle = {w[i] : i \in 0..k}
  BY DEF FoundCycles
<1>2. PICK w \in Closings(n, k) : cycle = {w[i] : i \in 0..k}
  BY <1>1
<1>3. k \in Nat /\ k > 0
  <2>1. PICK l \in Lengths : l > 0 /\ Closings(n, l) # {}
    BY SearchSeesLongCycle
  <2>2. k \in Nat /\ l \in Nat
    BY FiniteNodes, SequencerConstants DEF Lengths
  <2>3. ~(l > k)
    BY <1>1, <2>1
  <2> QED BY <2>1, <2>2, <2>3
<1>4. w[k] # n
  <2>1. w \in [0..k -> nodes] /\ w[0] = n /\ \A i \in 1..k : w[i] \in graph[w[i - 1]]
    BY <1>2 DEF Closings, Walks
  <2> DEFINE u == [i \in 0..0 |-> n]
  <2>2. u \in Walks(n, 0)
    <3>1. n \in nodes
      OBVIOUS
    <3>2. u \in [0..0 -> nodes] /\ u[0] = n /\ \A i \in 1..0 : u[i] \in graph[u[i - 1]]
      BY <3>1
    <3> QED BY <3>2 DEF Walks
  <2>3. 0 \in 0..(k - 1)
    BY <1>3
  <2>4. \A j \in 0..(k - 1) : \A x \in Walks(n, j) : x[j] # w[k]
    BY <1>2 DEF Closings, Shortest
  <2>5. u[0] # w[k]
    BY <2>2, <2>3, <2>4
  <2> QED BY <2>5
<1> QED BY <1>2, <1>3, <1>4

\* A cycle is unsafe if and only if it has two nodes.
LEMMA UnsafeHasTwo ==
  ASSUME NEW cycle \in SUBSET Nodes, NEW n \in cycle
  PROVE  Unsafe(cycle) <=> \E x \in cycle : x # n
<1>1. IsFiniteSet(cycle) /\ Cardinality(cycle) \in Nat
  BY FiniteNodes
<1>2. CASE \E x \in cycle : x # n
  <2>1. PICK x \in cycle : x # n
    BY <1>2
  <2>2. Cardinality({n}) = 1 /\ IsFiniteSet({n})
    BY FS_Singleton
  <2>3. Cardinality({n} \cup {x}) = 2
    BY <2>1, <2>2, FS_AddElement
  <2>4. {n} \cup {x} \subseteq cycle
    BY <2>1
  <2>5. 2 <= Cardinality(cycle)
    BY <1>1, <2>3, <2>4, FS_Subset
  <2> QED BY <1>1, <1>2, <2>5 DEF Unsafe
<1>3. CASE ~\E x \in cycle : x # n
  <2>1. cycle = {n}
    BY <1>3
  <2>2. Cardinality(cycle) = 1
    BY <2>1, FS_Singleton
  <2> QED BY <1>3, <2>2 DEF Unsafe
<1> QED BY <1>2, <1>3

\* Every step keeps the invariant about cycles.
LEMMA CycleStep ==
  ASSUME IInv, CycleInv, [Next]_vars
  PROVE  CycleInv'
<1> USE DEF CycleInv
<1>0. Typed /\ DegreesCount /\ Len(order) \in Nat /\ DOMAIN order = 1..Len(order)
      /\ scan \in Nat /\ safe \in BOOLEAN
  BY DEF IInv, Typed
<1>1. UNCHANGED <<graph, order>> /\ included' = included
  BY DEF Next, ReleaseFree, StartScan, TakeCycle, SkipNode, EndScan, vars, included
<1>2. \A n, m : (Reaches(n, m)' <=> Reaches(n, m)) /\ (Mutual(n, m)' <=> Mutual(n, m))
  BY <1>1 DEF Reaches, Mutual
<1>3. CASE ReleaseFree
  <2>1. nodes' = nodes \ Free /\ safe' = safe /\ scan' = 0 /\ scan = 0
    BY <1>3 DEF ReleaseFree, Remove
  <2>2. CyclesWait'
    BY <1>0, <1>1, <1>2, <2>1, CyclesAreNotFree DEF CyclesWait
  <2>3. UnsafeIsCyclic'
    BY <1>1, <1>2, <2>1 DEF UnsafeIsCyclic
  <2>4. ScanSoFar'
    BY <2>1 DEF ScanSoFar
  <2> QED BY <2>2, <2>3, <2>4
<1>4. CASE StartScan
  <2>1. UNCHANGED <<nodes, outDegree, safe>> /\ scan' = 1 /\ nodes # {} /\ Free = {}
    BY <1>4 DEF StartScan
  <2>2. CyclesWait' /\ UnsafeIsCyclic'
    BY <1>1, <1>2, <2>1 DEF CyclesWait, UnsafeIsCyclic
  <2>3. ScanSoFar'
    BY <2>1 DEF ScanSoFar, Free
  <2> QED BY <2>2, <2>3
<1>5. CASE TakeCycle
  <2>1. order[scan] \in nodes /\ scan \in DOMAIN order
    BY <1>5 DEF TakeCycle
  <2> DEFINE n == order[scan]
  <2>2. PICK cycle \in FoundCycles(n) :
          /\ nodes' = nodes \ cycle /\ group' = group \cup cycle
          /\ safe' = (safe /\ ~Unsafe(cycle))
    BY <1>5 DEF TakeCycle, Remove
  <2>3. n \in included /\ n \in cycle /\ cycle \subseteq included /\ cycle \in SUBSET Nodes
        /\ \A a, b \in cycle : Reaches(a, b)
    <3>1. cycle \subseteq nodes
      BY <1>0, <2>1, CyclesFound
    <3> QED BY <1>0, <2>1, <3>1, CyclesReach DEF Typed
  <2> HIDE DEF n
  <2>4. CyclesWait'
    <3> SUFFICES ASSUME safe', NEW a \in included, NEW b \in included, Mutual(a, b)
        PROVE  a \in nodes'
      BY <1>1, <1>2 DEF CyclesWait
    <3>1. safe /\ ~Unsafe(cycle)
      BY <2>2
    <3>2. \A x \in cycle : x = n
      BY <2>3, <3>1, UnsafeHasTwo
    <3>3. \A x, y \in included : Mutual(x, y) => x \in nodes
      BY <3>1 DEF CyclesWait
    <3>4. a # n
      <4> SUFFICES ASSUME a = n PROVE FALSE
        OBVIOUS
      <4> QED BY <1>0, <2>2, <2>3, <3>2, <3>3, TakesLongCycle
    <3> QED BY <2>2, <3>2, <3>3, <3>4
  <2>5. UnsafeIsCyclic'
    <3> SUFFICES ASSUME ~safe' PROVE \E a, b \in included : Mutual(a, b)
      BY <1>1, <1>2 DEF UnsafeIsCyclic
    <3>1. CASE ~safe
      BY <3>1 DEF UnsafeIsCyclic
    <3>2. CASE Unsafe(cycle)
      <4>1. PICK x \in cycle : x # n
        BY <2>3, <3>2, UnsafeHasTwo
      <4> QED BY <2>3, <4>1 DEF Mutual
    <3> QED BY <2>2, <3>1, <3>2
  <2>6. ScanSoFar'
    BY <2>2, <2>3 DEF ScanSoFar
  <2> QED BY <2>4, <2>5, <2>6
<1>6. CASE SkipNode
  <2>1. /\ UNCHANGED <<nodes, outDegree, group, safe>> /\ scan' = scan + 1
        /\ scan \in DOMAIN order
        /\ order[scan] \in nodes => FoundCycles(order[scan]) = {}
    BY <1>6 DEF SkipNode
  <2>2. CyclesWait' /\ UnsafeIsCyclic'
    BY <1>1, <1>2, <2>1 DEF CyclesWait, UnsafeIsCyclic
  <2>3. \A m : FoundCycles(m)' = FoundCycles(m)
    BY <1>1, <2>1 DEF FoundCycles, Closings, Walks, Shortest
  <2>4. ScanSoFar'
    <3> SUFFICES ASSUME group = {}
        PROVE  /\ nodes # {} /\ Free = {}
               /\ \A i \in 1..scan : order[i] \in nodes => FoundCycles(order[i]) = {}
      BY <1>0, <1>1, <2>1, <2>3 DEF ScanSoFar, Free
    <3>1. scan > 0 /\ \A i \in 1..scan : i \in 1..(scan - 1) \/ i = scan
      BY <1>0, <2>1
    <3> QED BY <2>1, <3>1 DEF ScanSoFar
  <2> QED BY <2>2, <2>4
<1>7. CASE EndScan
  <2>1. UNCHANGED <<nodes, safe>> /\ scan' = 0
    BY <1>7 DEF EndScan
  <2> QED BY <1>1, <1>2, <2>1 DEF CyclesWait, UnsafeIsCyclic, ScanSoFar
<1>8. CASE UNCHANGED vars
  <2>1. UNCHANGED <<graph, order, nodes, outDegree, scan, group, safe>>
    BY <1>8 DEF vars
  <2>2. \A m : FoundCycles(m)' = FoundCycles(m)
    BY <2>1 DEF FoundCycles, Closings, Walks, Shortest
  <2> QED BY <1>1, <1>2, <2>1, <2>2 DEF CyclesWait, UnsafeIsCyclic, ScanSoFar, Free
<1> QED BY <1>3, <1>4, <1>5, <1>6, <1>7, <1>8 DEF Next

\* It holds throughout.
LEMMA CycleInvariant == Spec => [](IInv /\ CycleInv)
<1>1. Init => CycleInv
  BY DEF Init, CycleInv, CyclesWait, UnsafeIsCyclic, ScanSoFar
<1>2. IInv /\ CycleInv /\ [Next]_vars => CycleInv'
  BY CycleStep
<1> QED BY <1>1, <1>2, InitIInv, NextIInv, PTL DEF Spec

\* The result is "safe" exactly if no two included nodes depend on each other,
\* directly or not, however the cycles hang together.
THEOREM SafeMeansAcyclic == Spec => []SafeIsAcyclic
<1>1. IInv /\ CycleInv => SafeIsAcyclic
  <2> SUFFICES ASSUME IInv, CycleInv, Returned
      PROVE  safe <=> \A n, m \in included : n # m => ~(Reaches(n, m) /\ Reaches(m, n))
    BY DEF SafeIsAcyclic
  <2>1. safe \in BOOLEAN /\ nodes = {}
    BY DEF IInv, Typed, Returned
  <2> QED BY <2>1 DEF CycleInv, CyclesWait, UnsafeIsCyclic, Mutual
<1> QED BY <1>1, CycleInvariant, PTL

\* When no node is free a scan finds a cycle: no empty chunk is made, and each
\* round of the loop takes nodes out of the graph.
THEOREM ScansFindCycles == Spec => []EveryScanFindsACycle
<1>1. IInv /\ CycleInv => EveryScanFindsACycle
  <2> SUFFICES ASSUME IInv, CycleInv, scan = Len(order) + 1, group = {} PROVE FALSE
    BY DEF EveryScanFindsACycle
  <2>1. Typed /\ Len(order) \in Nat /\ DOMAIN order = 1..Len(order)
    BY DEF IInv, Typed
  <2>2. /\ nodes # {} /\ Free = {}
        /\ \A i \in 1..Len(order) : order[i] \in nodes => FoundCycles(order[i]) = {}
    BY <2>1 DEF CycleInv, ScanSoFar
  <2>3. \A n \in nodes : FoundCycles(n) = {}
    BY <2>1, <2>2 DEF Typed, included
  <2>4. ASSUME NEW n \in nodes PROVE graph[n] \cap nodes # {}
    <3>1. n \in included /\ n \in Nodes /\ outDegree[n] # 0
      BY <2>1, <2>2 DEF Free, Typed
    <3>2. Cardinality(graph[n] \cap nodes) # 0
      BY <3>1 DEF IInv, DegreesCount
    <3> QED BY <3>2, FS_EmptySet
  <2> QED BY <2>1, <2>2, <2>3, <2>4, StuckMeansCycle
<1> QED BY <1>1, CycleInvariant, PTL
=============================================================================

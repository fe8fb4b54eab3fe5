--------------------------- MODULE BuildModulesProofs ---------------------------
(***************************************************************************)
(* Proofs about BuildModules, for every finite graph, every plan of an     *)
(* install, any concurrency and any number of failures: the walk of the    *)
(* dependency graph forgets no build, dependencies are built first, and    *)
(* when all is over all is built.  What the sort gives is taken from the   *)
(* proofs about GraphSequencer.                                            *)
(***************************************************************************)
EXTENDS BuildModules, FiniteSetTheorems, TLAPS

\* The proofs about the sequencer, for the graph of the packages to build.
Sorted == INSTANCE GraphSequencerProofs WITH
            Graphs <- [Nodes -> SUBSET Nodes], Orders <- Seq(Nodes)

-----------------------------------------------------------------------------
\* The walk

WalkTyped ==
  /\ pc \in {"walk", "sort", "run", "resolved", "rejected"}
  /\ plan \in Plans
  /\ stack \in Seq(Frames) /\ Depth > 0
  /\ walked \subseteq Nodes
  /\ order \in Seq(Nodes)

\* A package that was walked is kept if it needs a build, and its children
\* were walked.
Finished(n) == plan.deps[n] \subseteq walked /\ (n \in plan.needs => n \in nodesToBuild)

\* A call has walked what it took out of its list; a package that was walked
\* is finished or its call has not returned.
CallsInOrder ==
  /\ stack[1].node = NoNode /\ plan.roots \ stack[1].left \subseteq walked
  /\ \A i \in 2..Depth : /\ stack[i].node \in walked
                         /\ plan.deps[stack[i].node] \ stack[i].left \subseteq walked
  /\ \A n \in walked : Finished(n) \/ \E i \in 2..Depth : stack[i].node = n
  /\ nodesToBuild \subseteq walked
  /\ pc # "walk" => Depth = 1 /\ stack[1].left = {}

WalkInv == WalkTyped /\ CallsInOrder

\* It holds initially.
LEMMA InitWalk == Init => WalkInv
<1> SUFFICES ASSUME Init PROVE WalkInv
  OBVIOUS
<1> DEFINE first == [node |-> NoNode, left |-> plan.roots, build |-> FALSE]
<1>1. plan \in AllPlans
  BY BuildConstants DEF Init
<1>2. first \in Frames
  BY <1>1 DEF Frames, AllPlans
<1>3. stack = <<first>> /\ Len(stack) = 1 /\ stack[1] = first
  BY DEF Init
<1>4. stack \in Seq(Frames)
  BY <1>2, <1>3
<1>5. WalkTyped
  BY <1>3, <1>4 DEF WalkTyped, Init, Depth
<1>6. nodesToBuild = {}
  BY DEF Init, nodesToBuild, Sequencer!included
<1>7. CallsInOrder
  BY <1>3, <1>6 DEF CallsInOrder, Init, Depth
<1> QED BY <1>5, <1>7 DEF WalkInv

\* A step of the walk keeps it.
LEMMA WalkVisit ==
  ASSUME WalkInv, NEW n \in Nodes, Visit(n)
  PROVE  WalkInv'
<1> USE DEF WalkInv
<1>1. plan \in AllPlans /\ plan' = plan /\ pc = "walk" /\ pc' = "walk" /\ order' = order
  BY BuildConstants DEF WalkTyped, Visit
<1>2. nodesToBuild' = nodesToBuild
  BY <1>1 DEF nodesToBuild, Sequencer!included
<1> DEFINE rest == [stack EXCEPT ![Depth] = [Top EXCEPT !.left = @ \ {n}]]
           call == [node |-> n, left |-> plan.deps[n], build |-> FALSE]
<1>3. Depth \in Nat \ {0} /\ DOMAIN stack = 1..Depth /\ \A i \in 1..Depth : stack[i] \in Frames
  BY DEF WalkTyped, Depth
<1>4. [Top EXCEPT !.left = @ \ {n}] \in Frames
  BY <1>3 DEF Top, Frames
<1>5. rest \in Seq(Frames) /\ Len(rest) = Depth
  BY <1>3, <1>4 DEF WalkTyped, Depth
<1>6. call \in Frames
  BY <1>1 DEF Frames, AllPlans
<1>7. \A i \in 1..Depth : /\ rest[i].node = stack[i].node
                          /\ rest[i].left = IF i = Depth THEN stack[i].left \ {n} ELSE stack[i].left
  BY <1>3 DEF WalkTyped, Top, Frames
<1> HIDE DEF rest, call
<1>8. ASSUME NEW S, walked \subseteq S, n \in S
       PROVE  /\ rest[1].node = NoNode /\ plan.roots \ rest[1].left \subseteq S
              /\ \A i \in 2..Depth : /\ rest[i].node \in S
                                     /\ plan.deps[rest[i].node] \ rest[i].left \subseteq S
  <2>1. 1 \in 1..Depth /\ \A i \in 2..Depth : i \in 1..Depth
    BY <1>3
  <2>2. stack[1].left \ {n} \subseteq rest[1].left /\ rest[1].node = NoNode
    BY <1>7, <2>1 DEF CallsInOrder
  <2>3. plan.roots \ rest[1].left \subseteq S
    BY <1>8, <2>2 DEF CallsInOrder
  <2>4. ASSUME NEW i \in 2..Depth
        PROVE  /\ rest[i].node \in S
               /\ plan.deps[rest[i].node] \ rest[i].left \subseteq S
    <3>1. rest[i].node = stack[i].node /\ stack[i].left \ {n} \subseteq rest[i].left
      BY <1>7, <2>1
    <3> QED BY <1>8, <3>1 DEF CallsInOrder
  <2> QED BY <2>2, <2>3, <2>4
<1>9. CASE n \in walked /\ stack' = rest /\ UNCHANGED walked
  <2>1. Depth' = Depth
    BY <1>5, <1>9 DEF Depth
  <2>2. WalkTyped'
    BY <1>1, <1>5, <1>9, <2>1, <1>3 DEF WalkTyped
  <2>3. \A m : Finished(m)' <=> Finished(m)
    BY <1>1, <1>2, <1>9 DEF Finished
  <2>4. n \in walked' /\ walked \subseteq walked'
    BY <1>9
  <2>5. /\ rest[1].node = NoNode /\ plan.roots \ rest[1].left \subseteq walked'
        /\ \A i \in 2..Depth : /\ rest[i].node \in walked'
                               /\ plan.deps[rest[i].node] \ rest[i].left \subseteq walked'
    BY <1>8, <2>4
  <2>6. ASSUME NEW m \in walked
        PROVE  Finished(m)' \/ \E i \in 2..Depth : rest[i].node = m
    <3>1. CASE Finished(m)
      BY <2>3, <3>1
    <3>2. CASE \E i \in 2..Depth : stack[i].node = m
      <4>1. PICK i \in 2..Depth : stack[i].node = m
        BY <3>2
      <4>2. i \in 1..Depth
        BY <1>3
      <4> QED BY <1>7, <4>1, <4>2
    <3> QED BY <3>1, <3>2 DEF CallsInOrder
  <2>7. CallsInOrder'
    BY <1>1, <1>2, <1>9, <2>1, <2>5, <2>6 DEF CallsInOrder
  <2> QED BY <2>2, <2>7
<1>10. CASE n \notin walked /\ walked' = walked \cup {n} /\ stack' = Append(rest, call)
  <2>1. /\ stack' \in Seq(Frames) /\ Depth' = Depth + 1 /\ stack'[Depth + 1] = call
        /\ \A i \in 1..Depth : stack'[i] = rest[i]
    BY <1>5, <1>6, <1>10, <1>3 DEF Depth
  <2>2. WalkTyped'
    BY <1>1, <1>3, <1>10, <2>1 DEF WalkTyped
  <2>3. \A m : Finished(m) => Finished(m)'
    BY <1>1, <1>2, <1>10 DEF Finished
  <2>4. call.node = n /\ call.left = plan.deps[n]
    BY DEF call
  <2>5. n \in walked' /\ walked \subseteq walked'
    BY <1>10
  <2>6. /\ rest[1].node = NoNode /\ plan.roots \ rest[1].left \subseteq walked'
        /\ \A i \in 2..Depth : /\ rest[i].node \in walked'
                               /\ plan.deps[rest[i].node] \ rest[i].left \subseteq walked'
    BY <1>8, <2>5
  <2>7. /\ stack'[1].node = NoNode /\ plan.roots \ stack'[1].left \subseteq walked'
        /\ \A i \in 2..(Depth + 1) : /\ stack'[i].node \in walked'
                                     /\ plan.deps[stack'[i].node] \ stack'[i].left \subseteq walked'
    <3>1. stack'[1] = rest[1]
      BY <1>3, <2>1
    <3>2. ASSUME NEW i \in 2..(Depth + 1)
          PROVE  /\ stack'[i].node \in walked'
                 /\ plan.deps[stack'[i].node] \ stack'[i].left \subseteq walked'
      <4>1. CASE i = Depth + 1
        BY <2>1, <2>4, <2>5, <4>1
      <4>2. CASE i \in 2..Depth
        BY <1>3, <2>1, <2>6, <4>2
      <4> QED BY <1>3, <4>1, <4>2
    <3> QED BY <2>6, <3>1, <3>2
  <2>8. ASSUME NEW m \in walked'
        PROVE  Finished(m)' \/ \E i \in 2..(Depth + 1) : stack'[i].node = m
    <3>1. CASE m = n
      <4>1. Depth + 1 \in 2..(Depth + 1)
        BY <1>3
      <4> QED BY <2>1, <2>4, <3>1, <4>1
    <3>2. CASE m \in walked
      <4>1. CASE Finished(m)
        BY <2>3, <4>1
      <4>2. CASE \E i \in 2..Depth : stack[i].node = m
        <5>1. PICK i \in 2..Depth : stack[i].node = m
          BY <4>2
        <5>2. i \in 1..Depth /\ i \in 2..(Depth + 1)
          BY <1>3
        <5>3. rest[i].node = m /\ stack'[i] = rest[i]
          BY <1>7, <2>1, <5>1, <5>2
        <5> QED BY <5>2, <5>3
      <4> QED BY <3>2, <4>1, <4>2 DEF CallsInOrder
    <3> QED BY <1>10, <3>1, <3>2
  <2>9. CallsInOrder'
    BY <1>1, <1>2, <1>10, <2>1, <2>7, <2>8 DEF CallsInOrder
  <2> QED BY <2>2, <2>9
<1> QED BY <1>9, <1>10 DEF Visit, rest, call

\* So does the return of a call.
LEMMA WalkLeave ==
  ASSUME WalkInv, Leave
  PROVE  WalkInv'
<1> USE DEF WalkInv
<1>1. /\ plan' = plan /\ pc = "walk" /\ pc' = "walk" /\ walked' = walked
      /\ Depth > 1 /\ Top.left = {}
  BY DEF Leave
<1>2. Depth \in Nat \ {0} /\ DOMAIN stack = 1..Depth /\ \A i \in 1..Depth : stack[i] \in Frames
  BY DEF WalkTyped, Depth
<1> DEFINE last == Depth - 1
           m == Top.node
<1>3. last \in Nat \ {0} /\ last + 1 = Depth
  BY <1>1, <1>2
<1>4. m \in walked /\ m \in Nodes /\ plan.deps[m] \subseteq walked
  BY <1>1, <1>2 DEF CallsInOrder, Top, WalkTyped
<1>5. /\ order' \in Seq(Nodes)
      /\ nodesToBuild' = IF ShouldBeBuilt(Top) THEN nodesToBuild \cup {m} ELSE nodesToBuild
  <2>1. CASE ShouldBeBuilt(Top)
    <3>1. order' = Append(order, m) /\ order \in Seq(Nodes)
      BY <2>1 DEF Leave, WalkTyped
    <3>2. /\ order' \in Seq(Nodes) /\ DOMAIN order' = 1..(Len(order) + 1) /\ Len(order) \in Nat
          /\ order'[Len(order) + 1] = m /\ \A i \in 1..Len(order) : order'[i] = order[i]
          /\ DOMAIN order = 1..Len(order)
      BY <1>4, <3>1
    <3>3. nodesToBuild' = nodesToBuild \cup {m}
      BY <3>2 DEF nodesToBuild, Sequencer!included
    <3> QED BY <2>1, <3>2, <3>3
  <2>2. CASE ~ShouldBeBuilt(Top)
    BY <2>2 DEF Leave, WalkTyped, nodesToBuild, Sequencer!included
  <2> QED BY <2>1, <2>2
<1>6. \A k : k = m => Finished(k)'
  BY <1>1, <1>4, <1>5 DEF Finished, ShouldBeBuilt
<1>7. ShouldBeBuilt(Top) \in BOOLEAN
  BY DEF ShouldBeBuilt
<1> DEFINE marked(i) == [stack[i] EXCEPT !.build = @ \/ ShouldBeBuilt(Top)]
           kept(i) == IF i = last THEN marked(i) ELSE stack[i]
<1>8. stack' = [i \in 1..last |-> kept(i)]
  BY DEF Leave
<1>9. ASSUME NEW i \in 1..last
      PROVE  kept(i) \in Frames /\ kept(i).node = stack[i].node /\ kept(i).left = stack[i].left
  <2>1. i \in 1..Depth /\ stack[i] \in Frames
    BY <1>2, <1>3
  <2>2. (stack[i].build \/ ShouldBeBuilt(Top)) \in BOOLEAN
    OBVIOUS
  <2>3. [stack[i] EXCEPT !.build = stack[i].build \/ ShouldBeBuilt(Top)] \in Frames
    BY <2>1, <2>2 DEF Frames
  <2> QED BY <2>1, <2>3 DEF Frames
<1> HIDE DEF kept, last
<1>10. stack' \in Seq(Frames) /\ Depth' = last
  BY <1>3, <1>8, <1>9 DEF Depth
<1>11. \A i \in 1..last : stack'[i].node = stack[i].node /\ stack'[i].left = stack[i].left
  BY <1>8, <1>9
<1>12. WalkTyped'
  BY <1>1, <1>3, <1>5, <1>10 DEF WalkTyped
<1>13. \A k : Finished(k) => Finished(k)'
  BY <1>1, <1>5 DEF Finished
<1>14. \A k : k = Top.node => Finished(k)'
  BY <1>6
<1>15. ASSUME NEW k \in walked
       PROVE  Finished(k)' \/ \E i \in 2..last : stack'[i].node = k
  <2>1. CASE Finished(k)
    BY <1>13, <2>1
  <2>2. CASE \E i \in 2..Depth : stack[i].node = k
    <3>1. PICK i \in 2..Depth : stack[i].node = k
      BY <2>2
    <3>2. CASE i = Depth
      BY <1>14, <3>1, <3>2 DEF Top
    <3>3. CASE i \in 2..last
      BY <1>11, <3>1, <3>3
    <3> QED BY <1>2, <1>3, <3>1, <3>2, <3>3
  <2> QED BY <2>1, <2>2 DEF CallsInOrder
<1>16. \A i \in 2..last : /\ stack'[i].node \in walked
                          /\ plan.deps[stack'[i].node] \ stack'[i].left \subseteq walked
  BY <1>2, <1>3, <1>11 DEF CallsInOrder
<1>17. stack'[1].node = NoNode /\ plan.roots \ stack'[1].left \subseteq walked
  BY <1>3, <1>11 DEF CallsInOrder
<1>18. nodesToBuild' \subseteq walked
  BY <1>4, <1>5 DEF CallsInOrder
<1>19. CallsInOrder'
  BY <1>1, <1>10, <1>15, <1>16, <1>17, <1>18 DEF CallsInOrder
<1> QED BY <1>12, <1>19

\* And so does what follows, which starts when all of the roots were walked.
LEMMA WalkStays ==
  ASSUME WalkInv, UNCHANGED <<plan, walkVars>>,
         pc' \in {"walk", "sort", "run", "resolved", "rejected"},
         pc' # "walk" => pc # "walk" \/ (Depth = 1 /\ Top.left = {})
  PROVE  WalkInv'
<1>1. Depth' = Depth /\ nodesToBuild' = nodesToBuild /\ \A n : Finished(n)' <=> Finished(n)
  BY DEF walkVars, Depth, nodesToBuild, Sequencer!included, Finished
<1>2. WalkTyped'
  BY <1>1 DEF WalkInv, WalkTyped, walkVars
<1>3. pc' # "walk" => Depth = 1 /\ stack[1].left = {}
  BY DEF WalkInv, CallsInOrder, Top
<1>4. CallsInOrder'
  BY <1>1, <1>3 DEF WalkInv, CallsInOrder, walkVars
<1> QED BY <1>2, <1>4 DEF WalkInv

\* Every step keeps it.
LEMMA WalkStep ==
  ASSUME WalkInv, [Next]_vars
  PROVE  WalkInv'
<1>1. ASSUME NEW n \in Nodes, Visit(n) PROVE WalkInv'
  BY <1>1, WalkVisit
<1>2. CASE Leave
  BY <1>2, WalkLeave
<1>3. CASE StartSort
  BY <1>3, WalkStays DEF StartSort, walkVars
<1>4. CASE Sort
  <2>1. UNCHANGED <<pc, plan, stack, walked>>
    BY <1>4 DEF Sort
  <2>2. order' = order
    BY <1>4 DEF Sort, Sequencer!ReleaseFree, Sequencer!StartScan, Sequencer!TakeCycle,
                Sequencer!SkipNode, Sequencer!EndScan
  <2> QED BY <2>1, <2>2, WalkStays DEF WalkInv, WalkTyped, walkVars
<1>5. CASE Groups
  <2>1. UNCHANGED <<plan, walkVars>> /\ pc # "walk" /\ pc' \in {pc, "run", "resolved", "rejected"}
    BY <1>5 DEF Groups, StartGroups, NextGroup, Reject, walkVars
  <2> QED BY <2>1, WalkStays DEF WalkInv, WalkTyped
<1>6. ASSUME NEW n \in Nodes, Build(n) PROVE WalkInv'
  <2>1. UNCHANGED <<pc, plan, walkVars>>
    BY <1>6 DEF Build, StartBuild, EndWait, ScriptsOk, ScriptsFail, EndBuild, CopyFails, walkVars
  <2> QED BY <2>1, WalkStays DEF WalkInv, WalkTyped
<1>7. CASE UNCHANGED vars
  BY <1>7, WalkStays DEF vars, WalkInv, WalkTyped, walkVars
<1> QED BY <1>1, <1>2, <1>3, <1>4, <1>5, <1>6, <1>7 DEF Next, Walk, Stop

\* When the walk is over what it walked is closed: it holds all that can be
\* reached, and every package of it that needs a build is kept.
LEMMA WalkedIsClosed ==
  ASSUME WalkInv
  PROVE  EveryBuildIsScheduled
<1> SUFFICES ASSUME pc # "walk", NEW n \in Reachable \cap plan.needs
             PROVE  n \in nodesToBuild
  BY DEF EveryBuildIsScheduled
<1>1. \A m \in walked : Finished(m)
  BY DEF WalkInv, CallsInOrder, WalkTyped
<1>2. plan.roots \subseteq walked /\ walked \in SUBSET Nodes
  BY DEF WalkInv, CallsInOrder, WalkTyped
<1>3. \A m \in walked : plan.deps[m] \subseteq walked
  BY <1>1 DEF Finished
<1>4. n \in walked
  BY <1>2, <1>3 DEF Reachable
<1> QED BY <1>1, <1>4 DEF Finished

-----------------------------------------------------------------------------
\* The sort

\* What the sequencer gets: the packages to build and how they depend on one
\* another.
BuildGraph == [n \in Nodes |-> IF n \in nodesToBuild THEN plan.deps[n] \cap nodesToBuild ELSE {}]

NotSorted ==
  /\ graph = [n \in Nodes |-> {}] /\ nodes = {} /\ outDegree = [n \in Nodes |-> 0]
  /\ scan = 0 /\ group = {} /\ chunks = <<>> /\ cycles = <<>> /\ safe = TRUE

SortInv ==
  /\ pc = "walk" => NotSorted
  /\ pc # "walk" => Sorted!IInv /\ graph = BuildGraph
  /\ pc \notin {"walk", "sort"} => scan = 0 /\ nodes = {}

-----------------------------------------------------------------------------
\* The builds

RunTyped ==
  /\ current \in Nat
  /\ job \in [Nodes -> {"none", "queued", "waiting", "building", "copying", "done", "failed"}]
  /\ result \in [Nodes -> {"none", "ok", "skipped", "failed"}]
  /\ builder \in [DepPaths -> Nodes \cup {NoNode}]
  /\ settled \subseteq DepPaths
  /\ files \in [Nodes -> {"fresh", "built", "broken"}]
  /\ faults \in 0..MaxFaults

\* The groups up to the current one were started, those before it are done.
GroupsInOrder ==
  /\ pc \in {"walk", "sort"} => current = 0
  /\ pc \in {"run", "rejected"} => current \in DOMAIN chunks
  /\ pc = "resolved" => current = Len(chunks)
  /\ \A n \in Nodes : job[n] # "none" => \E i \in 1..current : n \in Group(i)
  /\ \A i \in 1..current : \A n \in Group(i) :
       /\ job[n] # "none"
       /\ i < current \/ pc = "resolved" => job[n] = "done"

\* What is known of a build by where it is; in the hoisted layout only one
\* location builds a package.
BuildsKnown ==
  \A n \in Nodes :
    /\ job[n] \in {"waiting", "building", "copying"} => n \notin plan.unindexed
    /\ job[n] \in {"building", "copying"} /\ plan.hoisted => builder[DepPathOf[n]] = n
    /\ job[n] = "copying" => /\ files[n] # "fresh"
                             /\ result[n] \in {"ok", "skipped", "failed"}
                             /\ result[n] = "ok" => files[n] = "built"
                             /\ result[n] = "skipped" => n \in plan.optional

\* Content that is not built is that of a package that is still to be built, or
\* of one that failed.
ContentKnown ==
  /\ \A d \in settled : \A n \in Nodes : DepPathOf[n] = d => files[n] # "fresh"
  /\ \A n \in Nodes : files[n] = "fresh" =>
       /\ n \in plan.needs \ (plan.skip \cup plan.unindexed)
       /\ job[n] \in {"none", "queued", "waiting", "building"} \/ Failed
  /\ \A n \in Nodes : files[n] = "broken" => job[n] = "copying" \/ n \in plan.optional \/ Failed

RunInv == RunTyped /\ GroupsInOrder /\ BuildsKnown /\ ContentKnown
IInv == WalkInv /\ SortInv /\ RunInv
-----------------------------------------------------------------------------
\* The invariant of the sort

\* The sequencer's assumption holds of its instance.
LEMMA SequencerIsUsable == Sorted!SequencerConstants
<1>1. Sorted!IsFiniteSet(Nodes)
  BY BuildConstants DEF IsFiniteSet, Sorted!IsFiniteSet
<1> QED BY <1>1 DEF Sorted!SequencerConstants

LEMMA SameCardinality == \A S : Sorted!Cardinality(S) = Cardinality(S)
BY DEF Sorted!Cardinality, Cardinality

LEMMA SameIncluded == nodesToBuild = Sorted!included
BY DEF nodesToBuild, Sequencer!included, Sorted!included

\* A step of the sort is a step of the sequencer that is proved about.
LEMMA SortSteps ==
  ASSUME Sort
  PROVE  Sorted!Next /\ UNCHANGED <<graph, order>>
<1>1. CASE Sequencer!ReleaseFree
  BY <1>1 DEF Sequencer!ReleaseFree, Sorted!ReleaseFree, Sequencer!Free, Sorted!Free, Sequencer!Remove,
              Sorted!Remove, Sequencer!included, Sorted!included, Sorted!Next,
              Sequencer!Cardinality, Sorted!Cardinality
<1>2. CASE Sequencer!StartScan
  BY <1>2 DEF Sequencer!StartScan, Sorted!StartScan, Sequencer!Free, Sorted!Free, Sorted!Next
<1>3. ASSUME NEW n PROVE Sequencer!FoundCycles(n) = Sorted!FoundCycles(n)
  BY DEF Sequencer!FoundCycles, Sorted!FoundCycles, Sequencer!Closings, Sorted!Closings,
         Sequencer!Walks, Sorted!Walks, Sequencer!Shortest, Sorted!Shortest,
         Sequencer!Lengths, Sorted!Lengths, Sequencer!Cardinality, Sorted!Cardinality
<1>4. CASE Sequencer!TakeCycle
  <2>1. /\ scan \in DOMAIN order /\ order[scan] \in nodes /\ scan' = scan + 1
        /\ UNCHANGED <<graph, order, chunks>>
    BY <1>4 DEF Sequencer!TakeCycle
  <2>2. PICK cycle \in Sequencer!FoundCycles(order[scan]) :
          /\ Sequencer!Remove(cycle) /\ group' = group \cup cycle
          /\ cycles' = Append(cycles, cycle) /\ safe' = (safe /\ ~Sequencer!Unsafe(cycle))
    BY <1>4 DEF Sequencer!TakeCycle
  <2>3. Sorted!Remove(cycle)
    BY <2>2 DEF Sequencer!Remove, Sorted!Remove, Sequencer!included, Sorted!included,
                Sequencer!Cardinality, Sorted!Cardinality
  <2>4. safe' = (safe /\ ~Sorted!Unsafe(cycle))
    BY <2>2 DEF Sequencer!Unsafe, Sorted!Unsafe, Sequencer!Cardinality, Sorted!Cardinality
  <2>5. Sorted!TakeCycle
    BY <1>3, <2>1, <2>2, <2>3, <2>4 DEF Sorted!TakeCycle
  <2> QED BY <2>1, <2>5 DEF Sorted!Next
<1>5. CASE Sequencer!SkipNode
  BY <1>3, <1>5 DEF Sequencer!SkipNode, Sorted!SkipNode, Sorted!Next
<1>6. CASE Sequencer!EndScan
  BY <1>6 DEF Sequencer!EndScan, Sorted!EndScan, Sorted!Next
<1> QED BY <1>1, <1>2, <1>4, <1>5, <1>6 DEF Sort

\* When the sort starts, the degrees are those of the graph of the packages to
\* build.
LEMMA SortStarts ==
  ASSUME WalkInv, NotSorted, StartSort
  PROVE  SortInv'
<1>1. /\ pc' = "sort" /\ order' = order /\ plan' = plan /\ nodes' = nodesToBuild
      /\ graph' = BuildGraph /\ outDegree' = [n \in Nodes |-> Cardinality(graph'[n])]
      /\ scan' = 0 /\ group' = {} /\ chunks' = <<>> /\ cycles' = <<>> /\ safe' = TRUE
  BY DEF StartSort, NotSorted, walkVars, BuildGraph
<1>2. nodesToBuild' = nodesToBuild /\ Sorted!included' = nodesToBuild /\ nodesToBuild \subseteq Nodes
  <2>1. nodesToBuild' = nodesToBuild
    BY <1>1 DEF nodesToBuild, Sequencer!included
  <2>2. Sorted!included' = nodesToBuild'
    BY DEF nodesToBuild, Sequencer!included, Sorted!included
  <2> QED BY <2>1, <2>2 DEF WalkInv, CallsInOrder, WalkTyped
<1>3. BuildGraph' = BuildGraph
  BY <1>1, <1>2 DEF BuildGraph
<1>4. plan \in AllPlans
  BY BuildConstants DEF WalkInv, WalkTyped
<1>5. BuildGraph \in [Nodes -> SUBSET Nodes]
  BY <1>2, <1>4 DEF BuildGraph, AllPlans
<1>6. Sorted!Typed'
  <2>1. order' \in Seq(Nodes) /\ Len(order') \in Nat
    BY <1>1 DEF WalkInv, WalkTyped
  <2> QED BY <1>1, <1>2, <1>5, <2>1 DEF Sorted!Typed
<1>7. Sorted!DegreesCount'
  <2>1. Cardinality({}) = 0
    BY FS_EmptySet
  <2>2. ASSUME NEW n \in Nodes
        PROVE  Cardinality(graph'[n])
                 = IF n \in nodesToBuild THEN Sorted!Cardinality(graph'[n] \cap nodesToBuild) ELSE 0
    <3>1. CASE n \in nodesToBuild
      <4>1. graph'[n] \cap nodesToBuild = graph'[n]
        BY <1>1, <3>1 DEF BuildGraph
      <4> QED BY <3>1, <4>1, SameCardinality
    <3>2. CASE n \notin nodesToBuild
      <4>1. graph'[n] = {}
        BY <1>1, <3>2 DEF BuildGraph
      <4> QED BY <2>1, <3>2, <4>1
    <3> QED BY <3>1, <3>2
  <2> QED BY <1>1, <1>2, <2>2 DEF Sorted!DegreesCount
<1>8. Sorted!Partition' /\ Sorted!GroupOnCycles' /\ Sorted!NodesOffCyclesWait'
  BY <1>1, <1>2 DEF Sorted!Partition, Sorted!GroupOnCycles, Sorted!NodesOffCyclesWait
<1>9. Sorted!IInv'
  BY <1>6, <1>7, <1>8 DEF Sorted!IInv
<1> QED BY <1>1, <1>3, <1>9 DEF SortInv

\* What leaves the sequencer alone keeps what is known of it.
LEMMA SortStays ==
  ASSUME SortInv, UNCHANGED <<plan, order, sequencerVars>>,
         pc' = "walk" <=> pc = "walk",
         pc' \notin {"walk", "sort"} => pc \notin {"walk", "sort"} \/ (scan = 0 /\ nodes = {})
  PROVE  SortInv'
<1>1. NotSorted' <=> NotSorted
  BY DEF NotSorted, sequencerVars
<1>2. BuildGraph' = BuildGraph
  <2>1. nodesToBuild' = nodesToBuild
    BY DEF nodesToBuild, Sequencer!included
  <2> QED BY <2>1 DEF BuildGraph
<1>3. Sorted!IInv => Sorted!IInv'
  <2>1. UNCHANGED Sorted!vars
    BY DEF Sorted!vars, sequencerVars
  <2> QED BY <2>1, SequencerIsUsable, Sorted!NextIInv
<1> QED BY <1>1, <1>2, <1>3 DEF SortInv, sequencerVars

\* Every step keeps what is known of the sort.
LEMMA SortStep ==
  ASSUME WalkInv, SortInv, [Next]_vars
  PROVE  SortInv'
<1>1. CASE (\E n \in Nodes : Visit(n)) \/ Leave
  <2>1. pc = "walk" /\ pc' = "walk" /\ UNCHANGED sequencerVars
    BY <1>1 DEF Visit, Leave
  <2>2. NotSorted'
    BY <2>1 DEF SortInv, NotSorted, sequencerVars
  <2> QED BY <2>1, <2>2 DEF SortInv
<1>2. CASE StartSort
  <2>1. NotSorted
    BY <1>2 DEF SortInv, StartSort
  <2> QED BY <1>2, <2>1, SortStarts
<1>3. CASE Sort
  <2>1. pc = "sort" /\ pc' = "sort" /\ plan' = plan /\ UNCHANGED <<graph, order>>
    BY <1>3, SortSteps DEF Sort
  <2>2. Sorted!IInv'
    BY <1>3, <2>1, SortSteps, SequencerIsUsable, Sorted!NextIInv DEF SortInv
  <2>3. BuildGraph' = BuildGraph
    BY <2>1 DEF BuildGraph, nodesToBuild, Sequencer!included
  <2> QED BY <2>1, <2>2, <2>3 DEF SortInv
<1>4. CASE Groups
  <2>1. /\ UNCHANGED <<plan, order, sequencerVars>> /\ pc # "walk" /\ pc' # "walk"
        /\ pc = "sort" => scan = 0 /\ nodes = {}
    BY <1>4 DEF Groups, StartGroups, NextGroup, Reject, walkVars, Sequencer!Returned
  <2> QED BY <2>1, SortStays
<1>5. ASSUME NEW n \in Nodes, Build(n) PROVE SortInv'
  <2>1. UNCHANGED <<pc, plan, order, sequencerVars>>
    BY <1>5 DEF Build, StartBuild, EndWait, ScriptsOk, ScriptsFail, EndBuild, CopyFails, walkVars
  <2> QED BY <2>1, SortStays
<1>6. CASE UNCHANGED vars
  BY <1>6, SortStays DEF vars, walkVars
<1> QED BY <1>1, <1>2, <1>3, <1>4, <1>5, <1>6 DEF Next, Walk, Stop

-----------------------------------------------------------------------------
\* The invariant of the builds

\* Before the sort has returned nothing is built.
LEMMA NothingBuilt ==
  ASSUME RunInv, pc \in {"walk", "sort"}
  PROVE  current = 0 /\ \A n \in Nodes : job[n] = "none"
BY DEF RunInv, GroupsInOrder

\* The steps before that keep it.
LEMMA RunStays ==
  ASSUME RunInv, pc \in {"walk", "sort"}, pc' \in {"walk", "sort"}, UNCHANGED <<plan, runVars>>
  PROVE  RunInv'
<1>1. current = 0 /\ \A n \in Nodes : job[n] = "none"
  BY NothingBuilt
<1>2. RunTyped'
  BY DEF RunInv, RunTyped, runVars
<1>3. GroupsInOrder'
  BY <1>1 DEF GroupsInOrder, runVars
<1>4. BuildsKnown' /\ ContentKnown'
  BY DEF RunInv, BuildsKnown, ContentKnown, Failed, runVars
<1> QED BY <1>2, <1>3, <1>4 DEF RunInv

\* The next group has not been started: chunks share no package.
LEMMA NextIsNew ==
  ASSUME RunInv, SortInv, pc # "walk", current + 1 \in DOMAIN chunks
  PROVE  \A n \in Group(current + 1) \cap Nodes : job[n] = "none"
<1>1. Sorted!Typed /\ Sorted!Partition
  BY DEF SortInv, Sorted!IInv
<1>2. current \in Nat /\ DOMAIN chunks = 1..Len(chunks)
  BY <1>1 DEF RunInv, RunTyped, Sorted!Typed
<1>3. SUFFICES ASSUME NEW n \in Nodes, n \in Group(current + 1), job[n] # "none" PROVE FALSE
  OBVIOUS
<1>4. PICK i \in 1..current : n \in Group(i)
  BY <1>3 DEF RunInv, GroupsInOrder
<1>5. i \in DOMAIN chunks /\ i # current + 1
  BY <1>1, <1>2 DEF Sorted!Typed
<1>6. n \in chunks[i] /\ n \in chunks[current + 1]
  BY <1>3, <1>4 DEF Group
<1> QED BY <1>1, <1>5, <1>6 DEF Sorted!Partition

\* Starting it keeps the invariant, when the group before it is done.
LEMMA RunEnqueues ==
  ASSUME RunInv, SortInv, pc # "walk", current + 1 \in DOMAIN chunks,
         \A n \in Nodes : \A i \in 1..current : n \in Group(i) => job[n] = "done",
         Enqueue(current + 1), pc' = "run",
         UNCHANGED <<plan, chunks, result, builder, settled, files, faults>>
  PROVE  RunInv'
<1>1. \A n \in Group(current + 1) \cap Nodes : job[n] = "none"
  BY NextIsNew
<1>2. current \in Nat /\ current' = current + 1
  BY DEF RunInv, RunTyped, Enqueue
<1>3. \A i : Group(i)' = Group(i)
  BY DEF Group
<1>4. \A n \in Nodes : job'[n] = IF n \in Group(current + 1) THEN "queued" ELSE job[n]
  BY DEF Enqueue
<1>5. Failed' <=> Failed
  BY <1>1, <1>4 DEF Failed
<1>6. RunTyped'
  BY <1>2 DEF RunInv, RunTyped, Enqueue
<1>7. Sorted!Typed
  BY DEF SortInv, Sorted!IInv
<1>8. ASSUME NEW i \in 1..(current + 1), NEW n \in Group(i)
      PROVE  job'[n] # "none" /\ (i < current + 1 => job'[n] = "done")
  <2>1. i \in DOMAIN chunks /\ n \in Nodes
    <3>1. DOMAIN chunks = 1..Len(chunks) /\ Len(chunks) \in Nat
      BY <1>7 DEF Sorted!Typed
    <3>2. i \in DOMAIN chunks
      BY <1>2, <3>1
    <3> QED BY <1>7, <3>2 DEF Sorted!Typed, Group
  <2>2. CASE i = current + 1
    BY <1>4, <2>1, <2>2
  <2>3. CASE i \in 1..current
    <3>1. job[n] = "done"
      BY <2>1, <2>3
    <3>2. n \notin Group(current + 1)
      BY <1>1, <2>1, <3>1
    <3> QED BY <1>4, <2>1, <3>1, <3>2
  <2> QED BY <1>2, <2>2, <2>3
<1>9. ASSUME NEW n \in Nodes, job'[n] # "none" PROVE \E i \in 1..(current + 1) : n \in Group(i)
  <2>1. CASE n \in Group(current + 1)
    BY <1>2, <2>1
  <2>2. CASE job[n] # "none"
    BY <1>2, <2>2 DEF RunInv, GroupsInOrder
  <2> QED BY <1>4, <1>9, <2>1, <2>2
<1>10. GroupsInOrder'
  BY <1>2, <1>3, <1>8, <1>9 DEF GroupsInOrder
<1>11. BuildsKnown' /\ ContentKnown'
  BY <1>1, <1>4, <1>5 DEF RunInv, BuildsKnown, ContentKnown
<1> QED BY <1>6, <1>10, <1>11 DEF RunInv

\* The groups keep it.
LEMMA RunGroups ==
  ASSUME RunInv, SortInv, Groups
  PROVE  RunInv'
<1>0. pc # "walk" /\ UNCHANGED <<plan, chunks, result, builder, settled, files, faults>>
  BY DEF Groups, StartGroups, NextGroup, Reject, sequencerVars, runVars
<1>1. Sorted!Typed
  BY <1>0 DEF SortInv, Sorted!IInv
<1>2. current \in Nat /\ Len(chunks) \in Nat /\ DOMAIN chunks = 1..Len(chunks)
  BY <1>1 DEF RunInv, RunTyped, Sorted!Typed
<1>3. \A i : Group(i)' = Group(i)
  BY <1>0 DEF Group
<1>4. ASSUME UNCHANGED <<current, job>>, pc' \in {"resolved", "rejected"},
             pc' = "resolved" => current = Len(chunks),
             pc' = "rejected" => current \in DOMAIN chunks,
             \A i \in 1..current : \A n \in Group(i) :
               job[n] # "none" /\ (i < current \/ pc' = "resolved" => job[n] = "done")
      PROVE  RunInv'
  <2>1. RunTyped'
    BY <1>0, <1>4 DEF RunInv, RunTyped
  <2>2. GroupsInOrder'
    BY <1>0, <1>3, <1>4 DEF RunInv, GroupsInOrder
  <2>3. BuildsKnown' /\ ContentKnown'
    BY <1>0, <1>4 DEF RunInv, BuildsKnown, ContentKnown, Failed
  <2> QED BY <2>1, <2>2, <2>3 DEF RunInv
<1>5. CASE StartGroups
  <2>1. current = 0 /\ pc = "sort"
    BY <1>5, NothingBuilt DEF StartGroups
  <2>2. CASE chunks = <<>> /\ pc' = "resolved" /\ UNCHANGED <<current, job>>
    BY <1>2, <1>4, <2>1, <2>2
  <2>3. CASE chunks # <<>> /\ pc' = "run" /\ Enqueue(1)
    <3>1. 1 \in DOMAIN chunks
      BY <1>1, <1>2, <2>3 DEF Sorted!Typed
    <3> QED BY <1>0, <2>1, <2>3, <3>1, RunEnqueues
  <2> QED BY <1>5, <2>2, <2>3 DEF StartGroups
<1>6. CASE NextGroup
  <2>1. pc = "run" /\ \A i \in 1..current : \A n \in Group(i) : job[n] = "done"
    <3>1. pc = "run" /\ \A n \in Group(current) : job[n] = "done"
      BY <1>6 DEF NextGroup, GroupEnded
    <3>2. ASSUME NEW i \in 1..current, NEW n \in Group(i) PROVE job[n] = "done"
      <4>1. i < current \/ i = current
        BY <1>2
      <4> QED BY <3>1, <4>1 DEF RunInv, GroupsInOrder
    <3> QED BY <3>1, <3>2
  <2>2. CASE current < Len(chunks) /\ Enqueue(current + 1) /\ UNCHANGED pc
    <3>1. current + 1 \in DOMAIN chunks
      BY <1>2, <2>2
    <3> QED BY <1>0, <2>1, <2>2, <3>1, RunEnqueues
  <2>3. CASE current = Len(chunks) /\ pc' = "resolved" /\ UNCHANGED <<current, job>>
    BY <1>4, <2>1, <2>3
  <2> QED BY <1>6, <2>2, <2>3 DEF NextGroup
<1>7. CASE Reject
  <2>1. pc = "run" /\ pc' = "rejected" /\ UNCHANGED <<current, job>>
    BY <1>7 DEF Reject, runVars
  <2> QED BY <1>4, <2>1 DEF RunInv, GroupsInOrder
<1> QED BY <1>5, <1>6, <1>7 DEF Groups

\* A step of a build starts no other one, and undoes none.
LEMMA BuildsGoOn ==
  ASSUME RunInv, NEW n \in Nodes, Build(n)
  PROVE  /\ UNCHANGED <<pc, plan, chunks, current>>
         /\ job[n] \notin {"none", "done", "failed"} /\ job'[n] # "none"
         /\ \A m \in Nodes \ {n} : job'[m] = job[m]
BY DEF Build, StartBuild, EndWait, ScriptsOk, ScriptsFail, EndBuild, CopyFails, sequencerVars,
       RunInv, RunTyped

\* Nor does it leave the order of the groups.
LEMMA BuildInOrder ==
  ASSUME WalkInv, RunInv, SortInv, NEW n \in Nodes, Build(n)
  PROVE  GroupsInOrder' /\ (Failed => Failed')
<1>1. /\ UNCHANGED <<pc, plan, chunks, current>>
      /\ job[n] \notin {"none", "done", "failed"} /\ job'[n] # "none"
      /\ \A m \in Nodes \ {n} : job'[m] = job[m]
  BY BuildsGoOn
<1>2. \A i : Group(i)' = Group(i)
  BY <1>1 DEF Group
<1>3. \A m \in Nodes : /\ job'[m] # "none" <=> job[m] # "none"
                       /\ job[m] = "done" => job'[m] = "done"
                       /\ job[m] = "failed" => job'[m] = "failed"
  BY <1>1
<1>4. \A i \in 1..current : Group(i) \subseteq Nodes
  <2>1. pc # "walk" /\ current <= Len(chunks)
    <3>1. pc \notin {"walk", "sort"}
      BY <1>1, NothingBuilt
    <3>2. Sorted!Typed
      BY <3>1 DEF SortInv, Sorted!IInv
    <3>3. Len(chunks) \in Nat /\ DOMAIN chunks = 1..Len(chunks)
      BY <3>2 DEF Sorted!Typed
    <3>4. pc \in {"run", "rejected", "resolved"}
      BY <3>1 DEF WalkInv, WalkTyped
    <3> QED BY <3>1, <3>3, <3>4 DEF RunInv, GroupsInOrder
  <2>2. Sorted!Typed /\ current \in Nat
    BY <2>1 DEF SortInv, Sorted!IInv, RunInv, RunTyped
  <2> QED BY <2>1, <2>2 DEF Sorted!Typed, Group
<1>5. GroupsInOrder'
  BY <1>1, <1>2, <1>3, <1>4 DEF RunInv, GroupsInOrder
<1> QED BY <1>3, <1>5 DEF Failed

\* A step of a build keeps what is known of the builds and of the content, and
\* no variable loses its type.
LEMMA BuildContent ==
  ASSUME WalkInv, RunInv, SortInv, NEW n \in Nodes, Build(n)
  PROVE  RunInv'
<1> DEFINE d == DepPathOf[n]
<1>1. GroupsInOrder' /\ (Failed => Failed')
  BY BuildInOrder
<1>2. UNCHANGED <<pc, plan, chunks, current>>
  BY BuildsGoOn
<1>3. plan \in AllPlans /\ plan \in Plans /\ d \in DepPaths
  BY BuildConstants DEF WalkInv, WalkTyped
<1>4. RunTyped
  BY DEF RunInv
<1>5. CASE StartBuild(n)
  <2>1. job[n] = "queued" /\ UNCHANGED <<result, settled, files, faults>>
    BY <1>5 DEF StartBuild
  <2>2. \/ n \in plan.unindexed /\ job' = [job EXCEPT ![n] = "done"] /\ UNCHANGED builder
        \/ n \notin plan.unindexed /\ job' = [job EXCEPT ![n] = "waiting"] /\ UNCHANGED builder
        \/ /\ n \notin plan.unindexed /\ job' = [job EXCEPT ![n] = "building"]
           /\ ~plan.hoisted /\ UNCHANGED builder
        \/ /\ n \notin plan.unindexed /\ job' = [job EXCEPT ![n] = "building"]
           /\ plan.hoisted /\ builder[d] = NoNode /\ builder' = [builder EXCEPT ![d] = n]
    BY <1>5 DEF StartBuild
  <2>3. RunTyped'
    BY <1>2, <1>3, <1>4, <2>1, <2>2 DEF RunTyped
  <2>4. BuildsKnown'
    <3>1. \A m \in Nodes : job[m] \in {"building", "copying"} /\ plan.hoisted => builder'[DepPathOf[m]] = m
      <4>1. \A m \in Nodes : builder[DepPathOf[m]] = m => DepPathOf[m] # d \/ builder[d] # NoNode
        BY BuildConstants
      <4>2. \A m \in Nodes : DepPathOf[m] \in DepPaths
        BY BuildConstants
      <4> QED BY <1>4, <2>2, <4>1, <4>2 DEF RunInv, BuildsKnown, RunTyped
    <3>2. \A m \in Nodes : m # n => job'[m] = job[m]
      BY <1>4, <2>2 DEF RunTyped
    <3>3. job'[n] \in {"done", "waiting", "building"}
      BY <1>4, <2>2 DEF RunTyped
    <3>4. job'[n] \in {"waiting", "building"} => n \notin plan.unindexed
      BY <1>4, <2>2 DEF RunTyped
    <3>5. job'[n] = "building" /\ plan.hoisted => builder'[d] = n
      BY <1>3, <1>4, <2>2 DEF RunTyped
    <3> QED BY <1>2, <2>1, <3>1, <3>2, <3>3, <3>4, <3>5 DEF RunInv, BuildsKnown
  <2>5. ContentKnown'
    <3>1. \A m \in Nodes : m # n => job'[m] = job[m]
      BY <1>4, <2>2 DEF RunTyped
    <3>2. files[n] = "fresh" => job'[n] \in {"waiting", "building"}
      BY <1>4, <2>2 DEF RunInv, ContentKnown, RunTyped
    <3> QED BY <1>1, <1>2, <2>1, <3>1, <3>2 DEF RunInv, ContentKnown
  <2> QED BY <1>1, <2>3, <2>4, <2>5 DEF RunInv
<1>6. CASE EndWait(n)
  <2>1. /\ job[n] = "waiting" /\ d \in settled /\ job' = [job EXCEPT ![n] = "done"]
        /\ UNCHANGED <<result, builder, settled, files, faults>>
    BY <1>6 DEF EndWait
  <2>2. RunTyped'
    BY <1>2, <1>4, <2>1 DEF RunTyped
  <2>3. \A m \in Nodes : job'[m] = IF m = n THEN "done" ELSE job[m]
    BY <1>4, <2>1 DEF RunTyped
  <2>4. files[n] # "fresh"
    BY <2>1 DEF RunInv, ContentKnown
  <2>5. BuildsKnown'
    BY <1>2, <2>1, <2>3 DEF RunInv, BuildsKnown
  <2>6. ContentKnown'
    BY <1>1, <1>2, <2>1, <2>3, <2>4 DEF RunInv, ContentKnown
  <2> QED BY <1>1, <2>2, <2>5, <2>6 DEF RunInv
<1>7. CASE ScriptsOk(n) \/ ScriptsFail(n)
  <2>1. PICK res \in {"ok", "skipped", "failed"}, con \in {"built", "broken"} :
          /\ job[n] = "building" /\ job' = [job EXCEPT ![n] = "copying"]
          /\ result' = [result EXCEPT ![n] = res] /\ files' = [files EXCEPT ![n] = con]
          /\ res = "ok" => con = "built"
          /\ res = "skipped" => n \in plan.optional
          /\ UNCHANGED <<builder, settled>> /\ faults' \in 0..MaxFaults
    <3>1. CASE ScriptsOk(n)
      BY <1>4, <3>1 DEF ScriptsOk, RunTyped
    <3>2. CASE ScriptsFail(n)
      <4>1. faults' \in 0..MaxFaults
        BY <1>4, <3>2, BuildConstants DEF ScriptsFail, RunTyped
      <4>2. CASE n \in plan.optional
        BY <3>2, <4>1, <4>2 DEF ScriptsFail
      <4>3. CASE n \notin plan.optional
        BY <3>2, <4>1, <4>3 DEF ScriptsFail
      <4> QED BY <4>2, <4>3
    <3> QED BY <1>7, <3>1, <3>2
  <2>2. RunTyped'
    BY <1>2, <1>4, <2>1 DEF RunTyped
  <2>3. \A m \in Nodes : /\ job'[m] = IF m = n THEN "copying" ELSE job[m]
                         /\ result'[m] = IF m = n THEN res ELSE result[m]
                         /\ files'[m] = IF m = n THEN con ELSE files[m]
    BY <1>4, <2>1 DEF RunTyped
  <2>4. BuildsKnown'
    BY <1>2, <2>1, <2>3 DEF RunInv, BuildsKnown
  <2>5. ContentKnown'
    BY <1>1, <1>2, <2>1, <2>3 DEF RunInv, ContentKnown
  <2> QED BY <1>1, <2>2, <2>4, <2>5 DEF RunInv
<1>8. CASE EndBuild(n)
  <2>1. /\ job[n] = "copying" /\ UNCHANGED <<result, builder, faults>>
        /\ files' = [m \in Nodes |-> IF m \in Locations(n) THEN files[n] ELSE files[m]]
        /\ settled' = IF plan.hoisted THEN settled \cup {d} ELSE settled
        /\ job' = [job EXCEPT ![n] = IF result[n] = "failed" THEN "failed" ELSE "done"]
    BY <1>8 DEF EndBuild
  <2>2. RunTyped'
    BY <1>2, <1>3, <1>4, <2>1 DEF RunTyped
  <2>3. /\ files[n] # "fresh" /\ result[n] \in {"ok", "skipped", "failed"}
        /\ result[n] = "ok" => files[n] = "built"
        /\ result[n] = "skipped" => n \in plan.optional
        /\ plan.hoisted => builder[d] = n
    BY <2>1 DEF RunInv, BuildsKnown
  <2>4. \A m \in Nodes : m # n => job'[m] = job[m]
    BY <1>4, <2>1 DEF RunTyped
  <2>5. job'[n] = IF result[n] = "failed" THEN "failed" ELSE "done"
    BY <1>4, <2>1 DEF RunTyped
  <2>6. BuildsKnown'
    <3>1. \A m \in Nodes : m # n /\ job[m] = "copying" => files'[m] = files[m]
      BY <2>1, <2>3 DEF RunInv, BuildsKnown, Locations
    <3> QED BY <1>2, <2>1, <2>4, <2>5, <3>1 DEF RunInv, BuildsKnown
  <2>7. ContentKnown'
    <3>1. \A m \in Nodes : files'[m] = "fresh" => files[m] = "fresh" /\ m # n
      BY <2>1, <2>3
    <3>2. \A e \in settled' : \A m \in Nodes : DepPathOf[m] = e => files'[m] # "fresh"
      BY <2>1, <2>3 DEF RunInv, ContentKnown, Locations
    <3>3. ASSUME NEW m \in Nodes, files'[m] = "broken"
          PROVE  job'[m] = "copying" \/ m \in plan.optional \/ Failed'
      <4>1. CASE m \in Locations(n)
        <5>1. CASE result[n] = "failed"
          BY <2>5, <5>1 DEF Failed
        <5>2. CASE result[n] = "skipped"
          <6>1. n \in plan.optional /\ (m = n \/ (plan.hoisted /\ DepPathOf[m] = DepPathOf[n]))
            BY <2>3, <4>1, <5>2 DEF Locations
          <6> QED BY <1>3, <6>1, BuildConstants
        <5> QED BY <2>1, <2>3, <3>3, <4>1, <5>1, <5>2
      <4>2. CASE m \notin Locations(n)
        <5>1. m # n /\ files[m] = "broken"
          BY <2>1, <3>3, <4>2 DEF Locations
        <5> QED BY <1>1, <2>4, <5>1 DEF RunInv, ContentKnown
      <4> QED BY <4>1, <4>2
    <3>4. \A m \in Nodes : files'[m] = "fresh" =>
            /\ m \in plan.needs \ (plan.skip \cup plan.unindexed)
            /\ job'[m] \in {"none", "queued", "waiting", "building"} \/ Failed'
      BY <1>1, <2>4, <3>1 DEF RunInv, ContentKnown
    <3> QED BY <1>2, <3>2, <3>3, <3>4 DEF ContentKnown
  <2> QED BY <1>1, <2>2, <2>6, <2>7 DEF RunInv
<1>9. CASE CopyFails(n)
  <2>1. /\ job[n] = "copying" /\ job' = [job EXCEPT ![n] = "failed"]
        /\ UNCHANGED <<result, builder, settled, files>> /\ faults' \in 0..MaxFaults
    BY <1>4, <1>9, BuildConstants DEF CopyFails, RunTyped
  <2>2. RunTyped'
    BY <1>2, <1>4, <2>1 DEF RunTyped
  <2>3. \A m \in Nodes : job'[m] = IF m = n THEN "failed" ELSE job[m]
    BY <1>4, <2>1 DEF RunTyped
  <2>4. Failed'
    BY <2>3 DEF Failed
  <2>5. BuildsKnown'
    BY <1>2, <2>1, <2>3 DEF RunInv, BuildsKnown
  <2>6. ContentKnown'
    BY <1>2, <2>1, <2>4 DEF RunInv, ContentKnown
  <2> QED BY <1>1, <2>2, <2>5, <2>6 DEF RunInv
<1> QED BY <1>5, <1>6, <1>7, <1>8, <1>9 DEF Build

\* Every step keeps it.
LEMMA RunStep ==
  ASSUME WalkInv, SortInv, RunInv, [Next]_vars
  PROVE  RunInv'
<1>1. CASE Walk \/ Sort
  <2>1. pc \in {"walk", "sort"} /\ pc' \in {"walk", "sort"} /\ UNCHANGED <<plan, runVars>>
    BY <1>1 DEF Walk, Visit, Leave, StartSort, Sort
  <2> QED BY <2>1, RunStays
<1>2. CASE Groups
  BY <1>2, RunGroups
<1>3. ASSUME NEW n \in Nodes, Build(n) PROVE RunInv'
  BY <1>3, BuildContent
<1>4. CASE UNCHANGED vars
  BY <1>4 DEF vars, runVars, sequencerVars, RunInv, RunTyped, GroupsInOrder, BuildsKnown,
              ContentKnown, Failed, Group
<1> QED BY <1>1, <1>2, <1>3, <1>4 DEF Next, Stop

\* At the start nothing is sorted and nothing is built.
LEMMA InitSortAndRun == Init => SortInv /\ RunInv
<1> SUFFICES ASSUME Init PROVE SortInv /\ RunInv
  OBVIOUS
<1>1. SortInv
  BY DEF Init, SortInv, NotSorted
<1>2. RunTyped
  BY BuildConstants DEF Init, RunTyped
<1>3. GroupsInOrder /\ BuildsKnown /\ ContentKnown
  BY DEF Init, GroupsInOrder, BuildsKnown, ContentKnown
<1> QED BY <1>1, <1>2, <1>3 DEF RunInv

\* The invariant holds throughout.
LEMMA BuildInvariant == Spec => []IInv
<1>1. Init => IInv
  BY InitWalk, InitSortAndRun DEF IInv
<1>2. IInv /\ [Next]_vars => IInv'
  BY WalkStep, SortStep, RunStep DEF IInv
<1> QED BY <1>1, <1>2, PTL DEF Spec

-----------------------------------------------------------------------------
\* What follows

\* A package that was walked is finished when the walk is over.
LEMMA AllFinished ==
  ASSUME WalkInv, pc # "walk"
  PROVE  \A m \in walked : Finished(m)
BY DEF WalkInv, CallsInOrder, WalkTyped

\* A package whose build was started is among those to build, and needs it.
LEMMA StartedIsKept ==
  ASSUME IInv, NEW n \in Nodes, job[n] # "none"
  PROVE  /\ pc \notin {"walk", "sort"}
         /\ n \in nodesToBuild /\ n \in plan.needs \ plan.skip
         /\ \E i \in 1..current : i \in DOMAIN chunks /\ n \in chunks[i]
<1>1. pc \in {"run", "rejected", "resolved"}
  BY NothingBuilt DEF IInv, WalkInv, WalkTyped
<1>2. Sorted!Typed /\ Sorted!Partition
  BY <1>1 DEF IInv, SortInv, Sorted!IInv
<1>3. Len(chunks) \in Nat /\ DOMAIN chunks = 1..Len(chunks) /\ current \in Nat
  BY <1>2 DEF Sorted!Typed, IInv, RunInv, RunTyped
<1>4. current <= Len(chunks)
  <2>1. current \in DOMAIN chunks \/ current = Len(chunks)
    BY <1>1 DEF IInv, RunInv, GroupsInOrder
  <2>2. CASE current \in DOMAIN chunks
    BY <1>3, <2>2
  <2>3. CASE current = Len(chunks)
    BY <1>3, <2>3
  <2> QED BY <2>1, <2>2, <2>3
<1>5. PICK i \in 1..current : n \in Group(i)
  BY DEF IInv, RunInv, GroupsInOrder
<1>6. i \in DOMAIN chunks /\ n \in chunks[i] /\ n \in plan.needs \ plan.skip
  BY <1>3, <1>4, <1>5 DEF Group
<1>7. n \in nodesToBuild
  BY <1>2, <1>6, SameIncluded DEF Sorted!Partition
<1> QED BY <1>1, <1>6, <1>7

\* When a package on no cycle has been started, those of its dependencies that
\* are to be built are done.
LEMMA EarlierGroupsAreDone ==
  ASSUME IInv, NEW n \in Nodes, job[n] # "none", ~Sequencer!OnCycle(n),
         NEW m \in plan.deps[n], m \in nodesToBuild, m \in plan.needs \ plan.skip
  PROVE  job[m] = "done"
<1>1. pc \notin {"walk", "sort"} /\ n \in nodesToBuild
  BY StartedIsKept
<1>2. PICK i \in 1..current : i \in DOMAIN chunks /\ n \in chunks[i]
  BY StartedIsKept
<1>3. Sorted!Typed /\ Sorted!NodesOffCyclesWait /\ graph = BuildGraph
  BY <1>1 DEF IInv, SortInv, Sorted!IInv
<1>4. ~Sorted!OnCycle(n)
  BY DEF Sequencer!OnCycle, Sequencer!Reaches, Sequencer!Lengths, Sequencer!Cardinality, Sequencer!included,
         Sorted!OnCycle, Sorted!Reaches, Sorted!Lengths, Sorted!Cardinality, Sorted!included
<1>5. m \in graph[n] \cap Sorted!included
  BY <1>1, <1>3, SameIncluded DEF BuildGraph
<1>6. PICK j \in 1..(i - 1) : Sorted!Chunked(m, j)
  BY <1>2, <1>3, <1>4, <1>5 DEF Sorted!NodesOffCyclesWait
<1>7. m \in Group(j)
  BY <1>6 DEF Sorted!Chunked, Group
<1>8. current \in Nat
  BY DEF IInv, RunInv, RunTyped
<1>9. j \in 1..current /\ j < current
  BY <1>2, <1>6, <1>8
<1> QED BY <1>7, <1>9 DEF IInv, RunInv, GroupsInOrder

\* Every variable keeps its type, those of the sequencer too: no degree goes
\* below zero, and the walk never returns from its outermost call.
THEOREM BuildTypeCorrect == Spec => []TypeOK
<1>1. IInv => TypeOK
  <2> SUFFICES ASSUME IInv PROVE TypeOK
    OBVIOUS
  <2>1. plan \in AllPlans /\ Len(stack) > 0
    BY BuildConstants DEF IInv, WalkInv, WalkTyped, Depth
  <2>2. Sequencer!TypeOK
    <3>1. CASE pc = "walk"
      <4>1. order \in Seq(Nodes) /\ Len(order) \in Nat
        BY DEF IInv, WalkInv, WalkTyped
      <4> QED BY <3>1, <4>1 DEF IInv, SortInv, NotSorted, Sequencer!TypeOK
    <3>2. CASE pc # "walk"
      <4>1. Sorted!Typed /\ Sorted!DegreesCount
        BY <3>2 DEF IInv, SortInv, Sorted!IInv
      <4>2. \A n \in Nodes : Sorted!Cardinality(graph[n] \cap nodes) \in Nat
        BY <4>1, SequencerIsUsable, Sorted!FiniteNodes DEF Sorted!Typed
      <4>3. outDegree \in [Nodes -> Nat]
        BY <4>1, <4>2 DEF Sorted!DegreesCount
      <4>4. Sequencer!included = Sorted!included
        BY SameIncluded DEF nodesToBuild
      <4> QED BY <4>1, <4>3, <4>4 DEF Sorted!Typed, Sequencer!TypeOK
    <3> QED BY <3>1, <3>2
  <2> QED BY <2>1, <2>2 DEF IInv, WalkInv, WalkTyped, RunInv, RunTyped, TypeOK
<1> QED BY <1>1, BuildInvariant, PTL

\* Whatever scripts fail, a package on no cycle is built when the dependencies
\* it has are, at every location: groups follow the chunks of the sequencer, a
\* group waits for the whole one before it, and a build whose content was not
\* copied to the other locations ends the install.
THEOREM DependenciesComeBuilt == Spec => []DependenciesAreBuilt
<1>1. IInv => DependenciesAreBuilt
  <2> SUFFICES ASSUME IInv, NEW n \in Nodes, job[n] = "building", ~Sequencer!OnCycle(n),
                      NEW m \in plan.deps[n], m \notin plan.optional, ~Failed
               PROVE  files[m] = "built"
    BY DEF DependenciesAreBuilt
  <2>1. pc # "walk" /\ n \in nodesToBuild
    BY StartedIsKept
  <2>2. m \in walked /\ m \in Nodes /\ Finished(m)
    BY <2>1, AllFinished DEF IInv, WalkInv, WalkTyped, CallsInOrder, Finished
  <2>3. files[m] # "fresh"
    <3> SUFFICES ASSUME files[m] = "fresh" PROVE FALSE
      OBVIOUS
    <3>1. m \in plan.needs \ plan.skip /\ job[m] \in {"none", "queued", "waiting", "building"}
      BY <2>2 DEF IInv, RunInv, ContentKnown
    <3>2. m \in nodesToBuild
      BY <2>2, <3>1 DEF Finished
    <3> QED BY <3>1, <3>2, EarlierGroupsAreDone
  <2>4. files[m] # "broken"
    <3> SUFFICES ASSUME files[m] = "broken" PROVE FALSE
      OBVIOUS
    <3>1. job[m] = "copying"
      BY <2>2 DEF IInv, RunInv, ContentKnown
    <3> QED BY <2>2, <3>1, StartedIsKept, EarlierGroupsAreDone
  <2> QED BY <2>2, <2>3, <2>4 DEF IInv, RunInv, RunTyped
<1> QED BY <1>1, BuildInvariant, PTL

\* When buildModules resolves, all that can be reached is built, at every
\* location: no package was lost by the walk, by the sort or between groups.
THEOREM ResolvedIsBuilt == Spec => []ResolvedMeansBuilt
<1>1. IInv => ResolvedMeansBuilt
  <2> SUFFICES ASSUME IInv, pc = "resolved", NEW n \in Reachable \ plan.optional
               PROVE  files[n] = "built"
    BY DEF ResolvedMeansBuilt
  <2>1. n \in Nodes
    BY DEF Reachable
  <2>2. \A m \in Nodes : job[m] # "none" => job[m] = "done"
    BY DEF IInv, RunInv, GroupsInOrder
  <2>3. ~Failed
    BY <2>2 DEF Failed
  <2>4. files[n] # "broken"
    BY <2>1, <2>2, <2>3 DEF IInv, RunInv, ContentKnown
  <2>5. files[n] # "fresh"
    <3> SUFFICES ASSUME files[n] = "fresh" PROVE FALSE
      OBVIOUS
    <3>1. n \in plan.needs \ plan.skip /\ job[n] \in {"none", "queued", "waiting", "building"}
      BY <2>1, <2>3 DEF IInv, RunInv, ContentKnown
    <3>2. n \in nodesToBuild
      BY <3>1, WalkedIsClosed DEF IInv, EveryBuildIsScheduled
    <3>3. Sorted!Typed /\ Sorted!Partition /\ scan = 0 /\ nodes = {}
      BY DEF IInv, SortInv, Sorted!IInv
    <3>4. PICK i \in DOMAIN chunks : n \in chunks[i]
      BY <3>2, <3>3, SameIncluded DEF Sorted!Partition
    <3>5. i \in 1..current
      BY <3>3, <3>4 DEF IInv, RunInv, GroupsInOrder, Sorted!Typed
    <3>6. n \in Group(i)
      BY <3>1, <3>4 DEF Group
    <3> QED BY <3>1, <3>5, <3>6 DEF IInv, RunInv, GroupsInOrder
  <2> QED BY <2>1, <2>4, <2>5 DEF IInv, RunInv, RunTyped
<1> QED BY <1>1, BuildInvariant, PTL

\* Whatever the graph, the order of the children and the packages that need a
\* build: each of them that can be reached is kept by buildSequence.
THEOREM BuildsAreScheduled == Spec => []EveryBuildIsScheduled
<1>1. IInv => EveryBuildIsScheduled
  BY WalkedIsClosed DEF IInv
<1> QED BY <1>1, BuildInvariant, PTL
=============================================================================

--------------------------- MODULE MCGraphSequencer ---------------------------
\* Instances of GraphSequencer for TLC.
EXTENDS GraphSequencer

\* Every graph of four nodes, with self-edges of the first and the last.
FourGraphs ==
  {g \in [1..4 -> SUBSET (1..4)] : 2 \notin g[2] /\ 3 \notin g[3]}
\* All nodes, or all but the last.
AllOrThree == {<<1, 2, 3, 4>>, <<1, 2, 3>>}

\* Two pairs that depend on each other, and a fifth node.  As the callers
\* that sort packages have it, no node depends on itself.
TwoPairs == {<<{2}, {1}, {4} \cup s, {3}, t>> : s, t \in SUBSET {1, 5}}
PairGraphs == {g \in TwoPairs : 5 \notin g[5]}
OnlyAll == {<<1, 2, 3, 4, 5>>}
=============================================================================

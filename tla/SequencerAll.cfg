SPECIFICATION Spec
CONSTANTS
  Nodes = {1, 2, 3, 4}
  Graphs <- FourGraphs
  Orders <- AllOrThree
INVARIANT TypeOK
INVARIANT DegreesMatch
INVARIANT NodesOffCyclesWait
INVARIANT ChunksPartition
INVARIANT SafeIsAcyclic
INVARIANT EveryScanFindsACycle

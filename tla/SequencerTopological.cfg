SPECIFICATION Spec
CONSTANTS
  Nodes = {1, 2, 3, 4, 5}
  Graphs <- PairGraphs
  Orders <- OnlyAll
INVARIANT DependenciesBeforeDependents

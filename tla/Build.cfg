SPECIFICATION FairSpec
CONSTANTS
  Nodes = {1, 2, 3, 4}
  DepPaths = {"p", "q", "r"}
  DepPathOf <- PathOf
  Plans <- FourPlans
  ChildConcurrency = 2
  MaxFaults = 1
  NoNode = NoNode
INVARIANT TypeOK
INVARIANT EveryBuildIsScheduled
INVARIANT DependenciesAreBuilt
INVARIANT ResolvedMeansBuilt
PROPERTY BuildEnds

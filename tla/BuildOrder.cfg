SPECIFICATION Spec
CONSTANTS
  Nodes = {1, 2, 3, 4}
  DepPaths = {"p", "q", "r", "s"}
  DepPathOf <- OwnPathOf
  Plans <- ChainPlans
  ChildConcurrency = 2
  MaxFaults = 0
  NoNode = NoNode
INVARIANT ScriptsRunAfterThoseOfDeps
